--------------------------- MODULE SettingsProofs ---------------------------
(***************************************************************************)
(* Proofs about Settings, for every value of its constants: any numbers of *)
(* instances and requests, any deployments and patches that the handlers   *)
(* accept.                                                                 *)
(***************************************************************************)
EXTENDS Settings, TLAPS

-----------------------------------------------------------------------------
(* Documents and patches.                                                  *)

AllGroups == Switches \cup {"uploads", "slack", "github", "templates"}
PatchType == UNION {[S -> Values] : S \in SUBSET Fields}
Parts(g) == [{f \in Fields : f[1] = g} -> Values]

ByLang == <<"templates", "byLang">>
App == <<"slack", "app">>
Error == <<"slack", "error">>

\* The fields that the actions name, and what a field is.
LEMMA FieldsAre ==
    /\ ByLang \in Fields /\ App \in Fields /\ Error \in Fields
    /\ <<"slack", "webhook">> \in Fields /\ <<"slack", "token">> \in Fields
    /\ <<"github", "repo">> \in Fields /\ <<"github", "token">> \in Fields
    /\ <<"uploads", "enabled">> \in Fields /\ <<"uploads", "backend">> \in Fields
    /\ <<"uploads", "bucket">> \in Fields
    /\ \A g \in Switches : <<g, "enabled">> \in Fields /\ <<g, "value">> \in Fields
BY DEF ByLang, App, Error, Fields, UploadFields, SlackFields, GitHubFields,
       TemplateFields

LEMMA FieldIs == \A k \in Fields : k[1] \in AllGroups
BY DEF AllGroups, Fields, UploadFields, SlackFields, GitHubFields, TemplateFields

LEMMA GroupsTyped == \A p \in PatchType : Groups(p) \subseteq AllGroups
<1>1. \A p \in PatchType : DOMAIN p \subseteq Fields
  BY DEF PatchType
<1> QED
  BY <1>1, FieldIs DEF Groups

LEMMA GroupsOfDocument == \A d \in Document : Groups(d) \subseteq AllGroups
BY FieldIs DEF Groups, Document

LEMMA PatchIs ==
    ASSUME NEW p \in PatchType
    PROVE  /\ DOMAIN p \subseteq Fields
           /\ \A k \in DOMAIN p : p[k] \in Values /\ k \in Fields /\ k[1] \in Groups(p)
BY DEF PatchType, Groups

LEMMA PatchOf ==
    ASSUME NEW S \in SUBSET Fields, NEW v \in Values
    PROVE  [k \in S |-> v] \in PatchType /\ DOMAIN [k \in S |-> v] = S
BY DEF PatchType

LEMMA NoPatch ==
    /\ << >> \in PatchType /\ DOMAIN << >> = {} /\ Groups(<< >>) = {}
<1>1. << >> = [k \in {} |-> "none"]
  OBVIOUS
<1>2. DOMAIN << >> = {}
  OBVIOUS
<1> QED
  BY <1>1, <1>2 DEF PatchType, Groups

LEMMA PartTyped == ASSUME NEW d \in Document, NEW g PROVE Part(d, g) \in Parts(g)
BY DEF Part, Parts, Document

LEMMA ZeroTyped == Zero \in Document
BY DEF Zero, Document, Values

LEMMA MergedTyped ==
    ASSUME NEW p \in PatchType, NEW d \in Document
    PROVE  /\ Merged(p, d) \in Document
           /\ \A k \in Fields : Merged(p, d)[k] = IF k \in DOMAIN p THEN p[k] ELSE d[k]
BY PatchIs DEF Merged, Document

\* A document but for the field k.
LEMMA Edited ==
    ASSUME NEW d \in Document, NEW k \in Fields, NEW v \in Values
    PROVE  /\ [d EXCEPT ![k] = v] \in Document
           /\ \A f \in Fields : [d EXCEPT ![k] = v][f] = IF f = k THEN v ELSE d[f]
BY DEF Document

LEMMA BackendTyped ==
    ASSUME NEW u \in Parts("uploads")
    PROVE  BackendOf(u) \in Values
<1>1. u[<<"uploads", "bucket">>] \in Values
  BY FieldsAre DEF Parts
<1>2. "local" \in Values /\ "none" \in Values
  BY DEF Values
<1> QED
  BY <1>1, <1>2 DEF BackendOf

-----------------------------------------------------------------------------
(* Typing.                                                                 *)

Rest == {"new", "done", "dead", "created"}
Pcs == Rest \cup {"writing", "starting", "refreshing", "swapping", "reloading", "building",
                  "migrating", "seeding", "exchanging", "posting", "putting",
                  "inserting", "undoing"}
Reads == {<< >>} \cup Parts("ai") \cup Parts("uploads")
RequestType == [pc : Pcs, kind : Values \cup Kinds, at : Instances \cup {"none"},
                groups : SUBSET AllGroups, patch : PatchType, left : SUBSET Fields,
                read : Reads, backend : Values]
HolderType == [enabled : Values, backend : Values, build : {"done", "failed"}]

\* What a request is at work on, by what it is about.
Rests(x) == /\ x.pc \in Rest /\ x.kind = "none" /\ x.at = "none" /\ x.groups = {}
            /\ x.patch = << >> /\ x.left = {}
Saves(x) == /\ x.kind = "save" /\ x.groups = Groups(x.patch)
            /\ "ai" \in x.groups => x.groups = {"ai"}
            /\ \/ x.pc = "writing"
               \/ x.pc \in {"reloading", "building"} /\ x.left = {} /\ "uploads" \in x.groups
               \/ x.pc \in {"refreshing", "swapping"} /\ x.left = {} /\ x.groups = {"ai"}
SavesApp(x) == /\ x.kind = "app" /\ x.groups = {} /\ x.pc = "writing"
               /\ DOMAIN x.patch = {App}
Connects(x) == /\ x.kind = "save" /\ x.groups = {"slack"} /\ x.pc = "exchanging"
               /\ x.patch = << >> /\ x.left = {}
Notices(x) == /\ x.kind \notin Kinds /\ x.groups = {"slack"}
              /\ x.patch = [k \in {Error} |-> "failed"]
              /\ x.pc = "writing" \/ (x.pc = "posting" /\ x.left = DOMAIN x.patch)
Uploads(x) == /\ x.kind = "upload" /\ x.groups = {} /\ x.patch = << >> /\ x.left = {}
              /\ x.pc \in {"putting", "inserting", "undoing"}
BootGroups == {"templates", "uploads", "ai"}
Seeds(x) == /\ x.kind = "seed" /\ x.patch = [k \in {ByLang} |-> "defaults"]
NoWrite(x) == x.kind \in {"boot", "blind"} /\ x.patch = << >> /\ x.left = {}
Boots(x) ==
    /\ x.groups = BootGroups
    /\ NoWrite(x) \/ Seeds(x)
    /\ \/ x.pc = "migrating" /\ x.kind = "boot"
       \/ x.pc = "writing" /\ Seeds(x)
       \/ x.pc = "seeding" /\ x.kind = "boot"
       \/ x.pc \in {"starting", "refreshing", "swapping"}

Early == {"migrating", "writing", "seeding", "starting"}
Fits(x) ==
    /\ x.left \subseteq DOMAIN x.patch
    /\ Rests(x) \/ (x.at \in Instances /\ (Saves(x) \/ SavesApp(x) \/ Connects(x)
                                           \/ Notices(x) \/ Uploads(x) \/ Boots(x)))
    /\ x.pc = "swapping" => x.read \in Parts("ai")
    /\ x.pc = "building" \/ (Boots(x) /\ x.pc \in Early) => x.read \in Parts("uploads")

StoreTyped ==
    /\ doc \in Document /\ up \subseteq Instances
    /\ snap \in [Instances -> Parts("ai")] /\ holder \in [Instances -> HolderType]
    /\ files \subseteq Requests /\ blobs \subseteq Values \X Requests
    /\ tokens \subseteq Values /\ faults \in 0..MaxFaults
    /\ crossed \subseteq Requests /\ torn \subseteq AllGroups
    /\ behind \subseteq Instances \X {"ai", "uploads"} /\ stray \subseteq Requests

TypeInv == StoreTyped /\ req \in [Requests -> RequestType] /\ \A r \in Requests : Fits(req[r])

\* The request r, and only it, is now x.
Turns(r, x) == /\ req' = [req EXCEPT ![r] = x]
               /\ x \in RequestType /\ Fits(x)

LEMMA Turn ==
    ASSUME TypeInv, NEW r \in Requests, NEW x, Turns(r, x)
    PROVE  /\ req' \in [Requests -> RequestType] /\ req'[r] = x
           /\ \A q \in Requests : q # r => req'[q] = req[q]
           /\ \A q \in Requests : Fits(req'[q])
BY DEF Turns, TypeInv

LEMMA RequestIs ==
    ASSUME TypeInv, NEW r \in Requests
    PROVE  req[r] \in RequestType /\ Fits(req[r])
BY DEF TypeInv

\* A boot is nothing else.
LEMMA BootsOnly ==
    ASSUME NEW x, Boots(x)
    PROVE  ~(Rests(x) \/ Saves(x) \/ SavesApp(x) \/ Connects(x) \/ Notices(x) \/ Uploads(x))
BY DEF Boots, Rests, Saves, SavesApp, Connects, Notices, Uploads, BootGroups

LEMMA StringsAre == /\ "none" \in Values /\ "failed" \in Values
                    /\ "defaults" \in Values /\ "usable" \in Values
                    /\ Requests \subseteq Values
                    /\ Rest \subseteq Pcs
                    /\ "none" \notin Instances
                    /\ \A v \in Values : v \in Kinds => v = "none"
BY ConstantsAssumption DEF Values, Rest, Pcs, ConstantsAssumption, Kinds, Buckets

LEMMA FreshTyped ==
    ASSUME NEW pc \in Rest, NEW b \in Values
    PROVE  LET x == [Fresh(pc) EXCEPT !.backend = b]
           IN  x \in RequestType /\ Fits(x) /\ Rests(x)
BY StringsAre, NoPatch, ConstantsAssumption
   DEF Fresh, RequestType, Fits, Rests, Boots, Reads, Rest, ConstantsAssumption, Kinds,
       BootGroups

-----------------------------------------------------------------------------
(* Steps keep the types.                                                   *)

LEMMA InitTyped == Init => TypeInv
<1> SUFFICES ASSUME Init PROVE TypeInv
  OBVIOUS
<1>1. doc \in Document /\ up \subseteq Instances
  BY ConstantsAssumption DEF Init, ConstantsAssumption
<1>2. snap \in [Instances -> Parts("ai")]
  BY <1>1, PartTyped, ZeroTyped DEF Init
<1>3. holder \in [Instances -> HolderType]
  <2>1. Part(doc, "uploads") \in Parts("uploads")
    BY <1>1, PartTyped
  <2>2. Part(doc, "uploads")[<<"uploads", "enabled">>] \in Values
    BY <2>1, FieldsAre DEF Parts
  <2>3. NoHolder \in HolderType
    BY StringsAre DEF NoHolder, HolderType, Values
  <2>4. Reloaded(NoHolder, Part(doc, "uploads"), TRUE) \in HolderType
    BY <2>1, <2>2, BackendTyped DEF Reloaded, HolderType
  <2> QED
    BY <2>3, <2>4 DEF Init
<1>4. tokens \subseteq Values
  BY <1>1, FieldsAre DEF Init, Document
<1>5. req \in [Requests -> RequestType] /\ \A r \in Requests : Fits(req[r])
  <2>1. [Fresh("new") EXCEPT !.backend = "none"] = Fresh("new")
    BY DEF Fresh
  <2>2. Fresh("new") \in RequestType /\ Fits(Fresh("new"))
    BY <2>1, FreshTyped, StringsAre DEF Rest
  <2> QED
    BY <2>2 DEF Init
<1>6. 0 \in 0..MaxFaults
  BY ConstantsAssumption DEF ConstantsAssumption
<1> QED
  BY <1>1, <1>2, <1>3, <1>4, <1>5, <1>6 DEF Init, TypeInv, StoreTyped

\* What a beginning request is.
Begun(i, kind, pc, g, patch) ==
    [Fresh(pc) EXCEPT !.kind = kind, !.at = i, !.groups = g, !.patch = patch,
                      !.left = DOMAIN patch]

LEMMA Begins ==
    ASSUME TypeInv, NEW r \in Requests, NEW i \in Instances, NEW kind \in Values \cup Kinds,
           NEW pc \in {"writing", "exchanging", "posting", "putting"},
           NEW g \in SUBSET AllGroups, NEW patch \in PatchType,
           Begin(r, i, kind, pc, g, patch), kind # "boot",
           LET x == Begun(i, kind, pc, g, patch)
           IN  Saves(x) \/ SavesApp(x) \/ Connects(x) \/ Notices(x) \/ Uploads(x)
    PROVE  /\ Turns(r, Begun(i, kind, pc, g, patch)) /\ req[r].pc = "new" /\ i \in up
           /\ crossed' = crossed \cup CrossedBy(r, g) /\ crossed' \subseteq Requests
<1> DEFINE x == Begun(i, kind, pc, g, patch)
<1>1. /\ x.pc = pc /\ x.kind = kind /\ x.at = i /\ x.groups = g /\ x.patch = patch
      /\ x.left = DOMAIN patch /\ x.read = << >> /\ x.backend = "none"
  BY DEF Begun, Fresh
<1>2. x \in RequestType
  BY PatchIs, StringsAre DEF Begun, Fresh, RequestType, Pcs, Reads
<1>3. ~Boots(x)
  BY <1>1, ConstantsAssumption, StringsAre
     DEF Boots, Saves, SavesApp, Connects, Notices, Uploads, BootGroups, NoWrite,
         Seeds, Kinds
<1>4. Fits(x)
  BY <1>1, <1>3 DEF Fits
<1>5. CrossedBy(r, g) \subseteq Requests
  BY DEF CrossedBy
<1> QED
  BY <1>2, <1>4, <1>5 DEF Begin, Turns, Begun, TypeInv, StoreTyped

LEMMA Ends ==
    ASSUME TypeInv, NEW r \in Requests, NEW pc \in Rest, End(r, pc)
    PROVE  \E x : Turns(r, x) /\ Rests(x) /\ x.pc = pc /\ x.backend = req[r].backend
<1> DEFINE x == [Fresh(pc) EXCEPT !.backend = req[r].backend]
<1>1. req[r].backend \in Values
  BY RequestIs DEF RequestType
<1>2. x \in RequestType /\ Fits(x) /\ Rests(x)
  BY <1>1, FreshTyped
<1>3. x.pc = pc /\ x.backend = req[r].backend
  BY DEF Fresh
<1> QED
  BY <1>2, <1>3 DEF End, Turns

\* What a request is about when it is at a place.
LEMMA PlacesAre ==
    ASSUME NEW x, Fits(x)
    PROVE  /\ x.pc \notin Rest => x.at \in Instances /\ ~Rests(x)
           /\ x.pc = "writing" => Saves(x) \/ SavesApp(x) \/ Notices(x) \/ Seeds(x)
           /\ x.pc \in {"reloading", "building"} => Saves(x) /\ "uploads" \in x.groups
           /\ x.pc \in {"refreshing", "swapping"}
              => Boots(x) \/ (Saves(x) /\ x.groups = {"ai"})
           /\ x.pc \in {"migrating", "seeding", "starting"} => Boots(x)
           /\ Seeds(x) => Boots(x)
           /\ x.pc = "exchanging" => Connects(x)
           /\ x.pc = "posting" => Notices(x)
           /\ x.pc \in {"putting", "inserting", "undoing"} => Uploads(x)
           /\ x.pc \in Rest <=> Rests(x)
           /\ Saves(x) \/ SavesApp(x) \/ Connects(x) \/ Uploads(x) => x.kind \in Kinds
BY DEF Fits, Rests, Saves, SavesApp, Connects, Notices, Uploads, Boots, NoWrite, Seeds,
       Rest, Kinds

-----------------------------------------------------------------------------
LEMMA PatchesAre ==
    ASSUME NEW p \in Patches
    PROVE  /\ p \in PatchType
           /\ "ai" \in Groups(p) => Groups(p) = {"ai"}
           /\ "slack" \notin Groups(p) /\ "github" \notin Groups(p)
BY ConstantsAssumption DEF ConstantsAssumption, PatchType

LEMMA GitHubPatch ==
    ASSUME NEW v \in Values
    PROVE  /\ [k \in GitHubFields |-> v] \in PatchType
           /\ DOMAIN [k \in GitHubFields |-> v] = GitHubFields
           /\ Groups([k \in GitHubFields |-> v]) = {"github"}
<1>1. GitHubFields \subseteq Fields /\ \A k \in GitHubFields : k[1] = "github"
  BY DEF Fields, GitHubFields
<1>2. <<"github", "repo">> \in GitHubFields
  BY DEF GitHubFields
<1> QED
  BY <1>1, <1>2, PatchOf DEF Groups

LEMMA SlackPatch ==
    /\ SlackFields \subseteq Fields
    /\ \A k \in SlackFields : k[1] = "slack"
    /\ SlackFields = {App, Error, <<"slack", "webhook">>, <<"slack", "token">>}
BY DEF Fields, SlackFields, App, Error

\* The patches that requests for the integrations begin with.
LEMMA SaveBegins ==
    ASSUME TypeInv, NEW r \in Requests, NEW i \in Instances, NEW p \in PatchType,
           "ai" \in Groups(p) => Groups(p) = {"ai"}, Save(r, i, p)
    PROVE  /\ Turns(r, Begun(i, "save", "writing", Groups(p), p)) /\ req[r].pc = "new"
           /\ i \in up
           /\ crossed' = crossed \cup CrossedBy(r, Groups(p)) /\ crossed' \subseteq Requests
           /\ Saves(Begun(i, "save", "writing", Groups(p), p))
<1> DEFINE x == Begun(i, "save", "writing", Groups(p), p)
<1>1. Groups(p) \in SUBSET AllGroups
  BY GroupsTyped
<1>2. Saves(x)
  BY DEF Saves, Begun, Fresh
<1> QED
  BY <1>1, <1>2, Begins DEF Save, Kinds

LEMMA AppBegins ==
    ASSUME TypeInv, NEW r \in Requests, SaveSlackApp(r)
    PROVE  \E i \in Instances, p \in PatchType :
              LET x == Begun(i, "app", "writing", {}, p) IN
              /\ Turns(r, x) /\ SavesApp(x) /\ req[r].pc = "new" /\ i \in up
              /\ crossed' = crossed \cup CrossedBy(r, {}) /\ crossed' \subseteq Requests
<1> DEFINE p == [k \in {App} |-> "usable"]
<1>1. PICK i \in Instances : Begin(r, i, "app", "writing", {}, p)
  BY DEF SaveSlackApp, App
<1>2. p \in PatchType /\ DOMAIN p = {App}
  BY PatchOf, FieldsAre, StringsAre
<1>3. SavesApp(Begun(i, "app", "writing", {}, p))
  BY <1>2 DEF SavesApp, Begun, Fresh
<1> HIDE DEF p
<1> QED
  BY <1>1, <1>2, <1>3, Begins DEF Kinds

LEMMA CallbackBegins ==
    ASSUME TypeInv, NEW r \in Requests, Callback(r)
    PROVE  \E i \in Instances :
              LET x == Begun(i, "save", "exchanging", {"slack"}, << >>) IN
              /\ Turns(r, x) /\ Connects(x) /\ req[r].pc = "new" /\ i \in up
              /\ crossed' = crossed \cup CrossedBy(r, {"slack"}) /\ crossed' \subseteq Requests
<1>1. PICK i \in Instances : Begin(r, i, "save", "exchanging", {"slack"}, << >>)
  BY DEF Callback
<1>2. Connects(Begun(i, "save", "exchanging", {"slack"}, << >>))
  BY NoPatch DEF Connects, Begun, Fresh
<1> QED
  BY <1>1, <1>2, Begins, NoPatch DEF Kinds, AllGroups

LEMMA DisconnectBegins ==
    ASSUME TypeInv, NEW r \in Requests, DisconnectSlack(r)
    PROVE  \E i \in Instances, p \in PatchType :
              LET x == Begun(i, "save", "writing", {"slack"}, p) IN
              /\ p = [k \in SlackFields |-> "none"]
              /\ Turns(r, x) /\ Saves(x) /\ req[r].pc = "new" /\ i \in up
              /\ crossed' = crossed \cup CrossedBy(r, {"slack"}) /\ crossed' \subseteq Requests
<1> DEFINE p == [k \in SlackFields |-> "none"]
<1>1. PICK i \in Instances : Begin(r, i, "save", "writing", {"slack"}, p)
  BY DEF DisconnectSlack
<1>2. p \in PatchType /\ DOMAIN p = SlackFields
  BY PatchOf, SlackPatch, StringsAre
<1>3. Groups(p) = {"slack"}
  BY <1>2, SlackPatch DEF Groups
<1>4. p = [k \in SlackFields |-> "none"]
  OBVIOUS
<1> HIDE DEF p
<1>5. Saves(Begun(i, "save", "writing", {"slack"}, p))
  BY <1>3 DEF Saves, Begun, Fresh
<1> QED
  BY <1>1, <1>2, <1>4, <1>5, Begins DEF Kinds, AllGroups

LEMMA NotifyBegins ==
    ASSUME TypeInv, NEW r \in Requests, Notify(r)
    PROVE  \E i \in Instances, p \in PatchType :
              LET x == Begun(i, doc[<<"slack", "webhook">>], "posting", {"slack"}, p) IN
              /\ p = [k \in {Error} |-> "failed"]
              /\ Turns(r, x) /\ Notices(x) /\ req[r].pc = "new" /\ i \in up
              /\ crossed' = crossed \cup CrossedBy(r, {"slack"}) /\ crossed' \subseteq Requests
<1> DEFINE p == [k \in {Error} |-> "failed"]
           v == doc[<<"slack", "webhook">>]
<1>1. PICK i \in Instances : Begin(r, i, v, "posting", {"slack"}, p)
  BY DEF Notify, Error
<1>2. p \in PatchType /\ DOMAIN p = {Error}
  BY PatchOf, FieldsAre, StringsAre
<1>3. v \in Values /\ v \notin Kinds
  BY FieldsAre, StringsAre DEF Notify, TypeInv, StoreTyped, Document
<1>4. p = [k \in {Error} |-> "failed"]
  OBVIOUS
<1> HIDE DEF p, v
<1>5. Notices(Begun(i, v, "posting", {"slack"}, p))
  BY <1>3, <1>4 DEF Notices, Begun, Fresh
<1>6. v # "boot"
  BY <1>3 DEF Kinds
<1> QED
  BY <1>1, <1>2, <1>3, <1>4, <1>5, <1>6, Begins DEF v, AllGroups

LEMMA UploadBegins ==
    ASSUME TypeInv, NEW r \in Requests, Upload(r)
    PROVE  \E i \in Instances :
              LET x == Begun(i, "upload", "putting", {}, << >>) IN
              /\ Turns(r, x) /\ Uploads(x) /\ req[r].pc = "new" /\ i \in up
              /\ crossed' = crossed \cup CrossedBy(r, {}) /\ crossed' \subseteq Requests
<1>1. PICK i \in Instances : Begin(r, i, "upload", "putting", {}, << >>)
  BY DEF Upload
<1>2. Uploads(Begun(i, "upload", "putting", {}, << >>))
  BY NoPatch DEF Uploads, Begun, Fresh
<1> QED
  BY <1>1, <1>2, Begins, NoPatch DEF Kinds

-----------------------------------------------------------------------------
\* The request r goes on as x, about the same.
SameWork(x, y) == /\ x.kind = y.kind /\ x.at = y.at /\ x.groups = y.groups
                  /\ x.patch = y.patch

\* What follows a write.
LEMMA FollowsWrite ==
    ASSUME NEW y \in RequestType, Fits(y), y.pc = "writing"
    PROVE  LET pc == AfterWriting(y) IN
           \/ Saves(y) /\ y.groups = {"ai"} /\ pc = "refreshing"
           \/ Saves(y) /\ "uploads" \in y.groups /\ pc = "reloading"
           \/ Saves(y) /\ y.groups \cap {"ai", "uploads"} = {} /\ pc = "done"
           \/ SavesApp(y) /\ pc = "done"
           \/ Notices(y) /\ pc = "done"
           \/ Seeds(y) /\ Boots(y) /\ pc = "starting"
<1>1. Saves(y) \/ SavesApp(y) \/ Notices(y) \/ Seeds(y)
  BY PlacesAre
<1>2. CASE Saves(y)
  BY <1>2 DEF Saves, AfterWriting
<1>3. CASE SavesApp(y)
  BY <1>3 DEF SavesApp, AfterWriting
<1>4. CASE Notices(y)
  BY <1>4 DEF Notices, AfterWriting, Kinds
<1>5. CASE Seeds(y)
  <2>1. y.kind = "seed" /\ Boots(y)
    BY <1>5, PlacesAre DEF Seeds
  <2>2. y.groups # {"ai"}
    BY <2>1 DEF Boots, BootGroups
  <2> QED
    BY <1>5, <2>1, <2>2 DEF AfterWriting
<1> QED
  BY <1>1, <1>2, <1>3, <1>4, <1>5

\* A field is written: the request goes on, or ends.
Wrote(r, k, x) ==
    LET y == req[r] IN
    /\ y.pc = "writing" /\ k \in y.left
    /\ doc' = [doc EXCEPT ![k] = y.patch[k]]
    /\ torn' = IF y.left = {k} THEN Written(r) ELSE torn
    /\ behind' = behind \cup Elsewhere(y.at, k[1])
    /\ Turns(r, x)
    /\ \/ /\ y.left = {k} /\ Rests(x) /\ x.pc = "done" /\ y.groups \cap {"ai", "uploads"} = {}
          /\ Saves(y) \/ SavesApp(y) \/ Notices(y)
       \/ /\ SameWork(x, y) /\ x.read = y.read /\ x.left = y.left \ {k}
          /\ \/ y.left # {k} /\ x.pc = "writing"
             \/ /\ y.left = {k}
                /\ \/ Saves(y) /\ y.groups = {"ai"} /\ x.pc = "refreshing"
                   \/ Saves(y) /\ "uploads" \in y.groups /\ x.pc = "reloading"
                   \/ Seeds(y) /\ x.pc = "starting"

LEMMA Writes ==
    ASSUME TypeInv, NEW r \in Requests, WriteField(r)
    PROVE  \E k, x : Wrote(r, k, x)
<1>y. PICK y \in RequestType : y = req[r] /\ Fits(y)
  BY RequestIs
<1>1. PICK k \in y.left :
         LET pc == IF y.left = {k} THEN AfterWriting(y) ELSE "writing" IN
         /\ doc' = [doc EXCEPT ![k] = y.patch[k]]
         /\ torn' = IF y.left = {k} THEN Written(r) ELSE torn
         /\ behind' = behind \cup Elsewhere(y.at, k[1])
         /\ IF pc = "done" THEN End(r, "done")
            ELSE req' = [req EXCEPT ![r].pc = pc, ![r].left = @ \ {k}]
  BY <1>y DEF WriteField
<1>2. y.pc = "writing"
  BY <1>y DEF WriteField
<1>3. CASE y.left = {k} /\ AfterWriting(y) = "done"
  <2>1. End(r, "done") /\ "done" \in Rest
    BY <1>1, <1>3 DEF Rest
  <2>2. PICK x : Turns(r, x) /\ Rests(x) /\ x.pc = "done"
    BY <2>1, Ends
  <2>3. y.groups \cap {"ai", "uploads"} = {} /\ (Saves(y) \/ SavesApp(y) \/ Notices(y))
    BY <1>2, <1>3, <1>y, FollowsWrite DEF SavesApp, Notices
  <2>4. Wrote(r, k, x)
    BY <1>1, <1>2, <1>3, <1>y, <2>2, <2>3 DEF Wrote
  <2> QED
    BY <2>4
<1>4. CASE ~(y.left = {k} /\ AfterWriting(y) = "done")
  <2> DEFINE pc == IF y.left = {k} THEN AfterWriting(y) ELSE "writing"
             x == [y EXCEPT !.pc = pc, !.left = y.left \ {k}]
  <2>1. req' = [req EXCEPT ![r] = x]
    BY <1>1, <1>4, <1>y DEF TypeInv
  <2>2. /\ SameWork(x, y) /\ x.left = y.left \ {k} /\ x.read = y.read
        /\ x.pc = pc /\ x.backend = y.backend
    BY DEF SameWork, RequestType
  <2>3. pc \in Pcs /\ pc \notin {"swapping", "building"}
    BY <1>2, <1>4, <1>y, FollowsWrite DEF Pcs
  <2>4. x \in RequestType
    BY <2>2, <2>3 DEF RequestType
  <2>5. Rests(x) \/ (x.at \in Instances /\ (Saves(x) \/ SavesApp(x) \/ Notices(x) \/ Boots(x)))
    <3>1. y.at \in Instances
      BY <1>2, <1>y, PlacesAre DEF Rest
    <3>2. CASE y.left # {k}
      <4>1. x.pc = "writing" /\ y.left \ {k} # {} /\ x.kind = y.kind /\ x.patch = y.patch
            /\ x.groups = y.groups
        BY <1>1, <2>2, <3>2 DEF SameWork
      <4>2. Saves(y) \/ SavesApp(y) \/ Notices(y) \/ Seeds(y)
        BY <1>2, <1>y, PlacesAre
      <4>3. Saves(y) => Saves(x)
        BY <4>1, <1>2 DEF Saves
      <4>4. SavesApp(y) => SavesApp(x)
        BY <4>1 DEF SavesApp
      <4>5. Notices(y) => Notices(x)
        BY <4>1 DEF Notices
      <4>6. Boots(y) /\ Seeds(y) => Boots(x)
        BY <4>1 DEF Boots, Seeds
      <4> QED
        BY <2>2, <3>1, <4>2, <4>3, <4>4, <4>5, <4>6, <1>y, PlacesAre DEF SameWork
    <3>3. CASE y.left = {k}
      <4>1. /\ x.left = {} /\ x.pc = AfterWriting(y) /\ x.kind = y.kind /\ x.patch = y.patch
            /\ x.groups = y.groups
        BY <2>2, <3>3 DEF SameWork
      <4>2. \/ Saves(y) /\ y.groups = {"ai"} /\ x.pc = "refreshing"
            \/ Saves(y) /\ "uploads" \in y.groups /\ x.pc = "reloading"
            \/ Seeds(y) /\ Boots(y) /\ x.pc = "starting"
        BY <4>1, <1>2, <1>4, <1>y, <3>3, FollowsWrite
      <4>3. Saves(y) /\ x.pc \in {"refreshing", "reloading"} => Saves(x)
        BY <4>1, <4>2 DEF Saves, Boots, Seeds
      <4>4. Seeds(y) /\ x.pc = "starting" /\ Boots(y) => Boots(x)
        BY <4>1 DEF Boots, Seeds
      <4> QED
        <5>1. Saves(x) \/ Boots(x)
          BY <4>2, <4>3, <4>4
        <5>2. x.at \in Instances
          BY <2>2, <3>1 DEF SameWork
        <5> QED
          BY <5>1, <5>2
    <3> QED
      BY <3>2, <3>3
  <2>6. Boots(x) => x.read \in Parts("uploads")
    <3>1. Saves(y) \/ SavesApp(y) \/ Notices(y) \/ Boots(y)
      BY <1>2, <1>y, PlacesAre
    <3>2. Boots(x) => y.groups = BootGroups
      BY <2>2 DEF Boots, SameWork
    <3>3. ~(Saves(y) \/ SavesApp(y) \/ Notices(y)) \/ y.groups # BootGroups
      BY DEF Saves, SavesApp, Notices, BootGroups
    <3>4. Boots(y) => y.read \in Parts("uploads")
      BY <1>2, <1>y DEF Fits, Early
    <3> QED
      BY <2>2, <3>1, <3>2, <3>3, <3>4
  <2>7. x.left \subseteq DOMAIN x.patch
    BY <2>2, <1>y DEF Fits, SameWork
  <2>8. Fits(x)
    BY <2>2, <2>3, <2>5, <2>6, <2>7 DEF Fits
  <2>9. y.left # {k} => x.pc = "writing"
    BY <2>2
  <2>10. y.left = {k} =>
            \/ Saves(y) /\ y.groups = {"ai"} /\ x.pc = "refreshing"
            \/ Saves(y) /\ "uploads" \in y.groups /\ x.pc = "reloading"
            \/ Seeds(y) /\ x.pc = "starting"
    BY <2>2, <1>2, <1>4, <1>y, FollowsWrite
  <2> HIDE DEF x
  <2>11. Turns(r, x)
    BY <2>1, <2>4, <2>8 DEF Turns
  <2>12. Wrote(r, k, x)
    BY <1>1, <1>2, <1>y, <2>2, <2>9, <2>10, <2>11 DEF Wrote
  <2> QED
    BY <2>12
<1> QED
  BY <1>3, <1>4

-----------------------------------------------------------------------------
LEMMA Goes ==
    ASSUME TypeInv, NEW r \in Requests, NEW pc \in Pcs, Go(r, pc)
    PROVE  LET x == [req[r] EXCEPT !.pc = pc] IN
           /\ x \in RequestType /\ Fits(x) => Turns(r, x)
           /\ SameWork(x, req[r]) /\ x.left = req[r].left /\ x.read = req[r].read
           /\ x.backend = req[r].backend /\ x.pc = pc
           /\ req'[r] = x
<1>1. req[r] \in RequestType
  BY RequestIs
<1>2. [req[r] EXCEPT !.pc = pc] \in RequestType
  BY <1>1 DEF RequestType
<1> QED
  BY <1>1, <1>2 DEF Go, Turns, TypeInv, SameWork, RequestType

\* A boot goes on.
LEMMA BootGoes ==
    ASSUME TypeInv, NEW r \in Requests, NEW pc \in {"seeding", "starting", "refreshing"},
           Go(r, pc), Boots(req[r]), req[r].pc \in Early,
           pc = "seeding" => req[r].kind = "boot"
    PROVE  \E x : /\ Turns(r, x) /\ Boots(x) /\ x.pc = pc /\ SameWork(x, req[r])
                  /\ x.read = req[r].read
<1> DEFINE y == req[r]
           x == [y EXCEPT !.pc = pc]
<1>1. y \in RequestType /\ Fits(y)
  BY RequestIs
<1>2. /\ SameWork(x, y) /\ x.left = y.left /\ x.read = y.read /\ x.pc = pc
      /\ x \in RequestType /\ Fits(x) => Turns(r, x)
  BY Goes DEF Pcs
<1>3. x \in RequestType
  BY <1>1 DEF RequestType, Pcs
<1>4. y.at \in Instances /\ y.read \in Parts("uploads")
  BY <1>1, PlacesAre DEF Fits, Early, Rest
<1>5. x.kind = y.kind /\ x.patch = y.patch /\ x.groups = y.groups /\ x.at = y.at
  BY <1>2 DEF SameWork
<1> HIDE DEF x, y
<1>6. NoWrite(y) => NoWrite(x)
  BY <1>2, <1>5 DEF NoWrite
<1>7. Seeds(y) => Seeds(x)
  BY <1>5 DEF Seeds
<1>8. Boots(x)
  BY <1>2, <1>5, <1>6, <1>7 DEF Boots, y
<1>9. Fits(x)
  BY <1>1, <1>2, <1>4, <1>5, <1>8 DEF Fits
<1> QED
  BY <1>2, <1>3, <1>8, <1>9 DEF y

\* A write fails: the request ends, or the boot goes on.
LEMMA WriteFails ==
    ASSUME TypeInv, NEW r \in Requests, FailWrite(r)
    PROVE  \E x : /\ Turns(r, x)
                  /\ \/ Rests(x) /\ x.pc = "done"
                     \/ /\ Boots(req[r]) /\ Boots(x) /\ SameWork(x, req[r])
                        /\ x.read = req[r].read
                        /\ Seeds(req[r]) /\ x.pc = "starting"
<1>y. PICK y \in RequestType : y = req[r] /\ Fits(y)
  BY RequestIs
<1>1. y.pc = "writing"
  BY <1>y DEF FailWrite
<1>2. IF y.kind = "seed" THEN Go(r, "starting") ELSE End(r, "done")
  BY <1>y DEF FailWrite
<1>3. CASE Seeds(y)
  <2>1. Boots(y) /\ y.kind = "seed"
    BY <1>3, <1>y, PlacesAre DEF Seeds
  <2> QED
    BY <1>1, <1>2, <1>3, <1>y, <2>1, BootGoes DEF Early
<1>4. CASE ~Seeds(y)
  <2>1. Saves(y) \/ SavesApp(y) \/ Notices(y)
    BY <1>1, <1>4, <1>y, PlacesAre
  <2>2. y.kind # "seed"
    BY <2>1 DEF Saves, SavesApp, Notices, Kinds
  <2> QED
    BY <1>2, <2>2, Ends DEF Rest
<1> QED
  BY <1>3, <1>4

LEMMA Exchanges ==
    ASSUME TypeInv, NEW r \in Requests, ExchangeCode(r)
    PROVE  /\ Connects(req[r])
           /\ \E x : /\ Turns(r, x)
                     /\ \/ Rests(x) /\ x.pc = "done"
                        \/ /\ Saves(x) /\ x.pc = "writing" /\ x.at = req[r].at
                           /\ x.groups = {"slack"} /\ x.patch = Connection(r)
                           /\ x.left = DOMAIN x.patch /\ DOMAIN x.patch = SlackFields \ {App}
<1>y. PICK y \in RequestType : y = req[r] /\ Fits(y)
  BY RequestIs
<1>0. Connects(y) /\ y.at \in Instances /\ y.pc = "exchanging"
  BY <1>y, PlacesAre DEF ExchangeCode, Rest
<1>1. CASE End(r, "done")
  BY <1>0, <1>1, <1>y, Ends DEF Rest
<1>2. CASE req' = [req EXCEPT ![r].pc = "writing", ![r].patch = Connection(r),
                              ![r].left = DOMAIN Connection(r)]
  <2> DEFINE p == Connection(r)
             x == [y EXCEPT !.pc = "writing", !.patch = p, !.left = DOMAIN p]
  <2>1. p \in PatchType /\ DOMAIN p = SlackFields \ {App}
    <3>1. SlackFields \ {App} \subseteq Fields /\ r \in Values /\ "none" \in Values
      BY SlackPatch, StringsAre
    <3>2. p \in [SlackFields \ {App} -> Values]
      BY <3>1 DEF Connection, App
    <3> QED
      BY <3>1, <3>2 DEF PatchType
  <2>2. Groups(p) = {"slack"}
    <3>1. Error \in DOMAIN p
      BY <2>1, SlackPatch DEF Error, App
    <3> QED
      BY <2>1, <3>1, SlackPatch DEF Groups
  <2> HIDE DEF p
  <2>3. req' = [req EXCEPT ![r] = x]
    BY <1>2, <1>y DEF TypeInv, p
  <2>4. /\ x.pc = "writing" /\ x.patch = p /\ x.left = DOMAIN p /\ x.kind = y.kind
        /\ x.groups = y.groups /\ x.at = y.at
    BY DEF RequestType
  <2>5. x \in RequestType
    BY <2>1, PatchIs DEF RequestType, Pcs
  <2> HIDE DEF x
  <2>6. Saves(x) /\ ~Boots(x)
    BY <1>0, <2>2, <2>4 DEF Saves, Connects, Boots, BootGroups
  <2>7. Fits(x)
    BY <1>0, <2>4, <2>6 DEF Fits
  <2>8. Turns(r, x)
    BY <2>3, <2>5, <2>7 DEF Turns
  <2> QED
    BY <1>0, <1>y, <2>1, <2>4, <2>6, <2>8 DEF p, Connects
<1> QED
  BY <1>1, <1>2 DEF ExchangeCode

LEMMA Posts ==
    ASSUME TypeInv, NEW r \in Requests, PostMessage(r)
    PROVE  /\ Notices(req[r]) /\ req[r].pc = "posting"
           /\ \E x : /\ Turns(r, x)
                     /\ \/ Rests(x) /\ x.pc = "done"
                        \/ /\ Notices(x) /\ x.pc = "writing" /\ SameWork(x, req[r])
                           /\ x.left = req[r].left
<1>y. PICK y \in RequestType : y = req[r] /\ Fits(y)
  BY RequestIs
<1>0. Notices(y) /\ y.at \in Instances /\ y.pc = "posting"
  BY <1>y, PlacesAre DEF PostMessage, Rest
<1>1. CASE End(r, "done")
  BY <1>0, <1>1, <1>y, Ends DEF Rest
<1>2. CASE Go(r, "writing")
  <2> DEFINE x == [y EXCEPT !.pc = "writing"]
  <2>1. /\ SameWork(x, y) /\ x.left = y.left /\ x.pc = "writing"
        /\ x \in RequestType /\ Fits(x) => Turns(r, x)
    BY <1>2, <1>y, Goes DEF Pcs
  <2>2. x \in RequestType
    BY DEF RequestType, Pcs
  <2> HIDE DEF x
  <2>3. /\ x.kind = y.kind /\ x.at = y.at /\ x.groups = y.groups /\ x.patch = y.patch
    BY <2>1 DEF SameWork
  <2>4. Notices(x) /\ ~Boots(x)
    BY <1>0, <2>1, <2>3 DEF Notices, Boots, BootGroups
  <2>5. Fits(x)
    BY <1>0, <1>y, <2>1, <2>3, <2>4 DEF Fits
  <2> QED
    BY <1>0, <1>y, <2>1, <2>2, <2>4, <2>5
<1> QED
  BY <1>1, <1>2 DEF PostMessage

-----------------------------------------------------------------------------
\* The snapshot's renewal: a read and a swap.
LEMMA Refreshes ==
    ASSUME TypeInv, NEW r \in Requests, Refresh(r)
    PROVE  \E x : /\ Turns(r, x) /\ SameWork(x, req[r]) /\ x.pc = "swapping"
                  /\ Boots(req[r]) => Boots(x)
                  /\ Saves(req[r]) => Saves(x)
                  /\ x.left = req[r].left
                  /\ x.read \in Parts("ai")
                  /\ \/ x.read = Part(doc, "ai") /\ UNCHANGED crossed
                     \/ crossed' = crossed \cup {r}
<1>y. PICK y \in RequestType : y = req[r] /\ Fits(y)
  BY RequestIs
<1>0. /\ y.pc = "refreshing" /\ y.at \in Instances
      /\ Boots(y) \/ (Saves(y) /\ y.groups = {"ai"})
  BY <1>y, PlacesAre DEF Refresh, Rest
<1>1. PICK u \in {Part(doc, "ai"), Part(Zero, "ai")} :
         /\ req' = [req EXCEPT ![r].pc = "swapping", ![r].read = u]
         /\ (u = Part(doc, "ai") /\ UNCHANGED crossed) \/ crossed' = crossed \cup {r}
  BY DEF Refresh
<1>2. u \in Parts("ai")
  BY PartTyped, ZeroTyped DEF TypeInv, StoreTyped
<1> DEFINE x == [y EXCEPT !.pc = "swapping", !.read = u]
<1>3. req' = [req EXCEPT ![r] = x]
  BY <1>1, <1>y DEF TypeInv
<1>4. /\ x.pc = "swapping" /\ x.read = u /\ x.left = y.left /\ x.kind = y.kind
      /\ x.at = y.at /\ x.groups = y.groups /\ x.patch = y.patch
  BY DEF RequestType
<1>5. x \in RequestType
  BY <1>2 DEF RequestType, Pcs, Reads
<1> HIDE DEF x
<1>6. Boots(y) => Boots(x)
  BY <1>4 DEF Boots, NoWrite, Seeds
<1>7. Saves(y) => Saves(x)
  BY <1>0, <1>4 DEF Saves, Boots, BootGroups
<1>8. Fits(x)
  BY <1>0, <1>2, <1>4, <1>6, <1>7, <1>y DEF Fits, Early
<1>9. Turns(r, x) /\ SameWork(x, y)
  BY <1>3, <1>4, <1>5, <1>8 DEF Turns, SameWork
<1> QED
  BY <1>1, <1>2, <1>4, <1>6, <1>7, <1>9, <1>y

LEMMA Swaps ==
    ASSUME TypeInv, NEW r \in Requests, Swap(r)
    PROVE  /\ req[r].at \in Instances /\ req[r].read \in Parts("ai")
           /\ Boots(req[r]) \/ (Saves(req[r]) /\ req[r].groups = {"ai"})
           /\ \E x : Turns(r, x) /\ Rests(x) /\ x.pc = "done"
<1>1. req[r].pc = "swapping" /\ End(r, "done")
  BY DEF Swap
<1>2. PICK y \in RequestType : y = req[r] /\ Fits(y)
  BY RequestIs
<1>3. /\ y.at \in Instances /\ (Boots(y) \/ (Saves(y) /\ y.groups = {"ai"}))
      /\ y.read \in Parts("ai")
  BY <1>1, <1>2, PlacesAre DEF Fits, Rest
<1> QED
  BY <1>1, <1>2, <1>3, Ends DEF Rest

LEMMA ReadsUploads ==
    ASSUME TypeInv, NEW r \in Requests, ReadUploads(r)
    PROVE  /\ Saves(req[r]) /\ "uploads" \in req[r].groups /\ req[r].at \in Instances
           /\ \/ \E x : /\ Turns(r, x) /\ SameWork(x, req[r]) /\ x.pc = "building"
                        /\ Saves(x) /\ x.read = Part(doc, "uploads") /\ x.left = req[r].left
                        /\ UNCHANGED behind
              \/ /\ \E x : Turns(r, x) /\ Rests(x) /\ x.pc = "done"
                 /\ behind' = behind \cup {<<req[r].at, "uploads">>}
<1>y. PICK y \in RequestType : y = req[r] /\ Fits(y)
  BY RequestIs
<1>0. /\ y.pc = "reloading" /\ y.at \in Instances /\ Saves(y) /\ "uploads" \in y.groups
      /\ y.left = {}
  BY <1>y, PlacesAre DEF ReadUploads, Saves, Rest
<1>1. CASE End(r, "done") /\ behind' = Renewed(r, "uploads", FALSE)
  BY <1>0, <1>1, <1>y, Ends DEF Renewed, Rest
<1>2. CASE /\ req' = [req EXCEPT ![r].pc = "building", ![r].read = Part(doc, "uploads")]
           /\ UNCHANGED behind
  <2> DEFINE u == Part(doc, "uploads")
             x == [y EXCEPT !.pc = "building", !.read = u]
  <2>1. u \in Parts("uploads")
    BY PartTyped DEF TypeInv, StoreTyped
  <2>2. req' = [req EXCEPT ![r] = x]
    BY <1>2, <1>y DEF TypeInv
  <2>3. /\ x.pc = "building" /\ x.read = u /\ x.left = y.left /\ x.kind = y.kind
        /\ x.at = y.at /\ x.groups = y.groups /\ x.patch = y.patch
    BY DEF RequestType
  <2>4. x \in RequestType
    BY <2>1 DEF RequestType, Pcs, Reads
  <2> HIDE DEF x
  <2>5. Saves(x)
    BY <1>0, <2>3 DEF Saves
  <2>6. Fits(x)
    BY <1>0, <2>1, <2>3, <2>5, <1>y DEF Fits, Boots, Early
  <2> QED
    BY <1>0, <1>2, <1>y, <2>2, <2>3, <2>4, <2>5, <2>6 DEF Turns, SameWork
<1> QED
  BY <1>1, <1>2 DEF ReadUploads

LEMMA ReloadedTyped ==
    ASSUME NEW h \in HolderType, NEW u \in Parts("uploads"), NEW built \in BOOLEAN
    PROVE  Reloaded(h, u, built) \in HolderType
<1>1. u[<<"uploads", "enabled">>] \in Values
  BY FieldsAre DEF Parts
<1> QED
  BY <1>1, BackendTyped DEF Reloaded, HolderType

\* The holder is renewed: a boot goes on to its worker.
LEMMA Reloads ==
    ASSUME TypeInv, NEW r \in Requests, Reload(r)
    PROVE  /\ req[r].at \in Instances /\ req[r].read \in Parts("uploads")
           /\ \/ /\ req[r].pc = "building" /\ Saves(req[r]) /\ "uploads" \in req[r].groups
                 /\ \E x : Turns(r, x) /\ Rests(x) /\ x.pc = "done"
              \/ /\ req[r].pc = "starting" /\ Boots(req[r])
                 /\ \E x : Turns(r, x) /\ Boots(x) /\ x.pc = "refreshing" /\ SameWork(x, req[r])
           /\ holder' \in [Instances -> HolderType]
<1>y. PICK y \in RequestType : y = req[r] /\ Fits(y)
  BY RequestIs
<1>0. y.pc \in {"building", "starting"} /\ y.at \in Instances
  BY <1>y, PlacesAre DEF Reload, Rest
<1>1. /\ y.pc = "building" => Saves(y) /\ "uploads" \in y.groups
      /\ y.pc = "starting" => Boots(y)
      /\ y.read \in Parts("uploads")
  BY <1>0, <1>y, PlacesAre DEF Fits, Early
<1>2. PICK built \in BOOLEAN : holder' = [holder EXCEPT ![y.at] = Reloaded(@, y.read, built)]
  BY <1>y DEF Reload
<1>3. holder' \in [Instances -> HolderType]
  BY <1>0, <1>1, <1>2, ReloadedTyped DEF TypeInv, StoreTyped
<1>4. CASE y.pc = "building"
  BY <1>0, <1>1, <1>3, <1>4, <1>y, Ends DEF Reload, Rest
<1>5. CASE y.pc = "starting"
  <2>1. Go(r, "refreshing")
    BY <1>5, <1>y DEF Reload
  <2> QED
    BY <1>0, <1>1, <1>3, <1>5, <1>y, <2>1, BootGoes DEF Early
<1> QED
  BY <1>0, <1>4, <1>5

\* What a beginning boot is.
Booting(i, kind, pc, u) ==
    [Fresh(pc) EXCEPT !.kind = kind, !.at = i, !.groups = BootGroups, !.read = u]

LEMMA BootIs ==
    ASSUME NEW i \in Instances, NEW kind \in {"boot", "blind"},
           NEW pc \in {"migrating", "starting"}, NEW u \in Parts("uploads"),
           (kind = "boot" /\ pc = "migrating") \/ (kind = "blind" /\ pc = "starting")
    PROVE  LET x == Booting(i, kind, pc, u) IN
           /\ x \in RequestType /\ Fits(x) /\ Boots(x) /\ x.at = i /\ x.groups = BootGroups
           /\ x.read = u /\ x.kind = kind /\ x.pc = pc /\ x.patch = << >>
<1> DEFINE x == Booting(i, kind, pc, u)
<1>1. /\ x.pc = pc /\ x.kind = kind /\ x.at = i /\ x.groups = BootGroups /\ x.read = u
      /\ x.patch = << >> /\ x.left = {} /\ x.backend = "none"
  BY DEF Fresh, Booting
<1>2. BootGroups \subseteq AllGroups
  BY DEF BootGroups, AllGroups, Switches
<1>3. x \in RequestType
  BY <1>2, StringsAre, NoPatch DEF Booting, Fresh, RequestType, Pcs, Kinds, Reads
<1> HIDE DEF x
<1>4. Boots(x)
  BY <1>1 DEF Boots, NoWrite
<1>5. Fits(x)
  BY <1>1, <1>4 DEF Fits
<1> QED
  BY <1>1, <1>3, <1>4, <1>5 DEF x

LEMMA BootBegins ==
    ASSUME TypeInv, NEW r \in Requests, Boot(r)
    PROVE  \E x : /\ Turns(r, x) /\ Boots(x) /\ req[r].pc = "new"
                  /\ x.at \in Instances \ up
                  /\ \A q \in Requests : req[q].at # x.at
                  /\ crossed' = crossed \cup CrossedBy(r, x.groups) /\ crossed' \subseteq Requests
                  /\ x.patch = << >>
                  /\ \/ x.pc = "migrating" /\ x.read = Part(doc, "uploads")
                     \/ x.pc = "starting" /\ x.kind = "blind"
<1>1. PICK i \in Instances \ up :
         /\ \A q \in Requests : req[q].at # i
         /\ req[r].pc = "new"
         /\ crossed' = crossed \cup CrossedBy(r, BootGroups)
         /\ \/ req' = [req EXCEPT ![r] = Booting(i, "boot", "migrating", Part(doc, "uploads"))]
            \/ req' = [req EXCEPT ![r] = Booting(i, "blind", "starting", Part(Zero, "uploads"))]
  BY DEF Boot, BootGroups, Booting
<1>2. Part(doc, "uploads") \in Parts("uploads") /\ Part(Zero, "uploads") \in Parts("uploads")
  BY PartTyped, ZeroTyped DEF TypeInv, StoreTyped
<1>3. crossed' \subseteq Requests
  BY <1>1 DEF CrossedBy, TypeInv, StoreTyped
<1>4. ASSUME NEW kind \in {"boot", "blind"}, NEW pc \in {"migrating", "starting"},
             NEW u \in Parts("uploads"), req' = [req EXCEPT ![r] = Booting(i, kind, pc, u)],
             \/ kind = "boot" /\ pc = "migrating" /\ u = Part(doc, "uploads")
             \/ kind = "blind" /\ pc = "starting"
      PROVE  \E x : /\ Turns(r, x) /\ Boots(x) /\ x.at = i /\ x.groups = BootGroups
                    /\ x.patch = << >>
                    /\ \/ x.pc = "migrating" /\ x.read = Part(doc, "uploads")
                       \/ x.pc = "starting" /\ x.kind = "blind"
  <2>1. PICK x : x = Booting(i, kind, pc, u)
    OBVIOUS
  <2>2. /\ x \in RequestType /\ Fits(x) /\ Boots(x) /\ x.at = i /\ x.groups = BootGroups
        /\ x.read = u /\ x.kind = kind /\ x.pc = pc /\ x.patch = << >>
    BY <1>4, <2>1, BootIs
  <2>3. Turns(r, x)
    BY <1>4, <2>1, <2>2 DEF Turns
  <2> QED
    BY <1>4, <2>2, <2>3
<1>5. PICK u \in Parts("uploads") : u = Part(doc, "uploads")
  BY <1>2
<1>6. PICK z \in Parts("uploads") : z = Part(Zero, "uploads")
  BY <1>2
<1>7. \/ req' = [req EXCEPT ![r] = Booting(i, "boot", "migrating", u)]
      \/ req' = [req EXCEPT ![r] = Booting(i, "blind", "starting", z)]
  BY <1>1, <1>5, <1>6
<1>8. PICK x : /\ Turns(r, x) /\ Boots(x) /\ x.at = i /\ x.groups = BootGroups
               /\ x.patch = << >>
               /\ \/ x.pc = "migrating" /\ x.read = Part(doc, "uploads")
                  \/ x.pc = "starting" /\ x.kind = "blind"
  BY <1>4, <1>5, <1>7
<1> QED
  BY <1>1, <1>3, <1>8

-----------------------------------------------------------------------------
LEMMA Migrates ==
    ASSUME TypeInv, NEW r \in Requests, Migrate(r)
    PROVE  /\ Boots(req[r]) /\ req[r].pc = "migrating"
           /\ \E x : /\ Turns(r, x) /\ Boots(x) /\ x.pc = "seeding" /\ SameWork(x, req[r])
                     /\ x.read = req[r].read
<1>y. PICK y \in RequestType : y = req[r] /\ Fits(y)
  BY RequestIs
<1>1. Boots(y) /\ y.pc = "migrating"
  BY <1>y, PlacesAre DEF Migrate
<1>2. y.kind = "boot" /\ Go(r, "seeding")
  BY <1>1 DEF Boots, Migrate
<1> QED
  BY <1>1, <1>2, <1>y, BootGoes DEF Early

\* What a boot becomes that is about to write the templates.
Seeding(y) == [y EXCEPT !.kind = "seed", !.pc = "writing", !.left = {ByLang},
                        !.patch = [k \in {ByLang} |-> "defaults"]]

LEMMA SeedingIs ==
    ASSUME NEW y \in RequestType, Fits(y), Boots(y), y.pc = "seeding"
    PROVE  LET x == Seeding(y) IN
           /\ x \in RequestType /\ Fits(x) /\ Boots(x) /\ Seeds(x) /\ x.pc = "writing"
           /\ x.at = y.at /\ x.groups = y.groups /\ x.read = y.read /\ x.left = {ByLang}
<1>0. y.at \in Instances /\ y.read \in Parts("uploads")
  BY PlacesAre DEF Fits, Early, Rest
<1> DEFINE p == [k \in {ByLang} |-> "defaults"]
           x == Seeding(y)
<1>1. p \in PatchType /\ DOMAIN p = {ByLang}
  <2>1. "defaults" \in Values /\ {ByLang} \in SUBSET Fields
    BY FieldsAre, StringsAre
  <2> QED
    BY <2>1, PatchOf
<1>2. /\ x.pc = "writing" /\ x.kind = "seed" /\ x.left = {ByLang} /\ x.patch = p
      /\ x.at = y.at /\ x.groups = y.groups /\ x.read = y.read
  BY DEF Seeding, RequestType
<1>3. x \in RequestType
  BY <1>1, FieldsAre DEF Seeding, RequestType, Pcs, Kinds
<1> HIDE DEF x
<1>4. Seeds(x)
  BY <1>2 DEF Seeds
<1>5. Boots(x)
  BY <1>2, <1>4 DEF Boots
<1>6. Fits(x)
  BY <1>0, <1>1, <1>2, <1>5 DEF Fits
<1> QED
  BY <1>2, <1>3, <1>4, <1>5, <1>6 DEF x

LEMMA SeedsOnce ==
    ASSUME TypeInv, NEW r \in Requests, Seed(r)
    PROVE  /\ Boots(req[r]) /\ req[r].pc = "seeding"
           /\ \E x : /\ Turns(r, x) /\ Boots(x)
                     /\ x.at = req[r].at /\ x.groups = req[r].groups /\ x.read = req[r].read
                     /\ \/ Seeds(x) /\ x.pc = "writing" /\ x.left = {ByLang}
                        \/ x.pc = "starting" /\ SameWork(x, req[r])
<1>y. PICK y \in RequestType : y = req[r] /\ Fits(y)
  BY RequestIs
<1>0. Boots(y) /\ y.pc = "seeding"
  BY <1>y, PlacesAre DEF Seed
<1>1. CASE Go(r, "starting")
  <2>1. PICK x : /\ Turns(r, x) /\ Boots(x) /\ x.pc = "starting" /\ SameWork(x, y)
                 /\ x.read = y.read
    BY <1>0, <1>1, <1>y, BootGoes DEF Early
  <2> QED
    BY <1>0, <1>y, <2>1 DEF SameWork
<1>2. CASE req' = [req EXCEPT ![r] = Seeding(y)]
  <2> DEFINE x == Seeding(y)
  <2> HIDE DEF x
  <2>1. /\ x \in RequestType /\ Fits(x) /\ Boots(x) /\ Seeds(x) /\ x.pc = "writing"
        /\ x.at = y.at /\ x.groups = y.groups /\ x.read = y.read /\ x.left = {ByLang}
    BY <1>0, <1>y, SeedingIs DEF x
  <2>2. Turns(r, x)
    BY <1>2, <2>1 DEF Turns, x
  <2> QED
    BY <1>0, <1>y, <2>1, <2>2
<1>3. \/ Go(r, "starting")
      \/ req' = [req EXCEPT ![r].kind = "seed", ![r].pc = "writing", ![r].left = {ByLang},
                            ![r].patch = [k \in {ByLang} |-> "defaults"]]
  BY DEF Seed, ByLang
<1> QED
  BY <1>1, <1>2, <1>3, <1>y DEF TypeInv, Seeding

\* An upload.
LEMMA Puts ==
    ASSUME TypeInv, NEW r \in Requests, PutFile(r)
    PROVE  /\ Uploads(req[r]) /\ req[r].pc = "putting"
           /\ \E x : /\ Turns(r, x)
                     /\ \/ /\ Uploads(x) /\ x.pc = "inserting" /\ x.backend \in Values
                           /\ x.at = req[r].at
                           /\ blobs' = blobs \cup {<<x.backend, r>>}
                           /\ UNCHANGED stray
                        \/ Rests(x) /\ x.pc = "done" /\ UNCHANGED <<blobs, stray>>
                        \/ /\ Rests(x) /\ x.pc = "done" /\ stray' = stray \cup {r}
                           /\ \E b \in Values : blobs' = blobs \cup {<<b, r>>}
<1>y. PICK y \in RequestType : y = req[r] /\ Fits(y)
  BY RequestIs
<1>0. Uploads(y) /\ y.pc = "putting" /\ y.at \in Instances
  BY <1>y, PlacesAre DEF PutFile, Rest
<1>1. CASE End(r, "done") /\ UNCHANGED <<blobs, stray>>
  BY <1>0, <1>1, <1>y, Ends DEF Rest
<1> DEFINE b == holder[y.at].backend
<1>b. b \in Values
  BY <1>0 DEF TypeInv, StoreTyped, HolderType
<1>3. CASE End(r, "done") /\ PutBlob(b, r) /\ stray' = stray \cup {r}
  <2>1. PICK x : Turns(r, x) /\ Rests(x) /\ x.pc = "done"
    BY <1>3, Ends DEF Rest
  <2> QED
    BY <1>0, <1>3, <1>b, <1>y, <2>1 DEF PutBlob
<1>2. CASE /\ PutBlob(b, r) /\ UNCHANGED stray
           /\ req' = [req EXCEPT ![r].pc = "inserting", ![r].backend = b]
  <2>1. b \in Values
    BY <1>b
  <2> DEFINE x == [y EXCEPT !.pc = "inserting", !.backend = b]
  <2>2. req' = [req EXCEPT ![r] = x]
    BY <1>2, <1>y DEF TypeInv
  <2>3. /\ x.pc = "inserting" /\ x.backend = b /\ x.left = y.left /\ x.kind = y.kind
        /\ x.at = y.at /\ x.groups = y.groups /\ x.patch = y.patch /\ x.read = y.read
    BY DEF RequestType
  <2>4. x \in RequestType
    BY <2>1 DEF RequestType, Pcs
  <2> HIDE DEF x, b
  <2>5. Uploads(x) /\ ~Boots(x)
    BY <1>0, <2>3 DEF Uploads, Boots, BootGroups
  <2>6. Fits(x)
    BY <1>0, <2>3, <2>5, <1>y DEF Fits
  <2> QED
    BY <1>0, <1>2, <1>y, <2>1, <2>2, <2>3, <2>4, <2>5, <2>6 DEF Turns, PutBlob
<1> QED
  BY <1>1, <1>2, <1>3, <1>y DEF PutFile

LEMMA Inserts ==
    ASSUME TypeInv, NEW r \in Requests, InsertFile(r)
    PROVE  /\ Uploads(req[r]) /\ req[r].pc = "inserting"
           /\ \E x : /\ Turns(r, x) /\ x.backend = req[r].backend
                     /\ \/ /\ Rests(x) /\ x.pc = "created"
                           /\ files' = files \cup {r} /\ UNCHANGED stray
                        \/ /\ Uploads(x) /\ x.pc = "undoing" /\ x.at = req[r].at
                           /\ \/ UNCHANGED <<files, stray>>
                              \/ files' = files \cup {r} /\ stray' = stray \cup {r}
<1>y. PICK y \in RequestType : y = req[r] /\ Fits(y)
  BY RequestIs
<1>0. Uploads(y) /\ y.pc = "inserting" /\ y.at \in Instances
  BY <1>y, PlacesAre DEF InsertFile, Rest
<1>1. CASE End(r, "created") /\ files' = files \cup {r} /\ UNCHANGED stray
  BY <1>0, <1>1, <1>y, Ends DEF Rest
<1>2. CASE /\ Go(r, "undoing")
           /\ \/ UNCHANGED <<files, stray>>
              \/ files' = files \cup {r} /\ stray' = stray \cup {r}
  <2> DEFINE x == [y EXCEPT !.pc = "undoing"]
  <2>1. /\ SameWork(x, y) /\ x.left = y.left /\ x.pc = "undoing" /\ x.backend = y.backend
        /\ x \in RequestType /\ Fits(x) => Turns(r, x)
    BY <1>2, <1>y, Goes DEF Pcs
  <2>2. x \in RequestType
    BY DEF RequestType, Pcs
  <2> HIDE DEF x
  <2>3. /\ x.kind = y.kind /\ x.at = y.at /\ x.groups = y.groups /\ x.patch = y.patch
    BY <2>1 DEF SameWork
  <2>4. Uploads(x) /\ ~Boots(x)
    BY <1>0, <2>1, <2>3 DEF Uploads, Boots, BootGroups
  <2>5. Fits(x)
    BY <1>0, <1>y, <2>1, <2>3, <2>4 DEF Fits
  <2> QED
    BY <1>0, <1>2, <1>y, <2>1, <2>2, <2>3, <2>4, <2>5
<1> QED
  BY <1>1, <1>2 DEF InsertFile

LEMMA Undoes ==
    ASSUME TypeInv, NEW r \in Requests, DeleteFile(r)
    PROVE  /\ Uploads(req[r]) /\ req[r].pc = "undoing"
           /\ \E x : Turns(r, x) /\ Rests(x) /\ x.pc = "done" /\ x.backend = req[r].backend
<1>1. req[r].pc = "undoing" /\ End(r, "done")
  BY DEF DeleteFile
<1> QED
  BY <1>1, PlacesAre, RequestIs, Ends DEF Rest

LEMMA Dies ==
    ASSUME TypeInv, NEW i \in Instances, Crash(i)
    PROVE  /\ req' \in [Requests -> RequestType]
           /\ \A r \in Requests :
                 /\ Fits(req'[r])
                 /\ req[r].at = i => /\ Rests(req'[r]) /\ req'[r].pc = "dead"
                 /\ req[r].at # i => req'[r] = req[r]
<1>1. [Fresh("dead") EXCEPT !.backend = "none"] = Fresh("dead")
  BY DEF Fresh
<1>2. /\ Fresh("dead") \in RequestType /\ Fits(Fresh("dead")) /\ Rests(Fresh("dead"))
      /\ Fresh("dead").pc = "dead"
  BY <1>1, FreshTyped, StringsAre DEF Rest, Fresh
<1>3. req' = [r \in Requests |-> IF req[r].at = i THEN Fresh("dead") ELSE req[r]]
  BY DEF Crash
<1> QED
  BY <1>2, <1>3 DEF TypeInv

-----------------------------------------------------------------------------
LEMMA WrittenTyped ==
    ASSUME TypeInv, NEW r \in Requests
    PROVE  Written(r) \subseteq AllGroups
<1>1. req[r].groups \subseteq AllGroups /\ torn \subseteq AllGroups
  BY RequestIs DEF RequestType, TypeInv, StoreTyped
<1> QED
  BY <1>1 DEF Written

LEMMA ElsewhereTyped ==
    ASSUME NEW i, NEW g PROVE Elsewhere(i, g) \subseteq Instances \X {"ai", "uploads"}
BY DEF Elsewhere

LEMMA RenewedTyped ==
    ASSUME TypeInv, NEW r \in Requests, NEW g \in {"ai", "uploads"}, NEW peace \in BOOLEAN,
           req[r].at \in Instances
    PROVE  Renewed(r, g, peace) \subseteq Instances \X {"ai", "uploads"}
BY DEF Renewed, TypeInv, StoreTyped

LEMMA FaultTyped == ASSUME Fault, TypeInv PROVE faults' \in 0..MaxFaults
BY ConstantsAssumption DEF Fault, TypeInv, StoreTyped, ConstantsAssumption

LEMMA WriteTyped ==
    ASSUME TypeInv, NEW r \in Requests, NEW k \in req[r].left
    PROVE  /\ k \in DOMAIN req[r].patch /\ k \in Fields /\ req[r].patch[k] \in Values
           /\ k[1] \in Groups(req[r].patch)
           /\ [doc EXCEPT ![k] = req[r].patch[k]] \in Document
<1>1. req[r].patch \in PatchType /\ req[r].left \subseteq DOMAIN req[r].patch
  BY RequestIs DEF Fits, RequestType
<1>2. k \in DOMAIN req[r].patch /\ k \in Fields /\ req[r].patch[k] \in Values
      /\ k[1] \in Groups(req[r].patch)
  BY <1>1, PatchIs
<1> QED
  BY <1>2, Edited DEF TypeInv, StoreTyped

\* Saves that begin.
LEMMA SaveTyped ==
    ASSUME TypeInv, NEW r \in Requests, UpdateSettings(r) \/ UpdateGitHub(r) \/ DeleteGitHub(r)
    PROVE  \E i \in Instances, p \in PatchType :
              /\ Save(r, i, p)
              /\ "ai" \in Groups(p) => Groups(p) = {"ai"}
              /\ \/ p \in Patches /\ Valid(p)
                 \/ \E v \in Values : p = [k \in GitHubFields |-> v]
<1>1. CASE UpdateSettings(r)
  BY <1>1, PatchesAre DEF UpdateSettings
<1>2. ASSUME NEW v \in Values, NEW i \in Instances, NEW p,
             p = [k \in GitHubFields |-> v], Save(r, i, p)
      PROVE  /\ p \in PatchType /\ Save(r, i, p) /\ Groups(p) = {"github"}
             /\ \E w \in Values : p = [k \in GitHubFields |-> w]
  BY <1>2, GitHubPatch
<1>3. CASE UpdateGitHub(r)
  <2>1. r \in Values
    BY StringsAre
  <2>2. PICK i, p : i \in Instances /\ p = [k \in GitHubFields |-> r] /\ Save(r, i, p)
    BY <1>3 DEF UpdateGitHub
  <2>3. /\ p \in PatchType /\ Save(r, i, p) /\ Groups(p) = {"github"}
        /\ \E w \in Values : p = [k \in GitHubFields |-> w]
    BY <1>2, <2>1, <2>2
  <2> QED
    BY <2>2, <2>3
<1>4. CASE DeleteGitHub(r)
  <2>1. "none" \in Values
    BY StringsAre
  <2>2. PICK i, p : i \in Instances /\ p = [k \in GitHubFields |-> "none"] /\ Save(r, i, p)
    BY <1>4 DEF DeleteGitHub
  <2>3. /\ p \in PatchType /\ Save(r, i, p) /\ Groups(p) = {"github"}
        /\ \E w \in Values : p = [k \in GitHubFields |-> w]
    BY <1>2, <2>1, <2>2
  <2> QED
    BY <2>2, <2>3
<1> QED
  BY <1>1, <1>3, <1>4

\* The actions of a request: those it begins with, and those of the ones at work.
Opening(r) == \/ UpdateSettings(r) \/ UpdateGitHub(r) \/ DeleteGitHub(r)
              \/ SaveSlackApp(r) \/ Callback(r) \/ DisconnectSlack(r) \/ Notify(r)
              \/ Upload(r)
Working(r) == \/ ExchangeCode(r) \/ PostMessage(r) \/ WriteField(r) \/ FailWrite(r)
              \/ Refresh(r) \/ Swap(r) \/ ReadUploads(r) \/ Reload(r)
              \/ Migrate(r) \/ Seed(r)
              \/ PutFile(r) \/ InsertFile(r) \/ DeleteFile(r)

LEMMA NextIs == Next <=> \/ \E r \in Requests : Opening(r) \/ Working(r) \/ Boot(r)
                         \/ \E i \in Instances : Crash(i)
BY DEF Next, Opening, Working

\* A request that begins is one that was new, at an instance that serves, and is not
\* a boot; the documents and the copies stay.
Starts(r, x) ==
    /\ Turns(r, x) /\ ~Rests(x) /\ ~Boots(x) /\ req[r].pc = "new" /\ x.at \in up
    /\ crossed' = crossed \cup CrossedBy(r, x.groups) /\ crossed' \subseteq Requests
    /\ x.left = DOMAIN x.patch /\ x.pc \in {"writing", "exchanging", "posting", "putting"}
    /\ UNCHANGED <<doc, up, copies, storage, torn, behind, stray>>


LEMMA OpeningStarts ==
    ASSUME TypeInv, NEW r \in Requests, Opening(r)
    PROVE  \E x : Starts(r, x)
<1>1. ASSUME NEW i \in Instances, NEW p \in PatchType, Save(r, i, p),
             "ai" \in Groups(p) => Groups(p) = {"ai"}
      PROVE  \E x : Starts(r, x)
  <2> DEFINE x == Begun(i, "save", "writing", Groups(p), p)
  <2>1. /\ Turns(r, x) /\ req[r].pc = "new" /\ i \in up
        /\ crossed' = crossed \cup CrossedBy(r, Groups(p)) /\ crossed' \subseteq Requests
        /\ Saves(x)
    BY <1>1, SaveBegins
  <2>2. /\ x.at = i /\ x.groups = Groups(p) /\ x.patch = p /\ x.left = DOMAIN p
        /\ x.pc = "writing"
    BY DEF Begun, Fresh
  <2> HIDE DEF x
  <2>3. ~Rests(x) /\ ~Boots(x)
    BY <2>1 DEF Saves, Rests, Boots, BootGroups
  <2> QED
    BY <1>1, <2>1, <2>2, <2>3 DEF Save, Starts
<1>2. ASSUME NEW i \in Instances, NEW kind, NEW pc, NEW g, NEW p \in PatchType,
             NEW x, x = Begun(i, kind, pc, g, p),
             /\ Turns(r, x) /\ req[r].pc = "new" /\ i \in up
             /\ crossed' = crossed \cup CrossedBy(r, g) /\ crossed' \subseteq Requests,
             SavesApp(x) \/ Connects(x) \/ Saves(x) \/ Notices(x) \/ Uploads(x),
             pc \in {"writing", "exchanging", "posting", "putting"},
             UNCHANGED <<doc, up, copies, storage, torn, behind, stray>>
      PROVE  Starts(r, x)
  <2>1. /\ x.at = i /\ x.groups = g /\ x.patch = p /\ x.left = DOMAIN p /\ x.pc = pc
    BY <1>2 DEF Begun, Fresh
  <2>2. ~Rests(x) /\ ~Boots(x)
    <3>1. ~Boots(x)
      BY <1>2, BootsOnly
    <3>2. x.pc \notin Rest
      BY <1>2, <2>1 DEF Rest
    <3> QED
      BY <3>1, <3>2 DEF Rests
  <2> QED
    BY <1>2, <2>1, <2>2 DEF Starts
<1>3. CASE UpdateSettings(r) \/ UpdateGitHub(r) \/ DeleteGitHub(r)
  BY <1>1, <1>3, SaveTyped
<1>4. CASE SaveSlackApp(r)
  <2>1. PICK i, p, x :
              /\ i \in Instances /\ p \in PatchType /\ x = Begun(i, "app", "writing", {}, p)
              /\ Turns(r, x) /\ SavesApp(x) /\ req[r].pc = "new" /\ i \in up
              /\ crossed' = crossed \cup CrossedBy(r, {}) /\ crossed' \subseteq Requests
    BY <1>4, AppBegins
  <2>2. Starts(r, x)
    BY <1>2, <1>4, <2>1 DEF SaveSlackApp
  <2> QED
    BY <2>2
<1>5. CASE Callback(r)
  <2>1. PICK i, p, x :
              /\ i \in Instances /\ p \in PatchType /\ x = Begun(i, "save", "exchanging", {"slack"}, p)
              /\ Turns(r, x) /\ Connects(x) /\ req[r].pc = "new" /\ i \in up
              /\ crossed' = crossed \cup CrossedBy(r, {"slack"}) /\ crossed' \subseteq Requests
    BY <1>5, CallbackBegins, NoPatch
  <2>2. Starts(r, x)
    BY <1>2, <1>5, <2>1 DEF Callback
  <2> QED
    BY <2>2
<1>6. CASE DisconnectSlack(r)
  <2>1. PICK i, p, x :
              /\ i \in Instances /\ p \in PatchType /\ x = Begun(i, "save", "writing", {"slack"}, p)
              /\ Turns(r, x) /\ Saves(x) /\ req[r].pc = "new" /\ i \in up
              /\ crossed' = crossed \cup CrossedBy(r, {"slack"}) /\ crossed' \subseteq Requests
    BY <1>6, DisconnectBegins
  <2>2. Starts(r, x)
    BY <1>2, <1>6, <2>1 DEF DisconnectSlack
  <2> QED
    BY <2>2
<1>7. CASE Notify(r)
  <2>1. PICK i, p, kind, x :
              /\ i \in Instances /\ p \in PatchType /\ x = Begun(i, kind, "posting", {"slack"}, p)
              /\ Turns(r, x) /\ Notices(x) /\ req[r].pc = "new" /\ i \in up
              /\ crossed' = crossed \cup CrossedBy(r, {"slack"}) /\ crossed' \subseteq Requests
    BY <1>7, NotifyBegins
  <2>2. Starts(r, x)
    BY <1>2, <1>7, <2>1 DEF Notify
  <2> QED
    BY <2>2
<1>8. CASE Upload(r)
  <2>1. PICK i, p, x :
              /\ i \in Instances /\ p \in PatchType /\ x = Begun(i, "upload", "putting", {}, p)
              /\ Turns(r, x) /\ Uploads(x) /\ req[r].pc = "new" /\ i \in up
              /\ crossed' = crossed \cup CrossedBy(r, {}) /\ crossed' \subseteq Requests
    BY <1>8, UploadBegins, NoPatch
  <2>2. Starts(r, x)
    BY <1>2, <1>8, <2>1 DEF Upload
  <2> QED
    BY <2>2
<1> QED
  BY <1>3, <1>4, <1>5, <1>6, <1>7, <1>8 DEF Opening

-----------------------------------------------------------------------------
\* The steps that a request takes are one another's but for what they store.
LEMMA Counts ==
    ASSUME TypeInv, Next
    PROVE  faults' \in 0..MaxFaults /\ tokens' \subseteq Values
<1>1. UNCHANGED faults \/ Fault
  <2>1. ASSUME NEW r \in Requests, Opening(r) PROVE UNCHANGED faults \/ Fault
    BY <2>1 DEF Opening, UpdateSettings, UpdateGitHub, DeleteGitHub, Save, SaveSlackApp,
                Callback, DisconnectSlack, Revoke, Notify, Upload
  <2>2. ASSUME NEW r \in Requests, Working(r) PROVE UNCHANGED faults \/ Fault
    BY <2>2 DEF Working, ExchangeCode, PostMessage, WriteField, FailWrite, Refresh, Swap,
                ReadUploads, Reload, Migrate, Seed, PutFile, InsertFile, DeleteFile
  <2>3. ASSUME NEW r \in Requests, Boot(r) PROVE UNCHANGED faults \/ Fault
    BY <2>3 DEF Boot
  <2>4. ASSUME NEW i \in Instances, Crash(i) PROVE UNCHANGED faults \/ Fault
    BY <2>4 DEF Crash
  <2> QED
    BY <2>1, <2>2, <2>3, <2>4, NextIs
<1>2. UNCHANGED tokens \/ (\E r \in Requests : tokens' = tokens \cup {r})
      \/ tokens' \subseteq tokens
  <2>1. ASSUME NEW r \in Requests, Opening(r) PROVE tokens' \subseteq tokens
    BY <2>1 DEF Opening, UpdateSettings, UpdateGitHub, DeleteGitHub, Save, SaveSlackApp,
                Callback, DisconnectSlack, Revoke, Notify, Upload
  <2>2. ASSUME NEW r \in Requests, Working(r)
        PROVE  UNCHANGED tokens \/ tokens' = tokens \cup {r}
    BY <2>2 DEF Working, ExchangeCode, PostMessage, WriteField, FailWrite, Refresh, Swap,
                ReadUploads, Reload, Migrate, Seed, Unchanged, PutFile, InsertFile,
                DeleteFile
  <2>3. ASSUME NEW r \in Requests, Boot(r) PROVE UNCHANGED tokens
    BY <2>3 DEF Boot
  <2>4. ASSUME NEW i \in Instances, Crash(i) PROVE UNCHANGED tokens
    BY <2>4 DEF Crash
  <2> QED
    BY <2>1, <2>2, <2>3, <2>4, NextIs
<1> QED
  BY <1>1, <1>2, FaultTyped, StringsAre DEF TypeInv, StoreTyped

\* What is stored but counted: the documents, the copies, the files and the ghosts.
Kept == <<doc, up, copies, storage, ghosts, stray>>
KeptTyped ==
    /\ doc \in Document /\ up \subseteq Instances
    /\ snap \in [Instances -> Parts("ai")] /\ holder \in [Instances -> HolderType]
    /\ files \subseteq Requests /\ blobs \subseteq Values \X Requests
    /\ crossed \subseteq Requests /\ torn \subseteq AllGroups
    /\ behind \subseteq Instances \X {"ai", "uploads"} /\ stray \subseteq Requests

LEMMA KeptIs == /\ TypeInv => KeptTyped
                /\ KeptTyped /\ UNCHANGED Kept => KeptTyped'
BY DEF TypeInv, StoreTyped, KeptTyped, Kept, copies, storage, ghosts

\* A boot's step of the templates.
LEMMA BootStepTyped ==
    ASSUME TypeInv, NEW r \in Requests, Migrate(r) \/ Seed(r)
    PROVE  KeptTyped' /\ \E x : Turns(r, x)
<1>1. UNCHANGED Kept
  BY DEF Migrate, Seed, Unchanged, Kept, ghosts
<1> QED
  BY <1>1, KeptIs, Migrates, SeedsOnce

\* An integration's steps.
LEMMA SlackStepTyped ==
    ASSUME TypeInv, NEW r \in Requests, ExchangeCode(r) \/ PostMessage(r)
    PROVE  KeptTyped' /\ \E x : Turns(r, x)
<1>1. UNCHANGED Kept
  BY DEF ExchangeCode, PostMessage, Kept
<1> QED
  BY <1>1, KeptIs, Exchanges, Posts

\* An upload's steps.
LEMMA UploadStepTyped ==
    ASSUME TypeInv, NEW r \in Requests, PutFile(r) \/ InsertFile(r) \/ DeleteFile(r)
    PROVE  KeptTyped' /\ \E x : Turns(r, x)
<1>1. KeptTyped
  BY KeptIs
<1>2. CASE PutFile(r)
  <2>1. UNCHANGED <<doc, up, copies, files, ghosts>> /\ stray' \subseteq stray \cup {r}
    BY <1>2 DEF PutFile
  <2> QED
    BY <1>1, <1>2, <2>1, Puts DEF KeptTyped, copies, ghosts
<1>3. CASE InsertFile(r)
  <2>1. UNCHANGED <<doc, up, copies, blobs, ghosts>>
    BY <1>3 DEF InsertFile
  <2> QED
    BY <1>1, <1>3, <2>1, Inserts DEF KeptTyped, copies, ghosts
<1>4. CASE DeleteFile(r)
  <2>1. /\ UNCHANGED <<doc, up, copies, files, ghosts>>
        /\ blobs' \subseteq blobs /\ stray' \subseteq stray \cup {r}
    BY <1>4 DEF DeleteFile, DeleteBlob
  <2> QED
    BY <1>1, <1>4, <2>1, Undoes DEF KeptTyped, copies, ghosts
<1> QED
  BY <1>2, <1>3, <1>4

\* Writes.
LEMMA WriteStepTyped ==
    ASSUME TypeInv, NEW r \in Requests, WriteField(r) \/ FailWrite(r)
    PROVE  KeptTyped' /\ \E x : Turns(r, x)
<1>1. KeptTyped
  BY KeptIs
<1>2. CASE WriteField(r)
  <2>1. UNCHANGED <<up, copies, storage, crossed, stray>>
    BY <1>2 DEF WriteField
  <2>2. PICK k, x : Wrote(r, k, x)
    BY <1>2, Writes
  <2>3. /\ doc' \in Document /\ torn' \subseteq AllGroups
        /\ behind' \subseteq Instances \X {"ai", "uploads"}
    BY <1>1, <2>2, WriteTyped, WrittenTyped, ElsewhereTyped DEF Wrote, KeptTyped
  <2> QED
    BY <1>1, <2>1, <2>2, <2>3 DEF KeptTyped, copies, storage, Wrote
<1>3. CASE FailWrite(r)
  <2>1. UNCHANGED <<up, copies, storage, crossed, stray>>
    BY <1>3 DEF FailWrite
  <2>2. PICK k \in req[r].left, kept \in BOOLEAN, half \in BOOLEAN :
          /\ doc' = IF kept THEN [doc EXCEPT ![k] = req[r].patch[k]] ELSE doc
          /\ torn' = IF half THEN torn \cup (Groups(req[r].patch) \cap req[r].groups) ELSE torn
          /\ behind' = behind \cup (IF kept THEN Elsewhere(req[r].at, k[1]) ELSE {})
                       \cup IF half THEN {req[r].at} \X (Groups(req[r].patch) \cap {"ai", "uploads"})
                            ELSE {}
    BY <1>3 DEF FailWrite
  <2>3. req[r].groups \subseteq AllGroups /\ req[r].at \in Instances
    BY <1>3, RequestIs, PlacesAre DEF RequestType, FailWrite, Rest
  <2>4. /\ doc' \in Document /\ torn' \subseteq AllGroups
        /\ behind' \subseteq Instances \X {"ai", "uploads"}
    BY <1>1, <2>2, <2>3, WriteTyped, ElsewhereTyped DEF KeptTyped
  <2> QED
    BY <1>1, <1>3, <2>1, <2>4, WriteFails DEF KeptTyped, copies, storage
<1> QED
  BY <1>2, <1>3

\* Renewals.
LEMMA RenewalTyped ==
    ASSUME TypeInv, NEW r \in Requests, Refresh(r) \/ Swap(r) \/ ReadUploads(r) \/ Reload(r)
    PROVE  KeptTyped' /\ \E x : Turns(r, x)
<1>1. KeptTyped
  BY KeptIs
<1>2. CASE Refresh(r)
  <2>1. UNCHANGED <<doc, up, copies, storage, torn, behind, stray>>
        /\ crossed' \subseteq crossed \cup {r}
    BY <1>2 DEF Refresh
  <2> QED
    BY <1>1, <1>2, <2>1, Refreshes DEF KeptTyped, copies, storage
<1>3. CASE Swap(r)
  <2>1. UNCHANGED <<doc, holder, storage, crossed, torn, stray>>
        /\ snap' = [snap EXCEPT ![req[r].at] = req[r].read] /\ up' = up \cup {req[r].at}
        /\ behind' = Renewed(r, "ai", TRUE)
    BY <1>3 DEF Swap
  <2> QED
    BY <1>1, <1>3, <2>1, Swaps, RenewedTyped DEF KeptTyped, storage
<1>4. CASE ReadUploads(r)
  <2>1. UNCHANGED <<doc, up, copies, storage, crossed, torn, stray>>
    BY <1>4 DEF ReadUploads
  <2> QED
    BY <1>1, <1>4, <2>1, ReadsUploads DEF KeptTyped, copies, storage
<1>5. CASE Reload(r)
  <2>1. UNCHANGED <<doc, up, snap, storage, crossed, torn, stray>>
        /\ behind' = Renewed(r, "uploads", req[r].kind # "blind")
    BY <1>5 DEF Reload
  <2> QED
    BY <1>1, <1>5, <2>1, Reloads, RenewedTyped DEF KeptTyped, storage
<1> QED
  BY <1>2, <1>3, <1>4, <1>5

LEMMA WorkingTyped ==
    ASSUME TypeInv, NEW r \in Requests, Working(r)
    PROVE  KeptTyped' /\ \E x : Turns(r, x)
BY BootStepTyped, SlackStepTyped, UploadStepTyped, WriteStepTyped, RenewalTyped DEF Working

LEMMA CrashTyped ==
    ASSUME TypeInv, NEW i \in Instances, Crash(i)
    PROVE  KeptTyped'
<1>1. KeptTyped
  BY KeptIs
<1>2. UNCHANGED <<doc, storage, crossed, behind>> /\ up' = up \ {i}
  BY DEF Crash
<1>3. snap' \in [Instances -> Parts("ai")] /\ holder' \in [Instances -> HolderType]
  <2>1. NoHolder \in HolderType
    BY StringsAre DEF NoHolder, HolderType, Values
  <2> QED
    BY <1>1, <2>1, PartTyped, ZeroTyped DEF Crash, KeptTyped
<1>4. torn' \subseteq AllGroups
  <2>1. \A r \in Requests : req[r].groups \subseteq AllGroups
    BY RequestIs DEF RequestType
  <2> QED
    BY <1>1, <2>1 DEF Crash, KeptTyped
<1>5. stray' \subseteq Requests
  BY <1>1 DEF Crash, KeptTyped
<1> QED
  BY <1>1, <1>2, <1>3, <1>4, <1>5 DEF KeptTyped, storage

LEMMA NextTyped == TypeInv /\ [Next]_vars => TypeInv'
<1> SUFFICES ASSUME TypeInv, [Next]_vars PROVE TypeInv'
  OBVIOUS
<1>0. ASSUME KeptTyped', Next PROVE StoreTyped'
  BY <1>0, Counts DEF KeptTyped, StoreTyped
<1>1. ASSUME Next, KeptTyped', NEW r \in Requests, NEW x, Turns(r, x) PROVE TypeInv'
  BY <1>0, <1>1, Turn DEF TypeInv
<1>2. ASSUME NEW r \in Requests, Opening(r) PROVE TypeInv'
  <2>1. PICK x : Starts(r, x)
    BY <1>2, OpeningStarts
  <2>2. KeptTyped'
    BY <2>1, KeptIs DEF Starts, KeptTyped, copies, storage
  <2> QED
    BY <1>1, <1>2, <2>1, <2>2, NextIs DEF Starts
<1>3. ASSUME NEW r \in Requests, Working(r) PROVE TypeInv'
  BY <1>1, <1>3, WorkingTyped, NextIs
<1>4. ASSUME NEW r \in Requests, Boot(r) PROVE TypeInv'
  <2>1. UNCHANGED <<doc, up, copies, storage, torn, behind, stray>>
    BY <1>4 DEF Boot
  <2>2. PICK x : Turns(r, x) /\ crossed' \subseteq Requests
    BY <1>4, BootBegins
  <2>3. KeptTyped'
    BY <2>1, <2>2, KeptIs DEF KeptTyped, copies, storage
  <2> QED
    BY <1>1, <1>4, <2>2, <2>3, NextIs
<1>5. ASSUME NEW i \in Instances, Crash(i) PROVE TypeInv'
  BY <1>0, <1>5, CrashTyped, Dies, NextIs DEF TypeInv
<1>6. CASE UNCHANGED vars
  BY <1>6 DEF vars, copies, storage, ghosts, TypeInv, StoreTyped
<1> QED
  BY <1>2, <1>3, <1>4, <1>5, <1>6, NextIs

\* Every request is at one of its places with what it needs there, and the document,
\* the copies and the files are what their types say: the settings, their readers and
\* the handlers agree on what may be stored.
THEOREM Typed == Spec => []TypeInv
BY InitTyped, NextTyped, PTL DEF Spec

-----------------------------------------------------------------------------
(* Files and blobs.                                                        *)

Clean(r) == r \notin files /\ \A b \in Values : <<b, r>> \notin blobs

\* Where an upload has put what: nothing before it is put, a blob where it says while
\* it is about to insert its record or to undo, both when it is answered, and nothing
\* when it ends otherwise, unless it strayed.
FileInv(r) ==
    LET q == req[r] IN
    /\ q.pc \notin {"inserting", "undoing", "created", "done", "dead"} => Clean(r)
    /\ q.pc \in {"done", "dead"} /\ r \notin stray => Clean(r)
    /\ q.pc \in {"inserting", "undoing"} =>
          \A b \in Values : <<b, r>> \in blobs <=> b = q.backend
    /\ q.pc = "inserting" => r \notin files
    /\ q.pc = "undoing" /\ r \notin stray => r \notin files
    /\ q.pc = "created" => r \in files /\ <<q.backend, r>> \in blobs

\* The steps of a request that is not an upload.
Plain(r) == \/ ExchangeCode(r) \/ PostMessage(r) \/ WriteField(r) \/ FailWrite(r)
            \/ Refresh(r) \/ Swap(r) \/ ReadUploads(r) \/ Reload(r)
            \/ Migrate(r) \/ Seed(r)
Uploading(r) == PutFile(r) \/ InsertFile(r) \/ DeleteFile(r)
FilePcs == {"inserting", "undoing", "created", "done", "dead"}

LEMMA WorkingIs == \A r : Working(r) <=> Plain(r) \/ Uploading(r)
BY DEF Working, Plain, Uploading

LEMMA PlainMoves ==
    ASSUME TypeInv, NEW r \in Requests, Plain(r)
    PROVE  /\ UNCHANGED <<storage, stray>> /\ req[r].pc \notin FilePcs
           /\ \E x : Turns(r, x) /\ (x.pc = "done" \/ x.pc \notin FilePcs)
<1>1. UNCHANGED <<storage, stray>>
  BY DEF Plain, ExchangeCode, PostMessage, WriteField, FailWrite, Refresh, Swap, ReadUploads,
         Reload, Migrate, Seed, Unchanged
<1>2. req[r].pc \notin FilePcs
  BY DEF Plain, ExchangeCode, PostMessage, WriteField, FailWrite, Refresh, Swap, ReadUploads,
         Reload, Migrate, Seed, FilePcs
<1>3. CASE WriteField(r)
  <2>1. PICK k, x : Wrote(r, k, x)
    BY <1>3, Writes
  <2>2. Turns(r, x) /\ (x.pc = "done" \/ x.pc \notin FilePcs)
    BY <2>1 DEF Wrote, FilePcs
  <2> QED
    BY <1>1, <1>2, <2>2
<1>4. CASE FailWrite(r)
  BY <1>1, <1>2, <1>4, WriteFails DEF FilePcs
<1>5. CASE ExchangeCode(r) \/ PostMessage(r)
  BY <1>1, <1>2, <1>5, Exchanges, Posts DEF FilePcs
<1>6. CASE Refresh(r) \/ Swap(r) \/ ReadUploads(r) \/ Reload(r)
  BY <1>1, <1>2, <1>6, Refreshes, Swaps, ReadsUploads, Reloads DEF FilePcs
<1>7. CASE Migrate(r)
  BY <1>1, <1>2, <1>7, Migrates DEF FilePcs
<1>8. CASE Seed(r)
  BY <1>1, <1>2, <1>8, SeedsOnce DEF FilePcs
<1> QED
  BY <1>3, <1>4, <1>5, <1>6, <1>7, <1>8 DEF Plain

\* A request's files are its own.
LEMMA OthersKeepFiles ==
    ASSUME TypeInv, NEW r \in Requests, FileInv(r), req'[r] = req[r],
           r \in files' <=> r \in files, r \in stray' <=> r \in stray,
           \A b \in Values : <<b, r>> \in blobs' <=> <<b, r>> \in blobs
    PROVE  FileInv(r)'
<1>1. req[r].backend \in Values
  BY RequestIs DEF RequestType
<1> QED
  BY <1>1 DEF FileInv, Clean

LEMMA PlainKeepsFiles ==
    ASSUME TypeInv, NEW r \in Requests, NEW x, Turns(r, x), FileInv(r), req[r].pc \notin FilePcs,
           x.pc = "done" \/ x.pc \notin FilePcs, UNCHANGED <<storage, stray>>
    PROVE  FileInv(r)'
<1>1. Clean(r) /\ req'[r] = x
  BY Turn DEF FileInv, FilePcs
<1>2. Clean(r)'
  BY <1>1 DEF Clean, storage
<1> QED
  BY <1>1, <1>2 DEF FileInv, FilePcs

LEMMA UploadKeepsFiles ==
    ASSUME TypeInv, NEW r \in Requests, Uploading(r), FileInv(r)
    PROVE  FileInv(r)'
<1>1. CASE PutFile(r)
  <2>1. UNCHANGED files
    BY <1>1 DEF PutFile
  <2>2. PICK x : /\ Turns(r, x)
                 /\ \/ x.pc = "inserting" /\ x.backend \in Values
                       /\ blobs' = blobs \cup {<<x.backend, r>>}
                    \/ x.pc = "done" /\ (UNCHANGED blobs \/ r \in stray')
    BY <1>1, Puts
  <2>3. Clean(r) /\ req'[r] = x
    BY <1>1, <2>2, Turn, Puts DEF FileInv
  <2>4. \/ x.pc = "inserting" /\ \A b \in Values : <<b, r>> \in blobs' <=> b = x.backend
        \/ x.pc = "done" /\ (Clean(r)' \/ r \in stray')
    BY <2>1, <2>2, <2>3 DEF Clean
  <2> QED
    BY <2>1, <2>3, <2>4 DEF FileInv, Clean
<1>2. CASE InsertFile(r)
  <2>1. UNCHANGED blobs
    BY <1>2 DEF InsertFile
  <2>2. PICK x : /\ Turns(r, x) /\ x.backend = req[r].backend
                 /\ \/ x.pc = "created" /\ files' = files \cup {r}
                    \/ x.pc = "undoing" /\ (UNCHANGED <<files, stray>> \/ r \in stray')
    BY <1>2, Inserts
  <2>3. req'[r] = x /\ req[r].pc = "inserting" /\ req[r].backend \in Values
    BY <1>2, <2>2, Turn, Inserts, RequestIs DEF RequestType
  <2> QED
    BY <2>1, <2>2, <2>3 DEF FileInv, Clean
<1>3. CASE DeleteFile(r)
  <2>1. PICK x : Turns(r, x) /\ x.pc = "done"
    BY <1>3, Undoes
  <2>2. req'[r] = x /\ req[r].pc = "undoing"
    BY <1>3, <2>1, Turn, Undoes
  <2>3. UNCHANGED files
    BY <1>3 DEF DeleteFile
  <2>4. r \notin stray' => /\ r \notin stray
                           /\ blobs' = blobs \ {<<req[r].backend, r>>}
    BY <1>3 DEF DeleteFile, DeleteBlob
  <2> QED
    BY <2>1, <2>2, <2>3, <2>4 DEF FileInv, Clean
<1> QED
  BY <1>1, <1>2, <1>3 DEF Uploading

\* An upload touches no other request's files.
LEMMA UploadTouchesItsOwn ==
    ASSUME TypeInv, NEW r \in Requests, Uploading(r), NEW q \in Requests, q # r
    PROVE  /\ q \in files' <=> q \in files
           /\ q \in stray' <=> q \in stray
           /\ \A b \in Values : <<b, q>> \in blobs' <=> <<b, q>> \in blobs
BY DEF Uploading, PutFile, InsertFile, DeleteFile, PutBlob, DeleteBlob, storage

LEMMA FilesInit == Init => \A r \in Requests : FileInv(r)
BY DEF Init, FileInv, Clean, Fresh

LEMMA FilesKept ==
    ASSUME TypeInv, \A r \in Requests : FileInv(r), [Next]_vars
    PROVE  \A r \in Requests : FileInv(r)'
<1>1. ASSUME NEW r \in Requests, NEW x, Turns(r, x), UNCHANGED <<storage, stray>>,
             req[r].pc \notin FilePcs, x.pc = "done" \/ x.pc \notin FilePcs
      PROVE  \A q \in Requests : FileInv(q)'
  <2>1. FileInv(r)'
    BY <1>1, PlainKeepsFiles
  <2>2. ASSUME NEW q \in Requests, q # r PROVE FileInv(q)'
    BY <1>1, <2>2, Turn, OthersKeepFiles DEF storage
  <2> QED
    BY <2>1, <2>2
<1>2. ASSUME NEW r \in Requests, Opening(r) PROVE \A q \in Requests : FileInv(q)'
  BY <1>1, <1>2, OpeningStarts DEF Starts, FilePcs
<1>3. ASSUME NEW r \in Requests, Plain(r) PROVE \A q \in Requests : FileInv(q)'
  BY <1>1, <1>3, PlainMoves
<1>4. ASSUME NEW r \in Requests, Uploading(r) PROVE \A q \in Requests : FileInv(q)'
  <2>1. FileInv(r)'
    BY <1>4, UploadKeepsFiles
  <2>2. PICK x : Turns(r, x)
    BY <1>4, WorkingIs, WorkingTyped
  <2>3. ASSUME NEW q \in Requests, q # r PROVE FileInv(q)'
    BY <1>4, <2>2, <2>3, Turn, UploadTouchesItsOwn, OthersKeepFiles
  <2> QED
    BY <2>1, <2>3
<1>5. ASSUME NEW r \in Requests, Boot(r) PROVE \A q \in Requests : FileInv(q)'
  <2>1. UNCHANGED <<storage, stray>>
    BY <1>5 DEF Boot
  <2> QED
    BY <1>1, <1>5, <2>1, BootBegins DEF FilePcs
<1>6. ASSUME NEW i \in Instances, Crash(i) PROVE \A q \in Requests : FileInv(q)'
  <2> SUFFICES ASSUME NEW q \in Requests PROVE FileInv(q)'
    OBVIOUS
  <2>1. UNCHANGED storage
    BY <1>6 DEF Crash
  <2>2. CASE req[q].at # i
    <3>1. q \in stray' <=> q \in stray
      BY <1>6, <2>2 DEF Crash
    <3> QED
      BY <1>6, <2>1, <2>2, <3>1, Dies, OthersKeepFiles DEF storage
  <2>3. CASE req[q].at = i
    <3>1. req[q].pc \notin Rest /\ req'[q].pc = "dead"
      BY <1>6, <2>3, Dies, RequestIs, PlacesAre, StringsAre DEF Rests
    <3>2. q \notin stray' => req[q].pc \notin {"inserting", "undoing"}
      BY <1>6, <2>3 DEF Crash
    <3>3. q \notin stray' => Clean(q)
      BY <3>1, <3>2 DEF FileInv, Rest
    <3> QED
      BY <2>1, <3>1, <3>3 DEF FileInv, Clean, storage
  <2> QED
    BY <2>2, <2>3
<1>7. CASE UNCHANGED vars
  BY <1>7, OthersKeepFiles DEF vars, storage
<1> QED
  BY <1>2, <1>3, <1>4, <1>5, <1>6, <1>7, NextIs, WorkingIs

\* A file whose upload was answered opens wherever the backend that took it is at
\* work, and an upload that failed leaves nothing, unless a bucket kept the object of a
\* failed Put or its undoing failed too, never ran or met another backend
\* (UploadFileHandler, storage.Holder).
THEOREM FilesAndBlobsMatch == Spec => []FilesMatchBlobs
<1>1. Init => TypeInv /\ \A r \in Requests : FileInv(r)
  BY InitTyped, FilesInit
<1>2. TypeInv /\ (\A r \in Requests : FileInv(r)) /\ [Next]_vars
      => TypeInv' /\ \A r \in Requests : FileInv(r)'
  BY NextTyped, FilesKept
<1>3. TypeInv /\ (\A r \in Requests : FileInv(r)) => FilesMatchBlobs
  <2>1. Backends \subseteq Values
    BY DEF Backends, Values
  <2> QED
    BY <2>1 DEF FilesMatchBlobs, FileInv, Clean, Opens
<1> DEFINE Files == \A r \in Requests : FileInv(r)
<1>4. Init => TypeInv /\ Files
  BY <1>1
<1>5. TypeInv /\ Files /\ [Next]_vars => (TypeInv /\ Files)'
  BY <1>2
<1>6. TypeInv /\ Files => FilesMatchBlobs
  BY <1>3
<1> HIDE DEF Files
<1> QED
  BY <1>4, <1>5, <1>6, PTL DEF Spec

-----------------------------------------------------------------------------
(* Who is where, and who overlaps whom.                                    *)

\* Requests at work on one group have crossed.
Alone == \A q, r \in Requests :
            q # r /\ req[q].groups \cap req[r].groups # {} => {q, r} \subseteq crossed

\* A request is at an instance that serves; a boot has its instance for itself, and that
\* does not serve yet.
Placed(r) ==
    /\ ~Rests(req[r]) /\ ~Boots(req[r]) => req[r].at \in up
    /\ Boots(req[r]) => /\ req[r].at \notin up
                        /\ \A q \in Requests : q # r => req[q].at # req[r].at

LEMMA BootGroupsOnly ==
    ASSUME NEW x, x.groups = BootGroups
    PROVE  ~(Rests(x) \/ Saves(x) \/ SavesApp(x) \/ Connects(x) \/ Notices(x) \/ Uploads(x))
<1>1. "ai" \in x.groups /\ "uploads" \in x.groups
  BY DEF BootGroups
<1>2. ~Saves(x)
  BY <1>1 DEF Saves
<1>3. x.groups # {} /\ x.groups # {"slack"}
  BY <1>1
<1> QED
  BY <1>2, <1>3 DEF Rests, SavesApp, Connects, Notices, Uploads

\* A request at work goes on at the same place with the same groups, or ends.
GoesOn(r, x) ==
    /\ Turns(r, x) /\ ~Rests(req[r])
    /\ \/ Rests(x)
       \/ /\ x.at = req[r].at /\ x.groups = req[r].groups /\ ~Rests(x)
          /\ Boots(x) <=> Boots(req[r])

LEMMA SameGoesOn ==
    ASSUME TypeInv, NEW r \in Requests, NEW x, Turns(r, x), SameWork(x, req[r]),
           ~Rests(req[r]), ~Rests(x), Boots(x) <=> Boots(req[r])
    PROVE  GoesOn(r, x)
BY DEF GoesOn, SameWork

LEMMA WorkingGoesOn ==
    ASSUME TypeInv, NEW r \in Requests, Working(r)
    PROVE  \E x : GoesOn(r, x)
<1>y. PICK y \in RequestType : y = req[r] /\ Fits(y)
  BY RequestIs
<1>0. ~Rests(y)
  BY <1>y DEF Working, ExchangeCode, PostMessage, WriteField, FailWrite, Refresh, Swap,
              ReadUploads, Reload, Migrate, Seed, PutFile, InsertFile, DeleteFile,
              Rests, Rest
<1>1. CASE ExchangeCode(r)
  <2>1. PICK x : /\ Turns(r, x)
                 /\ Rests(x) \/ (Saves(x) /\ x.at = y.at /\ x.groups = {"slack"})
    BY <1>1, <1>y, Exchanges
  <2>2. Connects(y)
    BY <1>1, <1>y, Exchanges
  <2>3. GoesOn(r, x)
    BY <1>0, <1>y, <2>1, <2>2, BootsOnly DEF GoesOn, Connects
  <2> QED
    BY <2>3
<1>2. CASE PostMessage(r)
  <2>1. PICK x : /\ Turns(r, x)
                 /\ Rests(x) \/ (Notices(x) /\ x.pc = "writing" /\ SameWork(x, y))
    BY <1>2, <1>y, Posts
  <2>2. ~Boots(y)
    BY <1>2, <1>y, Posts, BootsOnly
  <2>3. CASE Rests(x)
    BY <1>0, <1>y, <2>1, <2>3 DEF GoesOn
  <2>4. CASE ~Rests(x)
    BY <1>0, <1>y, <2>1, <2>2, <2>4, BootsOnly, SameGoesOn
  <2> QED
    BY <2>3, <2>4
<1>3. CASE WriteField(r)
  <2>1. PICK k, x : Wrote(r, k, x)
    BY <1>3, Writes
  <2>2. CASE Rests(x)
    BY <1>0, <1>y, <2>1, <2>2 DEF GoesOn, Wrote
  <2>3. CASE ~Rests(x)
    <3>1. SameWork(x, y) /\ Turns(r, x)
      BY <1>y, <2>1, <2>3 DEF Wrote
    <3>2. /\ y.pc = "writing"
          /\ \/ x.pc = "writing"
             \/ Saves(y) /\ x.pc \in {"refreshing", "reloading"}
             \/ Seeds(y) /\ x.pc = "starting"
      BY <1>y, <2>1, <2>3 DEF Wrote
    <3>3. x.kind = y.kind /\ x.groups = y.groups /\ x.patch = y.patch /\ Fits(x)
      BY <3>1 DEF SameWork, Turns
    <3>4. Boots(y) => Boots(x)
      <4> SUFFICES ASSUME Boots(y) PROVE Boots(x)
        OBVIOUS
      <4>1. x.kind = y.kind /\ Seeds(y)
        BY <3>2, <3>3 DEF Boots
      <4>2. ~Saves(x) /\ ~SavesApp(x) /\ ~Connects(x) /\ ~Notices(x) /\ ~Uploads(x)
        <5>1. x.groups = BootGroups
          BY <3>3 DEF Boots
        <5> QED
          BY <5>1, BootGroupsOnly
      <4> QED
        BY <2>3, <3>3, <4>2 DEF Fits
    <3>5. Boots(x) => Boots(y)
      <4> SUFFICES ASSUME Boots(x) PROVE Boots(y)
        OBVIOUS
      <4>1. y.groups = BootGroups
        BY <3>3 DEF Boots
      <4>2. ~Saves(y) /\ ~SavesApp(y) /\ ~Connects(y) /\ ~Notices(y) /\ ~Uploads(y)
        BY <4>1, BootGroupsOnly
      <4> QED
        BY <1>0, <1>y, <4>2 DEF Fits
    <3>6. GoesOn(r, x)
      BY <1>0, <1>y, <2>3, <3>1, <3>4, <3>5, SameGoesOn
    <3> QED
      BY <3>6
  <2> QED
    BY <2>2, <2>3
<1>4. CASE FailWrite(r)
  BY <1>0, <1>4, <1>y, WriteFails, BootsOnly, SameGoesOn DEF GoesOn
<1>5. CASE Refresh(r)
  <2>2. PICK z : /\ Turns(r, z) /\ SameWork(z, y) /\ z.pc = "swapping"
                 /\ (Boots(y) => Boots(z)) /\ (Saves(y) => Saves(z))
    BY <1>5, <1>y, Refreshes
  <2>3. Boots(y) \/ Saves(y)
    BY <1>5, <1>y, PlacesAre DEF Refresh
  <2>4. ~Rests(z) /\ (Boots(z) <=> Boots(y))
    BY <2>2, <2>3, BootsOnly DEF Rests, Rest
  <2> QED
    BY <1>0, <1>y, <2>2, <2>4, SameGoesOn
<1>6. CASE Swap(r)
  BY <1>0, <1>6, <1>y, Swaps DEF GoesOn
<1>7. CASE ReadUploads(r)
  <2>1. Saves(y)
    BY <1>7, <1>y, ReadsUploads
  <2>2. PICK x : /\ Turns(r, x)
                 /\ Rests(x) \/ (SameWork(x, y) /\ Saves(x) /\ x.pc = "building")
    BY <1>7, <1>y, ReadsUploads
  <2>3. CASE Rests(x)
    BY <1>0, <1>y, <2>2, <2>3 DEF GoesOn
  <2>4. CASE ~Rests(x)
    BY <1>0, <1>y, <2>1, <2>2, <2>4, BootsOnly, SameGoesOn
  <2> QED
    BY <2>3, <2>4
<1>8. CASE Reload(r)
  BY <1>0, <1>8, <1>y, Reloads, BootsOnly, SameGoesOn DEF GoesOn
<1>9. CASE Migrate(r)
  BY <1>0, <1>9, <1>y, Migrates, BootsOnly, SameGoesOn
<1>10. CASE Seed(r)
  BY <1>0, <1>10, <1>y, SeedsOnce, BootsOnly DEF GoesOn
<1>11. CASE PutFile(r)
  <2>1. Uploads(y)
    BY <1>11, <1>y, Puts
  <2>2. PICK x : Turns(r, x) /\ (Rests(x) \/ (Uploads(x) /\ x.at = y.at))
    BY <1>11, <1>y, Puts
  <2> QED
    BY <1>0, <1>y, <2>1, <2>2, BootsOnly DEF GoesOn, Uploads
<1>12. CASE InsertFile(r)
  <2>1. Uploads(y)
    BY <1>12, <1>y, Inserts
  <2>2. PICK x : Turns(r, x) /\ (Rests(x) \/ (Uploads(x) /\ x.at = y.at))
    BY <1>12, <1>y, Inserts
  <2> QED
    BY <1>0, <1>y, <2>1, <2>2, BootsOnly DEF GoesOn, Uploads
<1>13. CASE DeleteFile(r)
  BY <1>0, <1>13, <1>y, Undoes DEF GoesOn
<1> QED
  BY <1>1, <1>2, <1>3, <1>4, <1>5, <1>6, <1>7, <1>8, <1>9, <1>10, <1>11, <1>12, <1>13
     DEF Working

LEMMA CrossedGrows ==
    ASSUME TypeInv, Next
    PROVE  crossed \subseteq crossed'
<1>1. ASSUME NEW r \in Requests, Opening(r) PROVE crossed \subseteq crossed'
  BY <1>1, OpeningStarts DEF Starts
<1>2. ASSUME NEW r \in Requests, Working(r) PROVE crossed \subseteq crossed'
  BY <1>2 DEF Working, ExchangeCode, PostMessage, WriteField, FailWrite, Refresh, Swap,
              ReadUploads, Reload, Migrate, Seed, Unchanged, PutFile, InsertFile,
              DeleteFile, ghosts
<1>3. ASSUME NEW r \in Requests, Boot(r) PROVE crossed \subseteq crossed'
  BY <1>3, BootBegins
<1>4. ASSUME NEW i \in Instances, Crash(i) PROVE crossed \subseteq crossed'
  BY <1>4 DEF Crash
<1> QED
  BY <1>1, <1>2, <1>3, <1>4, NextIs

\* The new request has crossed with everyone who is at work on its groups.
LEMMA BeginsAlone ==
    ASSUME TypeInv, Alone, NEW r \in Requests, NEW x, Turns(r, x), req[r].groups = {},
           crossed' = crossed \cup CrossedBy(r, x.groups)
    PROVE  Alone'
<1> SUFFICES ASSUME NEW q \in Requests, NEW s \in Requests, q # s,
                    req'[q].groups \cap req'[s].groups # {}
             PROVE  q \in crossed' /\ s \in crossed'
  BY DEF Alone
<1>1. req'[r] = x /\ \A z \in Requests : z # r => req'[z] = req[z]
  BY Turn
<1>2. CASE q # r /\ s # r
  BY <1>1, <1>2 DEF Alone
<1>3. ASSUME NEW z \in Requests, z # r, req[z].groups \cap x.groups # {}
      PROVE  {z, r} \subseteq CrossedBy(r, x.groups)
  BY <1>3 DEF CrossedBy
<1>4. CASE q = r
  <2>1. req[s].groups \cap x.groups # {} /\ s # r
    BY <1>1, <1>4
  <2> QED
    BY <1>3, <1>4, <2>1
<1>5. CASE s = r
  <2>1. req[q].groups \cap x.groups # {} /\ q # r
    BY <1>1, <1>5
  <2> QED
    BY <1>3, <1>5, <2>1
<1> QED
  BY <1>2, <1>4, <1>5

LEMMA AloneKept == TypeInv /\ Alone /\ [Next]_vars => Alone'
<1> SUFFICES ASSUME TypeInv, Alone, [Next]_vars PROVE Alone'
  OBVIOUS
<1>0. \A r \in Requests : req[r].pc = "new" => req[r].groups = {}
  BY RequestIs, PlacesAre DEF Rests, Rest
<1>1. ASSUME NEW r \in Requests, Opening(r) PROVE Alone'
  BY <1>0, <1>1, OpeningStarts, BeginsAlone DEF Starts
<1>2. ASSUME NEW r \in Requests, Working(r) PROVE Alone'
  <2>1. PICK x : GoesOn(r, x)
    BY <1>2, WorkingGoesOn
  <2>2. x.groups \subseteq req[r].groups
    BY <2>1 DEF GoesOn, Rests
  <2>3. \A q \in Requests : req'[q].groups \subseteq req[q].groups
    BY <2>1, <2>2, Turn DEF GoesOn
  <2>4. crossed \subseteq crossed'
    BY <1>2, CrossedGrows, NextIs
  <2> QED
    BY <2>3, <2>4 DEF Alone
<1>3. ASSUME NEW r \in Requests, Boot(r) PROVE Alone'
  BY <1>0, <1>3, BootBegins, BeginsAlone
<1>4. ASSUME NEW i \in Instances, Crash(i) PROVE Alone'
  <2>1. \A q \in Requests : req'[q].groups \subseteq req[q].groups
    BY <1>4, Dies DEF Rests
  <2>2. crossed' = crossed
    BY <1>4 DEF Crash
  <2> QED
    BY <2>1, <2>2 DEF Alone
<1>5. CASE UNCHANGED vars
  BY <1>5 DEF vars, ghosts, Alone
<1> QED
  BY <1>1, <1>2, <1>3, <1>4, <1>5, NextIs

LEMMA UpChanges ==
    ASSUME TypeInv, NEW r \in Requests, Working(r)
    PROVE  UNCHANGED up \/ (Swap(r) /\ up' = up \cup {req[r].at})
BY DEF Working, ExchangeCode, PostMessage, WriteField, FailWrite, Refresh, Swap,
       ReadUploads, Reload, Migrate, Seed, Unchanged, PutFile, InsertFile, DeleteFile

LEMMA PlacedKept ==
    ASSUME TypeInv, \A r \in Requests : Placed(r), [Next]_vars
    PROVE  \A r \in Requests : Placed(r)'
<1>0. "none" \notin Instances /\ \A r \in Requests : Rests(req[r]) => req[r].at = "none"
  BY StringsAre DEF Rests
<1>1. ASSUME NEW r \in Requests, Opening(r) PROVE \A q \in Requests : Placed(q)'
  <2>1. PICK x : Starts(r, x)
    BY <1>1, OpeningStarts
  <2>2. req'[r] = x /\ ~Rests(x) /\ ~Boots(x) /\ x.at \in up /\ up' = up
    BY <2>1, Turn DEF Starts
  <2>3. \A q \in Requests : q # r => req'[q] = req[q]
    BY <2>1, Turn DEF Starts
  <2> QED
    BY <2>2, <2>3 DEF Placed
<1>2. ASSUME NEW r \in Requests, Working(r) PROVE \A q \in Requests : Placed(q)'
  <2>1. PICK x : GoesOn(r, x)
    BY <1>2, WorkingGoesOn
  <2>2. req'[r] = x /\ \A q \in Requests : q # r => req'[q] = req[q]
    BY <2>1, Turn DEF GoesOn
  <2>3. CASE UNCHANGED up
    <3>1. Placed(r)'
      BY <1>0, <2>1, <2>2, <2>3, BootsOnly DEF GoesOn, Placed
    <3>2. ASSUME NEW q \in Requests, q # r PROVE Placed(q)'
      <4>1. x.at = req[r].at \/ x.at = "none"
        BY <2>1 DEF GoesOn, Rests
      <4>2. Boots(req[q]) => req[q].at # "none"
        BY <1>0, RequestIs, BootsOnly DEF Fits
      <4> QED
        BY <2>2, <2>3, <3>2, <4>1, <4>2 DEF Placed
    <3> QED
      BY <3>1, <3>2
  <2>4. CASE Swap(r) /\ up' = up \cup {req[r].at}
    <3>1. PICK z : Turns(r, z) /\ Rests(z)
      BY <2>4, Swaps
    <3>2. Rests(req'[r]) /\ req'[r].at = "none"
      BY <3>1, Turn DEF Rests
    <3>3. Placed(r)'
      BY <3>2, BootsOnly DEF Placed
    <3>4. ASSUME NEW q \in Requests, q # r PROVE Placed(q)'
      <4>1. Boots(req[q]) => req[q].at # "none"
        BY <1>0, RequestIs, BootsOnly DEF Fits
      <4> QED
        BY <2>2, <2>4, <3>2, <3>4, <4>1 DEF Placed
    <3> QED
      BY <3>3, <3>4
  <2> QED
    BY <1>2, <2>3, <2>4, UpChanges
<1>3. ASSUME NEW r \in Requests, Boot(r) PROVE \A q \in Requests : Placed(q)'
  <2>1. PICK x : /\ Turns(r, x) /\ Boots(x) /\ x.at \in Instances \ up
                 /\ \A q \in Requests : req[q].at # x.at
    BY <1>3, BootBegins
  <2>2. UNCHANGED up
    BY <1>3 DEF Boot
  <2>3. req'[r] = x /\ \A q \in Requests : q # r => req'[q] = req[q]
    BY <2>1, Turn
  <2> QED
    BY <2>1, <2>2, <2>3 DEF Placed
<1>4. ASSUME NEW i \in Instances, Crash(i) PROVE \A q \in Requests : Placed(q)'
  <2> SUFFICES ASSUME NEW q \in Requests PROVE Placed(q)'
    OBVIOUS
  <2>1. up' = up \ {i}
    BY <1>4 DEF Crash
  <2>2. CASE req[q].at = i
    BY <1>4, <2>2, Dies, BootsOnly DEF Placed
  <2>3. CASE req[q].at # i
    <3>1. req'[q] = req[q]
      BY <1>4, <2>3, Dies
    <3>2. \A s \in Requests : req'[s].at \in {req[s].at, "none"}
      BY <1>4, Dies DEF Rests
    <3>3. Boots(req[q]) => req[q].at # "none"
      BY <1>0, RequestIs, BootsOnly DEF Fits
    <3> QED
      BY <2>1, <2>3, <3>1, <3>2, <3>3 DEF Placed
  <2> QED
    BY <2>2, <2>3
<1>5. CASE UNCHANGED vars
  BY <1>5 DEF vars, Placed
<1> QED
  BY <1>1, <1>2, <1>3, <1>4, <1>5, NextIs

-----------------------------------------------------------------------------
(* What the copies of an instance show.                                    *)

Copied == {"ai", "uploads"}

\* A request has read the part of the document that it is about to renew a copy with.
HasRead(r, g) ==
    LET q == req[r] IN
    \/ g = "ai" /\ q.pc = "swapping"
    \/ /\ g = "uploads"
       /\ q.pc = "building" \/ (Boots(q) /\ q.pc \in Early /\ q.kind # "blind")
ReadInv(r) ==
    \A g \in Copied : HasRead(r, g) /\ r \notin crossed => req[r].read = Part(doc, g)

\* A save is amid its patch, or has not renewed its instance's copy yet.
Half(q) == \/ q.pc \in {"refreshing", "swapping", "reloading", "building"}
           \/ q.pc = "writing" /\ q.left # DOMAIN q.patch
Renews(r, i, g) == /\ Saves(req[r]) /\ req[r].at = i /\ g \in req[r].groups
                   /\ Half(req[r])

\* The copies that count: those of instances that serve, and the holder of one that
\* has only its snapshot to make before it does.
Shows(i, g) ==
    \/ i \in up
    \/ /\ g = "uploads"
       /\ \E r \in Requests : /\ Boots(req[r]) /\ req[r].at = i
                              /\ req[r].pc \in {"refreshing", "swapping"}

Follows(i, g) ==
    /\ g = "ai" => snap[i] = Part(doc, "ai")
    /\ g = "uploads" =>
          /\ holder[i].enabled = Part(doc, "uploads")[<<"uploads", "enabled">>]
          /\ \/ holder[i].build = "failed"
             \/ holder[i].backend = BackendOf(Part(doc, "uploads"))

Right(i, g) ==
    Shows(i, g) => \/ <<i, g>> \in behind
                   \/ Follows(i, g)
                   \/ \E r \in Requests : Renews(r, i, g)
AllRight == \A i \in Instances, g \in Copied : Right(i, g)

LEMMA PartKept ==
    ASSUME NEW d \in Document, NEW e \in Document, NEW g,
           \A k \in Fields : k[1] = g => d[k] = e[k]
    PROVE  Part(d, g) = Part(e, g)
BY DEF Part

LEMMA EditedPart ==
    ASSUME NEW d \in Document, NEW k \in Fields, NEW v \in Values, NEW g, k[1] # g
    PROVE  Part([d EXCEPT ![k] = v], g) = Part(d, g)
<1>1. [d EXCEPT ![k] = v] \in Document
      /\ \A f \in Fields : f[1] = g => [d EXCEPT ![k] = v][f] = d[f]
  BY Edited
<1> QED
  BY <1>1, PartKept

\* The groups that a write touches are those of a save.
LEMMA WritersSave ==
    ASSUME TypeInv, NEW r \in Requests, NEW k \in req[r].left, req[r].pc = "writing",
           k[1] \in Copied
    PROVE  Saves(req[r]) /\ k[1] \in req[r].groups
<1>1. k \in DOMAIN req[r].patch /\ k[1] \in Groups(req[r].patch)
  BY WriteTyped
<1>2. Saves(req[r]) \/ SavesApp(req[r]) \/ Notices(req[r]) \/ Seeds(req[r])
  BY RequestIs, PlacesAre
<1>3. ~SavesApp(req[r])
  BY <1>1 DEF SavesApp, App, Copied
<1>4. ~Notices(req[r])
  BY <1>1 DEF Notices, Error, Copied
<1>5. ~Seeds(req[r])
  BY <1>1 DEF Seeds, ByLang, Copied
<1> QED
  BY <1>1, <1>2, <1>3, <1>4, <1>5 DEF Saves

\* Only a save writes what is copied, and it leaves the other instances behind.
LEMMA WhoWrites ==
    ASSUME TypeInv, NEW r \in Requests, Working(r), NEW g \in Copied
    PROVE  \/ Part(doc', g) = Part(doc, g)
           \/ /\ WriteField(r) \/ FailWrite(r)
              /\ Saves(req[r]) /\ g \in req[r].groups
              /\ \A i \in Instances : i # req[r].at => <<i, g>> \in behind'
<1>d. doc \in Document
  BY DEF TypeInv, StoreTyped
<1>1. CASE WriteField(r)
  <2>1. PICK k, x : Wrote(r, k, x)
    BY <1>1, Writes
  <2>2. k \in req[r].left /\ req[r].pc = "writing"
        /\ doc' = [doc EXCEPT ![k] = req[r].patch[k]]
        /\ behind' = behind \cup Elsewhere(req[r].at, k[1])
    BY <2>1 DEF Wrote
  <2>3. CASE k[1] = g
    BY <1>1, <2>2, <2>3, WritersSave DEF Elsewhere, Copied
  <2>4. CASE k[1] # g
    <3>1. k \in Fields /\ req[r].patch[k] \in Values
      BY <2>2, WriteTyped
    <3>2. Part([doc EXCEPT ![k] = req[r].patch[k]], g) = Part(doc, g)
      BY <1>d, <2>4, <3>1, EditedPart
    <3> QED
      BY <2>2, <3>2
  <2> QED
    BY <2>3, <2>4
<1>2. CASE FailWrite(r)
  <2>1. req[r].pc = "writing"
    BY <1>2 DEF FailWrite
  <2>2. PICK k \in req[r].left, kept \in BOOLEAN :
          /\ doc' = IF kept THEN [doc EXCEPT ![k] = req[r].patch[k]] ELSE doc
          /\ kept => Elsewhere(req[r].at, k[1]) \subseteq behind'
    BY <1>2 DEF FailWrite
  <2>3. CASE k[1] = g /\ kept
    <3>1. Saves(req[r]) /\ g \in req[r].groups
      BY <2>1, <2>2, <2>3, WritersSave
    <3>2. \A i \in Instances : i # req[r].at => <<i, g>> \in Elsewhere(req[r].at, k[1])
      BY <2>3 DEF Elsewhere, Copied
    <3> QED
      BY <1>2, <2>2, <2>3, <3>1, <3>2
  <2>4. CASE ~(k[1] = g /\ kept)
    BY <1>d, <2>2, <2>4, WriteTyped, EditedPart
  <2> QED
    BY <2>3, <2>4
<1>3. CASE ~(WriteField(r) \/ FailWrite(r))
  <2>1. UNCHANGED doc
    BY <1>3 DEF Working, ExchangeCode, PostMessage, Refresh, Swap, ReadUploads, Reload, Migrate,
                Seed, Unchanged, PutFile, InsertFile, DeleteFile
  <2> QED
    BY <2>1
<1> QED
  BY <1>1, <1>2, <1>3

-----------------------------------------------------------------------------
\* What was read stays what the document says, unless someone crossed.
LEMMA OthersKeepReads ==
    ASSUME TypeInv, Alone, Next, NEW q \in Requests, ReadInv(q), req'[q] = req[q],
           UNCHANGED doc \/ \E r \in Requests : r # q /\ Working(r)
    PROVE  ReadInv(q)'
<1> SUFFICES ASSUME NEW g \in Copied, HasRead(q, g)', q \notin crossed'
             PROVE  req'[q].read = Part(doc', g)
  BY DEF ReadInv
<1>1. HasRead(q, g) /\ q \notin crossed
  BY CrossedGrows DEF HasRead
<1>2. req[q].read = Part(doc, g)
  BY <1>1 DEF ReadInv
<1>3. g \in req[q].groups
  <2>1. req[q].pc = "swapping" => Boots(req[q]) \/ req[q].groups = {"ai"}
    BY RequestIs, PlacesAre
  <2>2. req[q].pc = "building" => "uploads" \in req[q].groups
    BY RequestIs, PlacesAre
  <2>3. Boots(req[q]) => {"ai", "uploads"} \subseteq req[q].groups
    BY DEF Boots, BootGroups
  <2> QED
    BY <1>1, <2>1, <2>2, <2>3 DEF HasRead
<1>4. ASSUME NEW r \in Requests, r # q, Working(r) PROVE Part(doc', g) = Part(doc, g)
  <2>1. ~(Saves(req[r]) /\ g \in req[r].groups)
    BY <1>1, <1>3, <1>4 DEF Alone
  <2> QED
    BY <1>4, <2>1, WhoWrites
<1>5. Part(doc', g) = Part(doc, g)
  BY <1>4
<1> QED
  BY <1>2, <1>5

\* A boot that is early goes on with what it read.
LEMMA BootKeepsRead ==
    ASSUME TypeInv, NEW r \in Requests, Working(r), ReadInv(r), NEW x, Turns(r, x),
           Boots(req[r]), req[r].pc \in Early, req[r].kind # "blind",
           x.read = req[r].read, x.pc # "swapping", x.pc # "building"
    PROVE  ReadInv(r)'
<1>1. req'[r] = x /\ crossed \subseteq crossed'
  BY Turn, CrossedGrows, NextIs
<1>2. Part(doc', "uploads") = Part(doc, "uploads")
  BY BootsOnly, WhoWrites DEF Copied
<1>3. r \notin crossed => req[r].read = Part(doc, "uploads")
  BY DEF ReadInv, HasRead, Copied
<1> QED
  BY <1>1, <1>2, <1>3 DEF ReadInv, HasRead

\* A request that holds no read, or ends.
LEMMA NoRead ==
    ASSUME TypeInv, NEW r \in Requests, NEW x, Turns(r, x), ~Boots(x),
           x.pc # "swapping", x.pc # "building"
    PROVE  ReadInv(r)'
<1>1. req'[r] = x
  BY Turn
<1> QED
  BY <1>1 DEF ReadInv, HasRead

LEMMA WorkerKeepsRead ==
    ASSUME TypeInv, NEW r \in Requests, Working(r), ReadInv(r)
    PROVE  ReadInv(r)'
<1>y. PICK y \in RequestType : y = req[r] /\ Fits(y)
  BY RequestIs
<1>e. \A x : Rests(x) => ~Boots(x) /\ x.pc # "swapping" /\ x.pc # "building"
  BY BootsOnly DEF Rests, Rest
<1>1. CASE ExchangeCode(r)
  BY <1>1, <1>e, Exchanges, BootsOnly, NoRead
<1>2. CASE PostMessage(r)
  BY <1>2, <1>e, Posts, BootsOnly, NoRead
<1>3. CASE WriteField(r)
  <2>1. PICK k, x : Wrote(r, k, x)
    BY <1>3, Writes
  <2>2. PICK z : GoesOn(r, z)
    BY WorkingGoesOn
  <2>3. z = x
    BY <2>1, <2>2, Turn DEF Wrote, GoesOn
  <2>4. x.pc # "swapping" /\ x.pc # "building" /\ y.pc = "writing" /\ Turns(r, x)
    BY <1>y, <2>1 DEF Wrote
  <2>5. CASE ~Boots(x)
    BY <2>4, <2>5, NoRead
  <2>6. CASE Boots(x)
    <3>1. Boots(y) /\ ~Rests(x)
      BY <1>y, <2>2, <2>3, <2>6, BootsOnly DEF GoesOn
    <3>2. x.read = y.read
      BY <1>y, <2>1, <3>1 DEF Wrote
    <3>3. y.kind # "blind"
      BY <2>4, <3>1 DEF Boots, Seeds
    <3> QED
      BY <1>y, <2>4, <3>1, <3>2, <3>3, BootKeepsRead DEF Early
  <2> QED
    BY <2>5, <2>6
<1>4. CASE FailWrite(r)
  <2>1. PICK x : /\ Turns(r, x)
                 /\ \/ Rests(x)
                    \/ /\ Boots(y) /\ x.read = y.read /\ x.pc = "starting"
                       /\ Seeds(y)
    BY <1>4, <1>y, WriteFails
  <2>2. y.pc = "writing"
    BY <1>4, <1>y DEF FailWrite
  <2>3. CASE Rests(x)
    BY <1>e, <2>1, <2>3, NoRead
  <2>4. CASE ~Rests(x)
    <3>1. y.kind # "blind"
      BY <2>1, <2>4 DEF Seeds
    <3> QED
      BY <1>y, <2>1, <2>2, <2>4, <3>1, BootKeepsRead DEF Early
  <2> QED
    BY <2>3, <2>4
<1>5. CASE Refresh(r)
  <2>1. PICK x : /\ Turns(r, x) /\ x.pc = "swapping"
                 /\ (x.read = Part(doc, "ai") /\ UNCHANGED crossed) \/ r \in crossed'
    BY <1>5, Refreshes
  <2>2. req'[r] = x /\ UNCHANGED doc
    BY <1>5, <2>1, Turn DEF Refresh
  <2> QED
    BY <2>1, <2>2 DEF ReadInv, HasRead, Early
<1>6. CASE Swap(r)
  BY <1>6, <1>e, Swaps, NoRead
<1>7. CASE ReadUploads(r)
  <2>1. PICK x : /\ Turns(r, x)
                 /\ \/ Rests(x)
                    \/ x.pc = "building" /\ x.read = Part(doc, "uploads")
    BY <1>7, ReadsUploads
  <2>2. req'[r] = x /\ UNCHANGED doc
    BY <1>7, <2>1, Turn DEF ReadUploads
  <2>3. CASE Rests(x)
    BY <1>e, <2>1, <2>3, NoRead
  <2>4. CASE ~Rests(x)
    BY <2>1, <2>2, <2>4 DEF ReadInv, HasRead
  <2> QED
    BY <2>3, <2>4
<1>8. CASE Reload(r)
  <2>1. PICK x : Turns(r, x) /\ (Rests(x) \/ x.pc = "refreshing")
    BY <1>8, Reloads
  <2>2. CASE Rests(x)
    BY <1>e, <2>1, <2>2, NoRead
  <2>3. CASE ~Rests(x)
    <3>1. req'[r] = x
      BY <2>1, Turn
    <3> QED
      BY <2>1, <2>3, <3>1 DEF ReadInv, HasRead, Early
  <2> QED
    BY <2>2, <2>3
<1>9. CASE Migrate(r) \/ Seed(r)
  <2>1. Boots(y) /\ y.pc \in {"migrating", "seeding"}
    BY <1>9, <1>y, Migrates, SeedsOnce
  <2>2. y.kind # "blind"
    BY <2>1 DEF Boots
  <2>3. PICK x : /\ Turns(r, x) /\ x.read = y.read
                 /\ x.pc \in {"seeding", "writing", "starting"}
    BY <1>9, <1>y, Migrates, SeedsOnce
  <2> QED
    BY <1>y, <2>1, <2>2, <2>3, BootKeepsRead DEF Early
<1>10. CASE PutFile(r) \/ InsertFile(r) \/ DeleteFile(r)
  BY <1>10, <1>e, Puts, Inserts, Undoes, BootsOnly, NoRead
<1> QED
  BY <1>1, <1>2, <1>3, <1>4, <1>5, <1>6, <1>7, <1>8, <1>9, <1>10 DEF Working

LEMMA ReadsKept ==
    ASSUME TypeInv, Alone, \A r \in Requests : ReadInv(r), [Next]_vars
    PROVE  \A r \in Requests : ReadInv(r)'
<1>0. ASSUME NEW r \in Requests, NEW x, Turns(r, x), Next, ReadInv(r)', UNCHANGED doc
      PROVE  \A q \in Requests : ReadInv(q)'
  <2>1. ASSUME NEW q \in Requests, q # r PROVE ReadInv(q)'
    BY <1>0, <2>1, Turn, OthersKeepReads
  <2> QED
    BY <1>0, <2>1
<1>1. ASSUME NEW r \in Requests, Opening(r) PROVE \A q \in Requests : ReadInv(q)'
  <2>1. PICK x : Starts(r, x)
    BY <1>1, OpeningStarts
  <2>2. /\ Turns(r, x) /\ ~Boots(x) /\ x.pc # "swapping" /\ x.pc # "building"
        /\ UNCHANGED doc
    BY <2>1 DEF Starts
  <2>3. ReadInv(r)'
    BY <2>2, NoRead
  <2> QED
    BY <1>0, <1>1, <2>2, <2>3, NextIs
<1>2. ASSUME NEW r \in Requests, Working(r) PROVE \A q \in Requests : ReadInv(q)'
  <2>1. PICK x : Turns(r, x)
    BY <1>2, WorkingTyped
  <2>2. ReadInv(r)'
    BY <1>2, WorkerKeepsRead
  <2>3. ASSUME NEW q \in Requests, q # r PROVE ReadInv(q)'
    BY <1>2, <2>1, <2>3, Turn, OthersKeepReads, NextIs
  <2> QED
    BY <2>2, <2>3
<1>3. ASSUME NEW r \in Requests, Boot(r) PROVE \A q \in Requests : ReadInv(q)'
  <2>1. PICK x : /\ Turns(r, x) /\ Boots(x) /\ req[r].pc = "new"
                 /\ \/ x.pc = "migrating" /\ x.read = Part(doc, "uploads")
                    \/ x.pc = "starting" /\ x.kind = "blind"
    BY <1>3, BootBegins
  <2>2. req'[r] = x /\ UNCHANGED doc
    BY <1>3, <2>1, Turn DEF Boot
  <2>3. ReadInv(r)'
    BY <2>1, <2>2 DEF ReadInv, HasRead
  <2> QED
    BY <1>0, <1>3, <2>1, <2>2, <2>3, NextIs
<1>4. ASSUME NEW i \in Instances, Crash(i) PROVE \A q \in Requests : ReadInv(q)'
  <2> SUFFICES ASSUME NEW q \in Requests PROVE ReadInv(q)'
    OBVIOUS
  <2>1. UNCHANGED <<doc, crossed>>
    BY <1>4 DEF Crash
  <2>2. \/ req'[q] = req[q]
        \/ req'[q].pc = "dead"
    BY <1>4, Dies
  <2> QED
    BY <2>1, <2>2, BootsOnly DEF ReadInv, HasRead, Early
<1>5. CASE UNCHANGED vars
  BY <1>5 DEF vars, ghosts, ReadInv, HasRead
<1> QED
  BY <1>1, <1>2, <1>3, <1>4, <1>5, NextIs

-----------------------------------------------------------------------------
(* The copies follow the document.                                         *)

\* A step that has to do with neither a copy nor what is copied.
LEMMA QuietKeeps ==
    ASSUME NEW i \in Instances, NEW g \in Copied, Right(i, g),
           Shows(i, g)' => Shows(i, g),
           Part(doc', g) = Part(doc, g),
           g = "ai" => snap'[i] = snap[i], g = "uploads" => holder'[i] = holder[i],
           <<i, g>> \in behind => <<i, g>> \in behind',
           \A r \in Requests : Renews(r, i, g) => Renews(r, i, g)'
    PROVE  Right(i, g)'
<1>1. Follows(i, g) => Follows(i, g)'
  BY DEF Follows
<1> QED
  BY <1>1 DEF Right

\* ... and what becomes of the others when r takes one.
LEMMA OthersRenew ==
    ASSUME TypeInv, NEW r \in Requests, NEW x, Turns(r, x), NEW i \in Instances, NEW g \in Copied
    PROVE  /\ \A q \in Requests : q # r /\ Renews(q, i, g) => Renews(q, i, g)'
           /\ /\ i \in up' => i \in up
              /\ ~Boots(x) \/ x.pc \notin {"refreshing", "swapping"}
              => (Shows(i, g)' => Shows(i, g))
<1>1. req'[r] = x /\ \A q \in Requests : q # r => req'[q] = req[q]
  BY Turn
<1> QED
  BY <1>1 DEF Renews, Shows

LEMMA QuietStep ==
    ASSUME TypeInv, NEW r \in Requests, NEW x, Turns(r, x), AllRight,
           UNCHANGED <<doc, up, copies, behind>>, ~Half(req[r]) \/ ~Saves(req[r]),
           ~Boots(x) \/ x.pc \notin {"refreshing", "swapping"}
    PROVE  AllRight'
<1> SUFFICES ASSUME NEW i \in Instances, NEW g \in Copied PROVE Right(i, g)'
  BY DEF AllRight
<1>1. ~Renews(r, i, g)
  BY DEF Renews
<1>2. \A q \in Requests : Renews(q, i, g) => Renews(q, i, g)'
  BY <1>1, OthersRenew
<1>3. Shows(i, g)' => Shows(i, g)
  BY OthersRenew
<1>4. Right(i, g)
  BY DEF AllRight
<1> QED
  BY <1>2, <1>3, <1>4, QuietKeeps DEF copies

LEMMA PlainStepsRight ==
    ASSUME TypeInv, NEW r \in Requests, AllRight,
           \/ ExchangeCode(r) \/ PostMessage(r) \/ Uploading(r)
           \/ Migrate(r) \/ Seed(r)
    PROVE  AllRight'
<1>1. UNCHANGED <<doc, up, copies, behind>>
  BY DEF ExchangeCode, PostMessage, Uploading, PutFile, InsertFile, DeleteFile, Migrate, Seed,
         Unchanged, ghosts
<1>2. ~Half(req[r])
  BY DEF ExchangeCode, PostMessage, Uploading, PutFile, InsertFile, DeleteFile, Migrate, Seed,
         Half
<1>3. PICK x : Turns(r, x) /\ (~Boots(x) \/ x.pc \notin {"refreshing", "swapping"})
  <2>1. \A x : Rests(x) => ~Boots(x)
    BY BootsOnly
  <2>2. CASE ExchangeCode(r) \/ PostMessage(r)
    BY <2>1, <2>2, Exchanges, Posts, BootsOnly
  <2>3. CASE Uploading(r)
    BY <2>1, <2>3, Puts, Inserts, Undoes, BootsOnly DEF Uploading
  <2>4. CASE Migrate(r) \/ Seed(r)
    BY <2>4, Migrates, SeedsOnce
  <2> QED
    BY <2>2, <2>3, <2>4
<1> QED
  BY <1>1, <1>2, <1>3, QuietStep

\* A save that writes renews afterwards; one that fails leaves its copy behind.
LEMMA WriteRight ==
    ASSUME TypeInv, NEW r \in Requests, AllRight, WriteField(r)
    PROVE  AllRight'
<1> SUFFICES ASSUME NEW i \in Instances, NEW g \in Copied PROVE Right(i, g)'
  BY DEF AllRight
<1>1. UNCHANGED <<up, copies>>
  BY DEF WriteField
<1>2. PICK k, x : Wrote(r, k, x)
  BY Writes
<1>y. PICK y \in RequestType : y = req[r] /\ Fits(y)
  BY RequestIs
<1>3. req'[r] = x /\ Turns(r, x) /\ behind \subseteq behind' /\ y.pc = "writing"
  BY <1>2, <1>y, Turn DEF Wrote
<1>4. x.pc \notin {"refreshing", "swapping"} \/ ~Boots(x)
  <2>1. x.pc \in {"refreshing", "swapping"} => Saves(y) /\ y.groups = {"ai"} /\ SameWork(x, y)
    BY <1>2, <1>y DEF Wrote, Rests, Rest
  <2> QED
    BY <2>1 DEF SameWork, Boots, BootGroups
<1>5. Saves(y) /\ g \in y.groups => /\ Renews(r, y.at, g)'
  <2> SUFFICES ASSUME Saves(y), g \in y.groups PROVE Renews(r, y.at, g)'
    OBVIOUS
  <2>1. SameWork(x, y) /\ x.left = y.left \ {k} /\ k \in y.left
    BY <1>2, <1>y DEF Wrote, Copied
  <2>2. /\ x.kind = y.kind /\ x.at = y.at /\ x.groups = y.groups /\ x.patch = y.patch
    BY <2>1 DEF SameWork
  <2>3. k \in DOMAIN y.patch
    BY <1>y, <2>1 DEF Fits
  <2>4. ~Boots(y)
    BY BootsOnly
  <2>5. \/ y.left # {k} /\ x.pc = "writing"
        \/ y.left = {k} /\ y.groups = {"ai"} /\ x.pc = "refreshing"
        \/ y.left = {k} /\ "uploads" \in y.groups /\ x.pc = "reloading"
    <3>1. ~Seeds(y)
      BY <1>y, <2>4, PlacesAre
    <3> QED
      BY <1>2, <1>y, <3>1 DEF Wrote, Copied
  <2>6. Half(x)
    BY <2>1, <2>2, <2>3, <2>5 DEF Half
  <2>7. Saves(x)
    BY <2>1, <2>2, <2>5 DEF Saves
  <2> QED
    BY <1>3, <2>2, <2>6, <2>7 DEF Renews
<1>6. CASE Saves(y) /\ g \in y.groups /\ i = y.at
  BY <1>5, <1>6 DEF Right
<1>7. CASE ~(Saves(y) /\ g \in y.groups /\ i = y.at)
  <2>1. \A q \in Requests : Renews(q, i, g) => Renews(q, i, g)'
    BY <1>3, <1>7, <1>y, OthersRenew DEF Renews
  <2>2. Shows(i, g)' => Shows(i, g)
    BY <1>1, <1>3, <1>4, OthersRenew
  <2>3. Part(doc', g) = Part(doc, g) \/ <<i, g>> \in behind'
    BY <1>7, <1>y, WhoWrites DEF Working
  <2>4. Right(i, g)
    BY DEF AllRight
  <2>5. CASE <<i, g>> \in behind'
    BY <2>5 DEF Right
  <2>6. CASE Part(doc', g) = Part(doc, g)
    BY <1>1, <1>3, <2>1, <2>2, <2>4, <2>6, QuietKeeps DEF copies
  <2> QED
    BY <2>3, <2>5, <2>6
<1> QED
  BY <1>6, <1>7

LEMMA FailRight ==
    ASSUME TypeInv, NEW r \in Requests, AllRight, FailWrite(r)
    PROVE  AllRight'
<1> SUFFICES ASSUME NEW i \in Instances, NEW g \in Copied PROVE Right(i, g)'
  BY DEF AllRight
<1>1. UNCHANGED <<up, copies>>
  BY DEF FailWrite
<1>y. PICK y \in RequestType : y = req[r] /\ Fits(y)
  BY RequestIs
<1>2. PICK x : Turns(r, x) /\ (~Boots(x) \/ x.pc \notin {"refreshing", "swapping"})
  BY WriteFails, BootsOnly
<1>3. PICK k \in y.left, kept \in BOOLEAN :
        LET half == kept \/ y.left # DOMAIN y.patch IN
        /\ doc' = IF kept THEN [doc EXCEPT ![k] = y.patch[k]] ELSE doc
        /\ behind' = behind \cup (IF kept THEN Elsewhere(y.at, k[1]) ELSE {})
                     \cup IF half THEN {y.at} \X (Groups(y.patch) \cap {"ai", "uploads"})
                          ELSE {}
  BY <1>y DEF FailWrite
<1>4. y.pc = "writing" /\ behind \subseteq behind'
  BY <1>3, <1>y DEF FailWrite
<1>5. Saves(y) /\ g \in y.groups => g \in Groups(y.patch) \cap {"ai", "uploads"}
  BY DEF Saves, Copied
<1>6. CASE /\ Saves(y) /\ g \in y.groups /\ i = y.at
           /\ kept \/ y.left # DOMAIN y.patch
  BY <1>3, <1>5, <1>6 DEF Right
<1>7. CASE ~(/\ Saves(y) /\ g \in y.groups /\ i = y.at
             /\ kept \/ y.left # DOMAIN y.patch)
  <2>1. \A q \in Requests : Renews(q, i, g) => Renews(q, i, g)'
    BY <1>2, <1>4, <1>7, <1>y, OthersRenew DEF Renews, Half
  <2>2. Shows(i, g)' => Shows(i, g)
    BY <1>1, <1>2, OthersRenew
  <2>3. Part(doc', g) = Part(doc, g) \/ <<i, g>> \in behind'
    <3>1. CASE ~kept
      BY <1>3, <3>1
    <3>2. CASE kept
      BY <1>7, <1>y, <3>2, WhoWrites DEF Working
    <3> QED
      BY <3>1, <3>2
  <2>4. Right(i, g)
    BY DEF AllRight
  <2>5. CASE <<i, g>> \in behind'
    BY <2>5 DEF Right
  <2>6. CASE Part(doc', g) = Part(doc, g)
    BY <1>1, <1>4, <2>1, <2>2, <2>4, <2>6, QuietKeeps DEF copies
  <2> QED
    BY <2>3, <2>5, <2>6
<1> QED
  BY <1>6, <1>7

-----------------------------------------------------------------------------
\* Renewals.
LEMMA RefreshRight ==
    ASSUME TypeInv, NEW r \in Requests, AllRight, Refresh(r)
    PROVE  AllRight'
<1> SUFFICES ASSUME NEW i \in Instances, NEW g \in Copied PROVE Right(i, g)'
  BY DEF AllRight
<1>1. UNCHANGED <<doc, up, copies, behind>> /\ req[r].pc = "refreshing"
  BY DEF Refresh
<1>2. PICK x : /\ Turns(r, x) /\ SameWork(x, req[r]) /\ x.pc = "swapping"
               /\ (Saves(req[r]) => Saves(x))
  BY Refreshes
<1>3. req'[r] = x /\ \A q \in Requests : q # r => req'[q] = req[q]
  BY <1>2, Turn
<1>4. \A q \in Requests : Renews(q, i, g) => Renews(q, i, g)'
  BY <1>2, <1>3 DEF Renews, SameWork, Half
<1>5. Shows(i, g)' => Shows(i, g)
  <2>1. PICK z : GoesOn(r, z)
    BY WorkingGoesOn DEF Working
  <2>2. z = x /\ ~Rests(x)
    BY <1>2, <1>3, <2>1, Turn DEF GoesOn, Rests, Rest
  <2>3. Boots(x) => Boots(req[r]) /\ x.at = req[r].at
    BY <2>1, <2>2 DEF GoesOn
  <2> QED
    BY <1>1, <1>3, <2>3 DEF Shows
<1>6. Right(i, g)
  BY DEF AllRight
<1> QED
  BY <1>1, <1>4, <1>5, <1>6, QuietKeeps DEF copies

LEMMA SwapRight ==
    ASSUME TypeInv, NEW r \in Requests, AllRight, Placed(r), ReadInv(r), Swap(r)
    PROVE  AllRight'
<1> SUFFICES ASSUME NEW i \in Instances, NEW g \in Copied PROVE Right(i, g)'
  BY DEF AllRight
<1>y. PICK y \in RequestType : y = req[r] /\ Fits(y)
  BY RequestIs
<1>1. /\ y.pc = "swapping" /\ up' = up \cup {y.at} /\ UNCHANGED <<doc, holder, crossed>>
      /\ snap' = [snap EXCEPT ![y.at] = y.read] /\ behind' = Renewed(r, "ai", TRUE)
  BY <1>y DEF Swap
<1>2. y.at \in Instances /\ (Boots(y) \/ (Saves(y) /\ y.groups = {"ai"}))
  BY <1>y, Swaps
<1>3. PICK x : Turns(r, x) /\ ~Boots(x)
  BY Swaps, BootsOnly
<1>s. snap \in [Instances -> Parts("ai")]
  BY DEF TypeInv, StoreTyped
<1>4. CASE i = y.at /\ g = "ai"
  <2>1. CASE r \in crossed
    BY <1>1, <1>4, <1>y, <2>1 DEF Renewed, Right
  <2>2. CASE r \notin crossed
    <3>1. y.read = Part(doc, "ai")
      BY <1>1, <1>y, <2>2 DEF ReadInv, HasRead, Copied
    <3>2. Follows(i, g)'
      BY <1>1, <1>2, <1>4, <1>s, <3>1 DEF Follows
    <3> QED
      BY <3>2 DEF Right
  <2> QED
    BY <2>1, <2>2
<1>5. CASE ~(i = y.at /\ g = "ai")
  <2>1. <<i, g>> \in behind => <<i, g>> \in behind'
    BY <1>1, <1>5, <1>y DEF Renewed
  <2>2. \A q \in Requests : Renews(q, i, g) => Renews(q, i, g)'
    <3>1. ~Renews(r, i, g)
      BY <1>2, <1>5, <1>y, BootsOnly DEF Renews
    <3> QED
      BY <1>3, <3>1, OthersRenew
  <2>3. Shows(i, g)' => Shows(i, g)
    <3>1. CASE i # y.at
      BY <1>1, <1>3, <3>1, OthersRenew
    <3>2. CASE i = y.at /\ g = "uploads"
      <4>1. Boots(y) => Shows(i, g)
        BY <1>1, <1>y, <3>2 DEF Shows
      <4>2. ~Boots(y) => i \in up
        BY <1>2, <1>y, <3>2, PlacesAre, BootsOnly DEF Placed, Saves, Rests
      <4> QED
        BY <4>1, <4>2 DEF Shows
    <3> QED
      BY <1>5, <3>1, <3>2 DEF Copied
  <2>4. g = "ai" => snap'[i] = snap[i]
    BY <1>1, <1>2, <1>5, <1>s
  <2>5. Right(i, g)
    BY DEF AllRight
  <2> QED
    BY <1>1, <2>1, <2>2, <2>3, <2>4, <2>5, QuietKeeps
<1> QED
  BY <1>4, <1>5

LEMMA ReadUploadsRight ==
    ASSUME TypeInv, NEW r \in Requests, AllRight, ReadUploads(r)
    PROVE  AllRight'
<1> SUFFICES ASSUME NEW i \in Instances, NEW g \in Copied PROVE Right(i, g)'
  BY DEF AllRight
<1>y. PICK y \in RequestType : y = req[r] /\ Fits(y)
  BY RequestIs
<1>1. UNCHANGED <<doc, up, copies>> /\ y.pc = "reloading"
  BY <1>y DEF ReadUploads
<1>2. /\ Saves(y) /\ "uploads" \in y.groups /\ y.at \in Instances
      /\ \/ \E x : /\ Turns(r, x) /\ SameWork(x, y) /\ x.pc = "building" /\ Saves(x)
                   /\ UNCHANGED behind
         \/ /\ \E x : Turns(r, x) /\ Rests(x)
            /\ behind' = behind \cup {<<y.at, "uploads">>}
  BY <1>y, ReadsUploads
<1>3. Right(i, g)
  BY DEF AllRight
<1>4. CASE \E x : /\ Turns(r, x) /\ SameWork(x, y) /\ x.pc = "building" /\ Saves(x)
                  /\ UNCHANGED behind
  <2>1. PICK x : /\ Turns(r, x) /\ SameWork(x, y) /\ x.pc = "building" /\ Saves(x)
                 /\ UNCHANGED behind
    BY <1>4
  <2>2. req'[r] = x
    BY <2>1, Turn
  <2>3. Renews(r, i, g) => Renews(r, i, g)'
    BY <1>y, <2>1, <2>2 DEF Renews, SameWork, Half
  <2>4. \A q \in Requests : Renews(q, i, g) => Renews(q, i, g)'
    BY <2>1, <2>3, OthersRenew
  <2>5. Shows(i, g)' => Shows(i, g)
    BY <1>1, <2>1, OthersRenew
  <2> QED
    BY <1>1, <1>3, <2>1, <2>4, <2>5, QuietKeeps DEF copies
<1>5. CASE /\ \E x : Turns(r, x) /\ Rests(x)
           /\ behind' = behind \cup {<<y.at, "uploads">>}
  <2>1. PICK x : Turns(r, x) /\ Rests(x) /\ ~Boots(x)
    BY <1>5, BootsOnly
  <2>2. CASE i = y.at /\ g = "uploads"
    BY <1>5, <2>2 DEF Right
  <2>3. CASE ~(i = y.at /\ g = "uploads")
    <3>1. ~Renews(r, i, g)
      <4>1. "ai" \notin y.groups
        BY <1>2 DEF Saves
      <4> QED
        BY <1>y, <2>3, <4>1 DEF Renews, Copied
    <3>2. \A q \in Requests : Renews(q, i, g) => Renews(q, i, g)'
      BY <2>1, <3>1, OthersRenew
    <3>3. Shows(i, g)' => Shows(i, g)
      BY <1>1, <2>1, OthersRenew
    <3> QED
      BY <1>1, <1>3, <1>5, <3>2, <3>3, QuietKeeps DEF copies
  <2> QED
    BY <2>2, <2>3
<1> QED
  BY <1>2, <1>4, <1>5

LEMMA ReloadRight ==
    ASSUME TypeInv, NEW r \in Requests, AllRight, ReadInv(r), Reload(r)
    PROVE  AllRight'
<1> SUFFICES ASSUME NEW i \in Instances, NEW g \in Copied PROVE Right(i, g)'
  BY DEF AllRight
<1>y. PICK y \in RequestType : y = req[r] /\ Fits(y)
  BY RequestIs
<1>1. /\ UNCHANGED <<doc, up, snap, crossed>>
      /\ behind' = Renewed(r, "uploads", y.kind # "blind")
  BY <1>y DEF Reload
<1>2. PICK built \in BOOLEAN :
         /\ holder' = [holder EXCEPT ![y.at] = Reloaded(@, y.read, built)]
  BY <1>y DEF Reload
<1>3. /\ y.at \in Instances /\ y.read \in Parts("uploads")
      /\ \/ y.pc = "building" /\ Saves(y) /\ "uploads" \in y.groups
         \/ y.pc = "starting" /\ Boots(y)
  BY <1>y, Reloads
<1>4. PICK x : /\ Turns(r, x)
               /\ \/ Rests(x)
                  \/ Boots(x) /\ SameWork(x, y)
  BY <1>y, Reloads
<1>h. holder \in [Instances -> HolderType]
  BY DEF TypeInv, StoreTyped
<1>5. CASE i = y.at /\ g = "uploads"
  <2>1. CASE r \in crossed \/ y.kind = "blind"
    BY <1>1, <1>5, <1>y, <2>1 DEF Renewed, Right
  <2>2. CASE r \notin crossed /\ y.kind # "blind"
    <3>1. y.read = Part(doc, "uploads")
      BY <1>3, <1>y, <2>2 DEF ReadInv, HasRead, Copied, Early
    <3>2. holder'[i] = Reloaded(holder[i], y.read, built)
      BY <1>2, <1>3, <1>5, <1>h
    <3>3. Follows(i, g)'
      BY <1>1, <1>5, <3>1, <3>2 DEF Follows, Reloaded
    <3> QED
      BY <3>3 DEF Right
  <2> QED
    BY <2>1, <2>2
<1>6. CASE ~(i = y.at /\ g = "uploads")
  <2>1. <<i, g>> \in behind => <<i, g>> \in behind'
    BY <1>1, <1>6, <1>y DEF Renewed
  <2>2. \A q \in Requests : Renews(q, i, g) => Renews(q, i, g)'
    <3>1. ~Renews(r, i, g)
      <4>1. Saves(y) /\ "uploads" \in y.groups => "ai" \notin y.groups
        BY DEF Saves
      <4> QED
        BY <1>3, <1>6, <1>y, <4>1, BootsOnly DEF Renews, Copied
    <3> QED
      BY <1>4, <3>1, OthersRenew
  <2>3. Shows(i, g)' => Shows(i, g)
    <3>1. CASE g = "ai"
      BY <1>1, <3>1 DEF Shows
    <3>2. CASE g # "ai"
      <4>1. i # y.at
        BY <1>6, <3>2 DEF Copied
      <4>2. req'[r] = x /\ \A q \in Requests : q # r => req'[q] = req[q]
        BY <1>4, Turn
      <4>3. Boots(x) => x.at = y.at
        BY <1>4, BootsOnly DEF SameWork
      <4> QED
        BY <1>1, <4>1, <4>2, <4>3 DEF Shows
    <3> QED
      BY <3>1, <3>2
  <2>4. g = "uploads" => holder'[i] = holder[i]
    BY <1>2, <1>3, <1>6, <1>h
  <2>5. Right(i, g)
    BY DEF AllRight
  <2> QED
    BY <1>1, <2>1, <2>2, <2>3, <2>4, <2>5, QuietKeeps
<1> QED
  BY <1>5, <1>6

LEMMA CrashRight ==
    ASSUME TypeInv, NEW c \in Instances, AllRight, Crash(c)
    PROVE  AllRight'
<1> SUFFICES ASSUME NEW i \in Instances, NEW g \in Copied PROVE Right(i, g)'
  BY DEF AllRight
<1>1. UNCHANGED <<doc, behind>> /\ up' = up \ {c}
  BY DEF Crash
<1>2. \A r \in Requests : IF req[r].at = c THEN Rests(req'[r]) ELSE req'[r] = req[r]
  BY Dies
<1>3. CASE i = c
  <2>1. \A r \in Requests : ~(Boots(req'[r]) /\ req'[r].at = c)
    BY <1>2, BootsOnly
  <2>2. ~Shows(i, g)'
    BY <1>1, <1>3, <2>1 DEF Shows
  <2> QED
    BY <2>2 DEF Right
<1>4. CASE i # c
  <2>1. \A q \in Requests : Renews(q, i, g) => Renews(q, i, g)'
    BY <1>2, <1>4 DEF Renews
  <2>2. Shows(i, g)' => Shows(i, g)
    BY <1>1, <1>2, <1>4, BootsOnly DEF Shows
  <2>3. snap'[i] = snap[i] /\ holder'[i] = holder[i]
    BY <1>4 DEF Crash, TypeInv, StoreTyped
  <2>4. Right(i, g)
    BY DEF AllRight
  <2> QED
    BY <1>1, <2>1, <2>2, <2>3, <2>4, QuietKeeps
<1> QED
  BY <1>3, <1>4

LEMMA InitRight == Init => AllRight
<1> SUFFICES ASSUME Init, NEW i \in Instances, NEW g \in Copied, Shows(i, g)
             PROVE  Follows(i, g)
  BY DEF AllRight, Right
<1>1. \A r \in Requests : req[r].pc = "new"
  BY DEF Init, Fresh
<1>2. i \in up
  BY <1>1 DEF Shows
<1> QED
  BY <1>2 DEF Init, Follows, Reloaded

LEMMA RightKept ==
    ASSUME TypeInv, AllRight, \A r \in Requests : Placed(r) /\ ReadInv(r), [Next]_vars
    PROVE  AllRight'
<1>1. ASSUME NEW r \in Requests, Opening(r) PROVE AllRight'
  <2>1. PICK x : Starts(r, x)
    BY <1>1, OpeningStarts
  <2> QED
    BY <2>1, QuietStep DEF Starts, Half
<1>2. ASSUME NEW r \in Requests, Working(r) PROVE AllRight'
  BY <1>2, PlainStepsRight, WriteRight, FailRight, RefreshRight, SwapRight,
     ReadUploadsRight, ReloadRight DEF Working, Uploading
<1>3. ASSUME NEW r \in Requests, Boot(r) PROVE AllRight'
  <2>1. PICK x : Turns(r, x) /\ req[r].pc = "new" /\ x.pc \in {"migrating", "starting"}
    BY <1>3, BootBegins
  <2>2. UNCHANGED <<doc, up, copies, behind>>
    BY <1>3 DEF Boot
  <2> QED
    BY <2>1, <2>2, QuietStep DEF Half
<1>4. ASSUME NEW i \in Instances, Crash(i) PROVE AllRight'
  BY <1>4, CrashRight
<1>5. CASE UNCHANGED vars
  BY <1>5 DEF vars, copies, ghosts, AllRight, Right, Shows, Follows, Renews
<1> QED
  BY <1>1, <1>2, <1>3, <1>4, <1>5, NextIs

\* What an instance works with is what the document says, once the save that it served,
\* or its boot, is over and met neither a failure nor another on the same group
\* (Worker.Refresh, storage.Holder.Reload, and the handlers and main that call them).
THEOREM InstancesFollowTheDocument == Spec => []InstancesFollow
<1> DEFINE Inv == /\ TypeInv /\ Alone /\ AllRight
                  /\ \A r \in Requests : Placed(r) /\ ReadInv(r)
<1>1. Init => Inv
  <2> SUFFICES ASSUME Init PROVE Inv
    OBVIOUS
  <2>1. TypeInv /\ AllRight
    BY InitTyped, InitRight
  <2>2. \A r \in Requests : req[r].pc = "new" /\ req[r].groups = {}
    BY DEF Init, Fresh
  <2>3. \A r \in Requests : Rests(req[r])
    BY <2>1, <2>2, RequestIs, PlacesAre DEF Rest
  <2>4. Alone
    BY <2>2 DEF Alone
  <2>5. \A r \in Requests : Placed(r) /\ ReadInv(r)
    BY <2>2, <2>3, BootsOnly DEF Placed, ReadInv, HasRead
  <2> QED
    BY <2>1, <2>4, <2>5
<1>2. Inv /\ [Next]_vars => Inv'
  BY NextTyped, AloneKept, PlacedKept, ReadsKept, RightKept
<1>3. Inv => InstancesFollow
  <2> SUFFICES ASSUME Inv, NEW i \in up PROVE
         /\ Renewing("ai") \/ <<i, "ai">> \in behind \/ Follows(i, "ai")
         /\ Renewing("uploads") \/ <<i, "uploads">> \in behind \/ Follows(i, "uploads")
    BY DEF InstancesFollow, Follows
  <2>1. i \in Instances
    BY DEF TypeInv, StoreTyped
  <2>2. ASSUME NEW g \in Copied
        PROVE  Renewing(g) \/ <<i, g>> \in behind \/ Follows(i, g)
    BY <2>1 DEF AllRight, Right, Shows, Renews, Renewing
  <2> QED
    BY <2>2 DEF Copied
<1> HIDE DEF Inv
<1> QED
  BY <1>1, <1>2, <1>3, PTL DEF Spec

-----------------------------------------------------------------------------
(* Settings hold together.                                                 *)

\* Two documents that differ in no field of g but the Slack app's credentials, which
\* no other field goes with.
Alike(d, e, g) == \A k \in Fields : k[1] = g /\ k # App => d[k] = e[k]

\* A save that wrote a part of its patch.
Amid(r, g) == LET q == req[r] IN
              /\ q.pc = "writing" /\ q.left # DOMAIN q.patch
              /\ g \in q.groups \cap Groups(q.patch)
WholeInv == \A g \in AllGroups : g \in torn \/ Whole(doc, g) \/ \E r \in Requests : Amid(r, g)

\* What a request that has crossed nobody can count on: its patch will leave the groups
\* whole that are not torn as it is, and what it wrote stands.
Counted(q, d, t) ==
    /\ q.pc \in {"writing", "posting"} =>
          \A g \in q.groups \cap Groups(q.patch) :
             Whole(Merged(q.patch, d), g) \/ (q.kind # "save" /\ g \in t)
    /\ q.pc = "writing" =>
          \A k \in DOMAIN q.patch \ q.left : k[1] \in q.groups /\ k # App => d[k] = q.patch[k]
CountInv(r) == r \notin crossed => Counted(req[r], doc, torn)

LEMMA WholeDepends ==
    ASSUME NEW d \in Document, NEW e \in Document, NEW g \in AllGroups, Alike(d, e, g)
    PROVE  Whole(d, g) <=> Whole(e, g)
<1>1. CASE g \in Switches
  <2>1. /\ <<g, "enabled">> \in Fields /\ <<g, "value">> \in Fields
        /\ <<g, "enabled">> # App /\ <<g, "value">> # App
    BY <1>1, FieldsAre DEF App
  <2>2. d[<<g, "enabled">>] = e[<<g, "enabled">>] /\ d[<<g, "value">>] = e[<<g, "value">>]
    BY <2>1 DEF Alike
  <2>3. g \notin {"uploads", "slack", "github", "templates"}
    BY <1>1 DEF Switches
  <2> QED
    BY <1>1, <2>2, <2>3 DEF Whole, Usable
<1>2. CASE g = "uploads"
  <2>1. \A n \in {"enabled", "backend", "bucket"} :
           d[<<"uploads", n>>] = e[<<"uploads", n>>]
    BY <1>2, FieldsAre DEF Alike, App
  <2> QED
    BY <1>2, <2>1 DEF Whole, Usable, Switches
<1>3. CASE g = "slack"
  <2>1. \A n \in {"webhook", "token", "error"} : d[<<"slack", n>>] = e[<<"slack", n>>]
    BY <1>3, FieldsAre DEF Alike, App, Error
  <2> QED
    BY <1>3, <2>1 DEF Whole, Usable, Switches
<1>4. CASE g = "github"
  <2>1. \A n \in {"repo", "token"} : d[<<"github", n>>] = e[<<"github", n>>]
    BY <1>4, FieldsAre DEF Alike, App
  <2> QED
    BY <1>4, <2>1 DEF Whole, Usable, Switches
<1>5. CASE g = "templates"
  BY <1>5 DEF Whole, Usable, Switches
<1> QED
  BY <1>1, <1>2, <1>3, <1>4, <1>5 DEF AllGroups

LEMMA MergedAlike ==
    ASSUME NEW p \in PatchType, NEW d \in Document, NEW e \in Document, NEW g, Alike(d, e, g)
    PROVE  Alike(Merged(p, d), Merged(p, e), g)
BY MergedTyped DEF Alike

\* A document is what a patch makes of it once all the patch's fields are in it.
LEMMA AllWritten ==
    ASSUME NEW p \in PatchType, NEW d \in Document, NEW g,
           \A k \in DOMAIN p : k[1] = g /\ k # App => d[k] = p[k]
    PROVE  Alike(Merged(p, d), d, g)
BY MergedTyped DEF Alike

\* A field of the patch makes no difference to what the patch makes of the document.
LEMMA MergedEdited ==
    ASSUME NEW p \in PatchType, NEW d \in Document, NEW k \in DOMAIN p, NEW g
    PROVE  Alike(Merged(p, [d EXCEPT ![k] = p[k]]), Merged(p, d), g)
<1>1. k \in Fields /\ p[k] \in Values
  BY PatchIs
<1>2. PICK e \in Document : /\ e = [d EXCEPT ![k] = p[k]]
                            /\ \A f \in Fields : f # k => e[f] = d[f]
  <2>1. [d EXCEPT ![k] = p[k]] \in Document
        /\ \A f \in Fields : f # k => [d EXCEPT ![k] = p[k]][f] = d[f]
    BY <1>1, Edited
  <2> QED
    BY <2>1
<1>3. ASSUME NEW f \in Fields PROVE Merged(p, e)[f] = Merged(p, d)[f]
  <2>1. Merged(p, e)[f] = IF f \in DOMAIN p THEN p[f] ELSE e[f]
    BY MergedTyped
  <2>2. Merged(p, d)[f] = IF f \in DOMAIN p THEN p[f] ELSE d[f]
    BY MergedTyped
  <2>3. f \notin DOMAIN p => e[f] = d[f]
    BY <1>2
  <2> QED
    BY <2>1, <2>2, <2>3
<1> QED
  BY <1>2, <1>3 DEF Alike

LEMMA EditedAlike ==
    ASSUME NEW d \in Document, NEW k \in Fields, NEW v \in Values, NEW g, k[1] # g \/ k = App
    PROVE  Alike([d EXCEPT ![k] = v], d, g)
BY Edited DEF Alike

\* Whose fields a write touches.
LEMMA WritersOwn ==
    ASSUME TypeInv, NEW r \in Requests, req[r].pc = "writing"
    PROVE  /\ \A k \in req[r].left : k[1] \in req[r].groups \/ k = App
           /\ \A k \in req[r].left : k[1] \notin req[r].groups => SavesApp(req[r])
           /\ req[r].kind = "save" => req[r].groups = Groups(req[r].patch)
           /\ Groups(req[r].patch) \subseteq req[r].groups \/ SavesApp(req[r])
<1>1. PICK y \in RequestType : y = req[r] /\ Fits(y)
  BY RequestIs
<1>2. \A k \in y.left : k \in DOMAIN y.patch /\ k[1] \in Groups(y.patch)
  BY <1>1, WriteTyped
<1>3. Saves(y) \/ SavesApp(y) \/ Notices(y) \/ Seeds(y)
  BY <1>1, PlacesAre
<1>4. CASE Saves(y)
  BY <1>1, <1>2, <1>4 DEF Saves
<1>5. CASE SavesApp(y)
  BY <1>1, <1>2, <1>5 DEF SavesApp
<1>6. CASE Notices(y)
  <2>1. Groups(y.patch) = {"slack"}
    BY <1>6 DEF Notices, Groups, Error
  <2>2. y.kind # "save"
    BY <1>6 DEF Notices, Kinds
  <2> QED
    BY <1>1, <1>2, <1>6, <2>1, <2>2 DEF Notices
<1>7. CASE Seeds(y)
  <2>1. Groups(y.patch) = {"templates"} /\ y.kind # "save"
    BY <1>7 DEF Seeds, Groups, ByLang
  <2>2. "templates" \in y.groups
    BY <1>1, <1>7, PlacesAre DEF Boots, BootGroups
  <2> QED
    BY <1>1, <1>2, <2>1, <2>2
<1> QED
  BY <1>3, <1>4, <1>5, <1>6, <1>7

\* Only a request that is at work on g makes a difference to it.
LEMMA WhoTouches ==
    ASSUME TypeInv, NEW r \in Requests, Working(r), NEW g \in AllGroups, g \notin req[r].groups
    PROVE  Alike(doc', doc, g) /\ (g \in torn => g \in torn')
<1>d. doc \in Document
  BY DEF TypeInv, StoreTyped
<1>1. CASE WriteField(r)
  <2>1. PICK k, x : Wrote(r, k, x)
    BY <1>1, Writes
  <2>2. /\ k \in req[r].left /\ req[r].pc = "writing"
        /\ doc' = [doc EXCEPT ![k] = req[r].patch[k]]
        /\ torn' = torn \/ torn' = Written(r)
    BY <2>1 DEF Wrote
  <2>3. k[1] # g \/ k = App
    BY <2>2, WritersOwn
  <2>4. k \in Fields /\ req[r].patch[k] \in Values
    BY <2>2, WriteTyped
  <2>5. Alike([doc EXCEPT ![k] = req[r].patch[k]], doc, g)
    BY <1>d, <2>3, <2>4, EditedAlike
  <2>6. g \in torn => g \in Written(r)
    BY <2>2, WritersOwn DEF Written
  <2> QED
    BY <2>2, <2>5, <2>6
<1>2. CASE FailWrite(r)
  <2>1. req[r].pc = "writing" /\ torn \subseteq torn'
    BY <1>2 DEF FailWrite
  <2>2. PICK k \in req[r].left :
           doc' = [doc EXCEPT ![k] = req[r].patch[k]] \/ doc' = doc
    BY <1>2 DEF FailWrite
  <2>3. k[1] # g \/ k = App
    BY <2>1, <2>2, WritersOwn
  <2>4. k \in Fields /\ req[r].patch[k] \in Values
    BY <2>2, WriteTyped
  <2>5. Alike([doc EXCEPT ![k] = req[r].patch[k]], doc, g)
    BY <1>d, <2>3, <2>4, EditedAlike
  <2>6. Alike(doc, doc, g)
    BY DEF Alike
  <2> QED
    BY <2>1, <2>2, <2>5, <2>6
<1>3. CASE ~(WriteField(r) \/ FailWrite(r))
  <2>1. UNCHANGED doc /\ torn \subseteq torn'
    BY <1>3 DEF Working, ExchangeCode, PostMessage, Refresh, Swap, ReadUploads, Reload, Migrate,
                Seed, Unchanged, PutFile, InsertFile, DeleteFile, ghosts
  <2> QED
    BY <2>1 DEF Alike
<1> QED
  BY <1>1, <1>2, <1>3

-----------------------------------------------------------------------------
\* What a request counts on depends on its groups only.
LEMMA CountedDepends ==
    ASSUME NEW q \in RequestType, Fits(q), NEW d \in Document, NEW e \in Document, NEW t, NEW u,
           Counted(q, d, t),
           \A g \in q.groups : Alike(e, d, g) /\ (g \in t => g \in u)
    PROVE  Counted(q, e, u)
<1>1. q.groups \subseteq AllGroups /\ q.patch \in PatchType
  BY DEF RequestType
<1>2. ASSUME q.pc \in {"writing", "posting"}, NEW g \in q.groups \cap Groups(q.patch)
      PROVE  Whole(Merged(q.patch, e), g) \/ (q.kind # "save" /\ g \in u)
  <2>1. CASE q.kind # "save" /\ g \in t
    BY <1>2, <2>1
  <2>2. CASE Whole(Merged(q.patch, d), g)
    <3>1. Alike(Merged(q.patch, e), Merged(q.patch, d), g)
      BY <1>1, <1>2, MergedAlike
    <3>2. Merged(q.patch, e) \in Document /\ Merged(q.patch, d) \in Document
      BY <1>1, MergedTyped
    <3> QED
      BY <1>1, <2>2, <3>1, <3>2, WholeDepends
  <2> QED
    BY <1>2, <2>1, <2>2 DEF Counted
<1>3. ASSUME q.pc = "writing", NEW k \in DOMAIN q.patch \ q.left, k[1] \in q.groups, k # App
      PROVE  e[k] = q.patch[k]
  <2>1. k \in Fields /\ d[k] = q.patch[k]
    BY <1>1, <1>3, PatchIs DEF Counted
  <2> QED
    BY <1>3, <2>1 DEF Alike
<1> QED
  BY <1>2, <1>3 DEF Counted

LEMMA OthersCount ==
    ASSUME TypeInv, TypeInv', Alone, Next, NEW q \in Requests, CountInv(q), req'[q] = req[q],
           UNCHANGED <<doc, torn>> \/ \E r \in Requests : r # q /\ Working(r)
    PROVE  CountInv(q)'
<1> SUFFICES ASSUME q \notin crossed' PROVE Counted(req[q], doc', torn')
  BY DEF CountInv
<1>1. q \notin crossed /\ Counted(req[q], doc, torn)
  BY CrossedGrows DEF CountInv
<1>2. req[q] \in RequestType /\ Fits(req[q]) /\ doc \in Document /\ doc' \in Document
  BY RequestIs DEF TypeInv, StoreTyped
<1>3. req[q].groups \subseteq AllGroups
  BY <1>2 DEF RequestType
<1>4. ASSUME NEW g \in req[q].groups
      PROVE  Alike(doc', doc, g) /\ (g \in torn => g \in torn')
  <2>1. CASE UNCHANGED <<doc, torn>>
    BY <2>1 DEF Alike
  <2>2. ASSUME NEW r \in Requests, r # q, Working(r)
        PROVE  Alike(doc', doc, g) /\ (g \in torn => g \in torn')
    <3>1. g \notin req[r].groups
      BY <1>1, <1>4, <2>2 DEF Alone
    <3> QED
      BY <1>3, <2>2, <3>1, WhoTouches
  <2> QED
    BY <2>1, <2>2
<1> QED
  BY <1>1, <1>2, <1>4, CountedDepends

-----------------------------------------------------------------------------
\* What a request counts on when it begins or goes on with the whole of its patch ahead.
LEMMA BeginsToCount ==
    ASSUME TypeInv, NEW r \in Requests, NEW x, Turns(r, x), x.left = DOMAIN x.patch,
           TypeInv',
           r \notin crossed' =>
              \A g \in x.groups \cap Groups(x.patch) :
                 Whole(Merged(x.patch, doc'), g) \/ (x.kind # "save" /\ g \in torn')
    PROVE  CountInv(r)'
<1>1. req'[r] = x
  BY Turn
<1> QED
  BY <1>1 DEF CountInv, Counted

LEMMA RestsToCount ==
    ASSUME TypeInv, NEW r \in Requests, NEW x, Turns(r, x),
           x.pc \notin {"writing", "posting"}
    PROVE  CountInv(r)'
<1>1. req'[r] = x
  BY Turn
<1> QED
  BY <1>1 DEF CountInv, Counted

\* What the handlers let through leaves every group whole.
LEMMA ValidIsWhole ==
    ASSUME TypeInv, NEW p \in Patches, Valid(p), NEW g \in Groups(p)
    PROVE  Whole(Merged(p, doc), g)
<1>1. Usable(Merged(p, doc), g)
  BY DEF Valid, Checked
<1>2. g # "slack" /\ g # "github" /\ p \in PatchType
  BY PatchesAre
<1> QED
  BY <1>1, <1>2 DEF Whole

LEMMA NoUsable == \A d : Usable(d, "slack") /\ Usable(d, "github") /\ Usable(d, "templates")
BY DEF Usable, Switches

LEMMA GitHubIsWhole ==
    ASSUME TypeInv, NEW v \in Values, NEW p, p = [k \in GitHubFields |-> v], NEW g \in Groups(p)
    PROVE  Whole(Merged(p, doc), g)
<1>1. p \in PatchType /\ DOMAIN p = GitHubFields /\ g = "github"
  BY GitHubPatch
<1>2. <<"github", "repo">> \in GitHubFields /\ <<"github", "token">> \in GitHubFields
  BY DEF GitHubFields
<1>3. Merged(p, doc)[<<"github", "repo">>] = v /\ Merged(p, doc)[<<"github", "token">>] = v
  BY <1>1, <1>2, FieldsAre, MergedTyped DEF TypeInv, StoreTyped
<1> QED
  BY <1>1, <1>3, NoUsable DEF Whole

\* A patch of Slack's that connects, or disconnects.
LEMMA SlackIsWhole ==
    ASSUME NEW d \in Document, NEW p \in PatchType, SlackFields \ {App} \subseteq DOMAIN p,
           p[<<"slack", "webhook">>] = p[<<"slack", "token">>], p[Error] = "none"
    PROVE  Whole(Merged(p, d), "slack")
<1>1. /\ <<"slack", "webhook">> \in DOMAIN p /\ <<"slack", "token">> \in DOMAIN p
      /\ Error \in DOMAIN p
  BY SlackPatch DEF App, Error
<1>2. /\ Merged(p, d)[<<"slack", "webhook">>] = p[<<"slack", "webhook">>]
      /\ Merged(p, d)[<<"slack", "token">>] = p[<<"slack", "token">>]
      /\ Merged(p, d)[Error] = p[Error]
  BY <1>1, FieldsAre, MergedTyped
<1> QED
  BY <1>2, NoUsable DEF Whole, Error

LEMMA NotifyCounts ==
    ASSUME TypeInv, TypeInv', WholeInv, NEW r \in Requests, Notify(r)
    PROVE  CountInv(r)'
<1>1. PICK i \in Instances, p \in PatchType :
         LET x == Begun(i, doc[<<"slack", "webhook">>], "posting", {"slack"}, p) IN
         /\ p = [k \in {Error} |-> "failed"]
         /\ Turns(r, x) /\ Notices(x) /\ req[r].pc = "new"
         /\ crossed' = crossed \cup CrossedBy(r, {"slack"})
  BY NotifyBegins
<1> DEFINE x == Begun(i, doc[<<"slack", "webhook">>], "posting", {"slack"}, p)
<1>2. /\ x.pc = "posting" /\ x.left = DOMAIN x.patch /\ x.groups = {"slack"} /\ x.patch = p
      /\ x.kind = doc[<<"slack", "webhook">>]
  BY DEF Begun, Fresh
<1>3. x.kind # "save" /\ x.kind # "none"
  BY <1>1 DEF Notices, Kinds
<1>4. UNCHANGED <<doc, torn>> /\ doc \in Document
  BY DEF Notify, TypeInv, StoreTyped
<1> HIDE DEF x
<1>5. ASSUME r \notin crossed', "slack" \notin torn PROVE Whole(Merged(p, doc), "slack")
  <2>1. \A q \in Requests : ~Amid(q, "slack")
    <3> SUFFICES ASSUME NEW q \in Requests, Amid(q, "slack") PROVE FALSE
      OBVIOUS
    <3>1. q # r /\ req[q].groups \cap {"slack"} # {}
      BY <1>1 DEF Amid
    <3>2. r \in CrossedBy(r, {"slack"})
      BY <3>1 DEF CrossedBy
    <3> QED
      BY <1>1, <1>5, <3>2
  <2>2. Whole(doc, "slack")
    BY <1>5, <2>1 DEF WholeInv, AllGroups
  <2>3. p = [k \in {Error} |-> "failed"]
    BY <1>1
  <2>4. DOMAIN p = {Error} /\ <<"slack", "webhook">> # Error /\ <<"slack", "token">> # Error
    BY <2>3 DEF Error
  <2>5. Merged(p, doc)[<<"slack", "webhook">>] = doc[<<"slack", "webhook">>]
        /\ Merged(p, doc)[<<"slack", "token">>] = doc[<<"slack", "token">>]
    BY <1>4, <2>4, FieldsAre, MergedTyped
  <2>6. doc[<<"slack", "webhook">>] = doc[<<"slack", "token">>]
    BY <2>2 DEF Whole
  <2> QED
    BY <1>2, <1>3, <2>5, <2>6, NoUsable DEF Whole
<1>6. r \notin crossed' =>
         \A g \in x.groups \cap Groups(x.patch) :
            Whole(Merged(x.patch, doc'), g) \/ (x.kind # "save" /\ g \in torn')
  BY <1>2, <1>3, <1>4, <1>5
<1>7. Turns(r, x)
  BY <1>1 DEF x
<1> QED
  BY <1>2, <1>6, <1>7, BeginsToCount

LEMMA OpeningCounts ==
    ASSUME TypeInv, TypeInv', WholeInv, NEW r \in Requests, Opening(r)
    PROVE  CountInv(r)'
<1>d. UNCHANGED doc /\ doc \in Document
  <2>1. PICK x : Starts(r, x)
    BY OpeningStarts
  <2> QED
    BY <2>1 DEF Starts, TypeInv, StoreTyped
<1>1. CASE UpdateSettings(r) \/ UpdateGitHub(r) \/ DeleteGitHub(r)
  <2>1. PICK i \in Instances, p \in PatchType :
              /\ Save(r, i, p)
              /\ "ai" \in Groups(p) => Groups(p) = {"ai"}
              /\ \/ p \in Patches /\ Valid(p)
                 \/ \E v \in Values : p = [k \in GitHubFields |-> v]
    BY <1>1, SaveTyped
  <2> DEFINE x == Begun(i, "save", "writing", Groups(p), p)
  <2>2. Turns(r, x)
    BY <2>1, SaveBegins
  <2>3. /\ x.pc = "writing" /\ x.left = DOMAIN x.patch /\ x.patch = p
    BY DEF Begun, Fresh
  <2>4. \A g \in Groups(p) : Whole(Merged(p, doc), g)
    BY <2>1, ValidIsWhole, GitHubIsWhole
  <2> HIDE DEF x
  <2> QED
    BY <1>d, <2>2, <2>3, <2>4, BeginsToCount
<1>2. CASE SaveSlackApp(r)
  <2>1. PICK i \in Instances, p \in PatchType :
           Turns(r, Begun(i, "app", "writing", {}, p))
    BY <1>2, AppBegins
  <2> DEFINE x == Begun(i, "app", "writing", {}, p)
  <2>2. /\ x.pc = "writing" /\ x.left = DOMAIN x.patch /\ x.groups = {}
    BY DEF Begun, Fresh
  <2>3. Turns(r, x)
    BY <2>1
  <2> HIDE DEF x
  <2> QED
    BY <2>2, <2>3, BeginsToCount
<1>3. CASE Callback(r)
  <2>1. PICK i \in Instances : Turns(r, Begun(i, "save", "exchanging", {"slack"}, << >>))
    BY <1>3, CallbackBegins
  <2>2. Begun(i, "save", "exchanging", {"slack"}, << >>).pc = "exchanging"
    BY DEF Begun, Fresh
  <2> QED
    BY <2>1, <2>2, RestsToCount
<1>4. CASE DisconnectSlack(r)
  <2>1. PICK i \in Instances, p \in PatchType :
           /\ p = [k \in SlackFields |-> "none"]
           /\ Turns(r, Begun(i, "save", "writing", {"slack"}, p))
    BY <1>4, DisconnectBegins
  <2> DEFINE x == Begun(i, "save", "writing", {"slack"}, p)
  <2>2. /\ x.pc = "writing" /\ x.left = DOMAIN x.patch /\ x.groups = {"slack"} /\ x.patch = p
    BY DEF Begun, Fresh
  <2>3. Turns(r, x)
    BY <2>1
  <2> HIDE DEF x
  <2>4. Whole(Merged(p, doc), "slack")
    BY <1>d, <2>1, SlackPatch, SlackIsWhole
  <2> QED
    BY <1>d, <2>2, <2>3, <2>4, BeginsToCount
<1>5. CASE Notify(r)
  BY <1>5, NotifyCounts
<1>6. CASE Upload(r)
  <2>1. PICK i \in Instances : Turns(r, Begun(i, "upload", "putting", {}, << >>))
    BY <1>6, UploadBegins
  <2>2. Begun(i, "upload", "putting", {}, << >>).pc = "putting"
    BY DEF Begun, Fresh
  <2> QED
    BY <2>1, <2>2, RestsToCount
<1> QED
  BY <1>1, <1>2, <1>3, <1>4, <1>5, <1>6 DEF Opening

-----------------------------------------------------------------------------
\* Requests at work.
LEMMA SlackCounts ==
    ASSUME TypeInv, TypeInv', NEW r \in Requests, CountInv(r), ExchangeCode(r) \/ PostMessage(r)
    PROVE  CountInv(r)'
<1>d. UNCHANGED <<doc, torn, crossed>> /\ doc \in Document
  BY DEF ExchangeCode, PostMessage, ghosts, TypeInv, StoreTyped
<1>1. CASE ExchangeCode(r)
  <2>1. PICK x : /\ Turns(r, x)
                 /\ \/ Rests(x) /\ x.pc = "done"
                    \/ /\ Saves(x) /\ x.pc = "writing"
                       /\ x.groups = {"slack"} /\ x.patch = Connection(r)
                       /\ x.left = DOMAIN x.patch /\ DOMAIN x.patch = SlackFields \ {App}
    BY <1>1, Exchanges
  <2>2. CASE x.pc = "done"
    BY <2>1, <2>2, RestsToCount
  <2>3. CASE x.pc # "done"
    <3>1. x.patch \in PatchType /\ DOMAIN x.patch = SlackFields \ {App}
      BY <2>1, <2>3 DEF Turns, RequestType
    <3>2. /\ x.patch[<<"slack", "webhook">>] = x.patch[<<"slack", "token">>]
          /\ x.patch[Error] = "none"
      <4>1. x.patch = [k \in SlackFields \ {App} |-> IF k[2] = "error" THEN "none" ELSE r]
        BY <2>1, <2>3 DEF Connection, App
      <4>2. /\ <<"slack", "webhook">> \in SlackFields \ {App}
            /\ <<"slack", "token">> \in SlackFields \ {App} /\ Error \in SlackFields \ {App}
        BY SlackPatch DEF App, Error
      <4> QED
        BY <4>1, <4>2 DEF Error
    <3>3. Whole(Merged(x.patch, doc), "slack")
      BY <1>d, <3>1, <3>2, SlackIsWhole
    <3> QED
      BY <1>d, <2>1, <2>3, <3>3, BeginsToCount
  <2> QED
    BY <2>2, <2>3
<1>2. CASE PostMessage(r)
  <2>1. req[r].pc = "posting" /\ Notices(req[r])
    BY <1>2, Posts
  <2>2. PICK x : /\ Turns(r, x)
                 /\ \/ x.pc = "done"
                    \/ x.pc = "writing" /\ SameWork(x, req[r]) /\ x.left = req[r].left
    BY <1>2, Posts
  <2>3. CASE x.pc = "done"
    BY <2>2, <2>3, RestsToCount
  <2>4. CASE x.pc # "done"
    <3>1. /\ x.groups = req[r].groups /\ x.patch = req[r].patch /\ x.kind = req[r].kind
          /\ x.left = DOMAIN x.patch
      BY <2>1, <2>2, <2>4 DEF SameWork, Notices
    <3>2. r \notin crossed' =>
             \A g \in x.groups \cap Groups(x.patch) :
                Whole(Merged(x.patch, doc'), g) \/ (x.kind # "save" /\ g \in torn')
      BY <1>d, <2>1, <3>1 DEF CountInv, Counted
    <3> QED
      BY <2>2, <2>4, <3>1, <3>2, BeginsToCount
  <2> QED
    BY <2>3, <2>4
<1> QED
  BY <1>1, <1>2

\* What a patch of one field of the templates makes of them.
LEMMA TemplatesPatched ==
    ASSUME NEW d \in Document, NEW p, NEW v \in Values, p = [k \in {ByLang} |-> v]
    PROVE  /\ p \in PatchType /\ DOMAIN p = {ByLang} /\ Groups(p) = {"templates"}
           /\ Whole(Merged(p, d), "templates")
<1>1. p \in PatchType /\ DOMAIN p = {ByLang}
  BY FieldsAre, PatchOf
<1>2. Groups(p) = {"templates"}
  BY <1>1 DEF Groups, ByLang
<1>3. Whole(Merged(p, d), "templates")
  BY NoUsable DEF Whole
<1> QED
  BY <1>1, <1>2, <1>3

LEMMA BootCounts ==
    ASSUME TypeInv, TypeInv', NEW r \in Requests, CountInv(r),
           Migrate(r) \/ Seed(r)
    PROVE  CountInv(r)'
<1>d. UNCHANGED crossed /\ doc \in Document
  BY DEF Migrate, Seed, Unchanged, TypeInv, StoreTyped
<1>1. CASE Migrate(r)
  <2>1. PICK x : Turns(r, x) /\ x.pc = "seeding"
    BY <1>1, Migrates
  <2> QED
    BY <2>1, RestsToCount
<1>2. CASE Seed(r)
  <2>1. UNCHANGED <<doc, torn>>
    BY <1>2 DEF Seed, Unchanged
  <2>2. PICK x : /\ Turns(r, x)
                 /\ \/ Seeds(x) /\ x.pc = "writing" /\ x.left = {ByLang}
                    \/ x.pc = "starting"
    BY <1>2, SeedsOnce
  <2>3. CASE x.pc = "starting"
    BY <2>2, <2>3, RestsToCount
  <2>4. CASE x.pc # "starting"
    <3>1. x.patch = [k \in {ByLang} |-> "defaults"]
      BY <2>2, <2>4 DEF Seeds
    <3>2. DOMAIN x.patch = {ByLang} /\ Groups(x.patch) = {"templates"}
          /\ Whole(Merged(x.patch, doc), "templates")
      BY <1>d, <3>1, StringsAre, TemplatesPatched
    <3> QED
      BY <2>1, <2>2, <2>4, <3>2, BeginsToCount
  <2> QED
    BY <2>3, <2>4
<1> QED
  BY <1>1, <1>2

LEMMA WriteCounts ==
    ASSUME TypeInv, TypeInv', NEW r \in Requests, CountInv(r), WriteField(r) \/ FailWrite(r)
    PROVE  CountInv(r)'
<1>d. UNCHANGED crossed /\ doc \in Document /\ doc' \in Document
  BY DEF WriteField, FailWrite, TypeInv, StoreTyped
<1>y. PICK y \in RequestType : y = req[r] /\ Fits(y)
  BY RequestIs
<1>1. CASE FailWrite(r)
  <2>1. PICK x : Turns(r, x) /\ x.pc \in {"done", "starting"}
    BY <1>1, <1>y, WriteFails
  <2> QED
    BY <2>1, RestsToCount
<1>2. CASE WriteField(r)
  <2>1. PICK k, x : Wrote(r, k, x)
    BY <1>2, Writes
  <2>2. /\ Turns(r, x) /\ req'[r] = x /\ k \in y.left /\ y.pc = "writing"
        /\ doc' = [doc EXCEPT ![k] = y.patch[k]]
    BY <1>y, <2>1, Turn DEF Wrote
  <2>3. k \in DOMAIN y.patch /\ k \in Fields /\ y.patch[k] \in Values /\ y.patch \in PatchType
    BY <1>y, <2>2, WriteTyped DEF RequestType
  <2>4. doc'[k] = y.patch[k] /\ \A f \in Fields : f # k => doc'[f] = doc[f]
    BY <1>d, <2>2, <2>3, Edited
  <2>5. CASE y.left = {k}
    <3>1. x.pc \notin {"writing", "posting"}
      BY <1>y, <2>1, <2>5 DEF Wrote
    <3> QED
      BY <2>2, <3>1, RestsToCount
  <2>6. CASE y.left # {k}
    <3>1. /\ x.pc = "writing" /\ x.left = y.left \ {k} /\ SameWork(x, y) /\ torn' = torn
      BY <1>y, <2>1, <2>6 DEF Wrote
    <3>2. x.kind = y.kind /\ x.groups = y.groups /\ x.patch = y.patch
      BY <3>1 DEF SameWork
    <3> SUFFICES ASSUME r \notin crossed PROVE Counted(x, doc', torn')
      BY <1>d, <2>2 DEF CountInv
    <3>3. Counted(y, doc, torn)
      BY <1>y DEF CountInv
    <3>4. ASSUME NEW g \in x.groups \cap Groups(x.patch)
          PROVE  Whole(Merged(x.patch, doc'), g) \/ (x.kind # "save" /\ g \in torn')
      <4>1. Alike(Merged(y.patch, doc'), Merged(y.patch, doc), g)
        BY <1>d, <2>2, <2>3, MergedEdited
      <4>2. g \in AllGroups
        BY <3>2, <3>4 DEF RequestType
      <4>3. Whole(Merged(y.patch, doc'), g) <=> Whole(Merged(y.patch, doc), g)
        BY <1>d, <2>3, <4>1, <4>2, MergedTyped, WholeDepends
      <4> QED
        BY <2>2, <3>1, <3>2, <3>3, <4>3 DEF Counted
    <3>5. ASSUME NEW f \in DOMAIN x.patch \ x.left, f[1] \in x.groups, f # App
          PROVE  doc'[f] = x.patch[f]
      <4>1. f \in Fields
        BY <2>3, <3>2, PatchIs
      <4>2. CASE f = k
        BY <2>4, <3>2, <4>2
      <4>3. CASE f # k
        BY <2>2, <2>4, <3>1, <3>2, <3>3, <3>5, <4>1, <4>3 DEF Counted
      <4> QED
        BY <4>2, <4>3
    <3> QED
      BY <3>1, <3>4, <3>5 DEF Counted
  <2> QED
    BY <2>5, <2>6
<1> QED
  BY <1>1, <1>2

LEMMA WorkerCounts ==
    ASSUME TypeInv, TypeInv', NEW r \in Requests, CountInv(r), Working(r)
    PROVE  CountInv(r)'
<1>1. CASE Refresh(r) \/ Swap(r) \/ ReadUploads(r) \/ Reload(r)
  <2>1. PICK x : Turns(r, x) /\ x.pc \in {"swapping", "done", "building", "refreshing"}
    BY <1>1, Refreshes, Swaps, ReadsUploads, Reloads
  <2> QED
    BY <2>1, RestsToCount
<1>2. CASE PutFile(r) \/ InsertFile(r) \/ DeleteFile(r)
  <2>1. PICK x : Turns(r, x) /\ x.pc \in {"done", "inserting", "created", "undoing"}
    BY <1>2, Puts, Inserts, Undoes
  <2> QED
    BY <2>1, RestsToCount
<1> QED
  BY <1>1, <1>2, SlackCounts, BootCounts, WriteCounts DEF Working

LEMMA CountsKept ==
    ASSUME TypeInv, TypeInv', Alone, WholeInv, \A r \in Requests : CountInv(r), [Next]_vars
    PROVE  \A r \in Requests : CountInv(r)'
<1>1. ASSUME NEW r \in Requests, NEW x, Turns(r, x), Next, UNCHANGED <<doc, torn>>, CountInv(r)'
      PROVE  \A q \in Requests : CountInv(q)'
  <2>1. ASSUME NEW q \in Requests, q # r PROVE CountInv(q)'
    BY <1>1, <2>1, Turn, OthersCount
  <2> QED
    BY <1>1, <2>1
<1>2. ASSUME NEW r \in Requests, Opening(r) PROVE \A q \in Requests : CountInv(q)'
  <2>1. PICK x : Starts(r, x)
    BY <1>2, OpeningStarts
  <2>2. Turns(r, x) /\ UNCHANGED <<doc, torn>>
    BY <2>1 DEF Starts
  <2> QED
    BY <1>1, <1>2, <2>2, OpeningCounts, NextIs
<1>3. ASSUME NEW r \in Requests, Working(r) PROVE \A q \in Requests : CountInv(q)'
  <2>1. PICK x : Turns(r, x)
    BY <1>3, WorkingTyped
  <2>2. CountInv(r)'
    BY <1>3, WorkerCounts
  <2>3. ASSUME NEW q \in Requests, q # r PROVE CountInv(q)'
    BY <1>3, <2>1, <2>3, Turn, OthersCount, NextIs
  <2> QED
    BY <2>2, <2>3
<1>4. ASSUME NEW r \in Requests, Boot(r) PROVE \A q \in Requests : CountInv(q)'
  <2>1. PICK x : Turns(r, x) /\ x.pc \in {"migrating", "starting"}
    BY <1>4, BootBegins
  <2>2. UNCHANGED <<doc, torn>>
    BY <1>4 DEF Boot
  <2>3. CountInv(r)'
    BY <2>1, RestsToCount
  <2> QED
    BY <1>1, <1>4, <2>1, <2>2, <2>3, NextIs
<1>5. ASSUME NEW i \in Instances, Crash(i) PROVE \A q \in Requests : CountInv(q)'
  <2> SUFFICES ASSUME NEW q \in Requests PROVE CountInv(q)'
    OBVIOUS
  <2>1. UNCHANGED <<doc, crossed>> /\ torn \subseteq torn'
    BY <1>5 DEF Crash
  <2>2. req'[q] = req[q] \/ req'[q].pc = "dead"
    BY <1>5, Dies
  <2>3. CASE req'[q].pc = "dead"
    BY <2>3 DEF CountInv, Counted
  <2>4. CASE req'[q] = req[q]
    BY <2>1, <2>4 DEF CountInv, Counted
  <2> QED
    BY <2>2, <2>3, <2>4
<1>6. CASE UNCHANGED vars
  BY <1>6 DEF vars, ghosts, CountInv
<1> QED
  BY <1>2, <1>3, <1>4, <1>5, <1>6, NextIs

-----------------------------------------------------------------------------
\* No group is broken but by what is amid writing it.
LEMMA StillsKeepWhole ==
    ASSUME TypeInv, WholeInv, UNCHANGED doc, torn \subseteq torn',
           \A r \in Requests, g \in AllGroups : Amid(r, g) => Amid(r, g)' \/ g \in torn'
    PROVE  WholeInv'
BY DEF WholeInv

LEMMA OthersAmid ==
    ASSUME TypeInv, NEW r \in Requests, NEW x, Turns(r, x)
    PROVE  \A q \in Requests : \A g : q # r /\ Amid(q, g) => Amid(q, g)'
<1>1. \A q \in Requests : q # r => req'[q] = req[q]
  BY Turn
<1> QED
  BY <1>1 DEF Amid

LEMMA TurnsKeepWhole ==
    ASSUME TypeInv, WholeInv, NEW r \in Requests, NEW x, Turns(r, x), UNCHANGED doc,
           torn \subseteq torn', req[r].pc # "writing"
    PROVE  WholeInv'
<1>1. \A g : ~Amid(r, g)
  BY DEF Amid
<1> QED
  BY <1>1, OthersAmid, StillsKeepWhole

\* The last field of a patch makes its groups whole, unless they are torn.
LEMMA WriteKeepsWhole ==
    ASSUME TypeInv, TypeInv', WholeInv, NEW r \in Requests, CountInv(r), WriteField(r)
    PROVE  WholeInv'
<1> SUFFICES ASSUME NEW g \in AllGroups
             PROVE  g \in torn' \/ Whole(doc', g) \/ \E q \in Requests : Amid(q, g)'
  BY DEF WholeInv
<1>d. doc \in Document /\ doc' \in Document
  BY DEF TypeInv, StoreTyped
<1>y. PICK y \in RequestType : y = req[r] /\ Fits(y)
  BY RequestIs
<1>1. PICK k, x : Wrote(r, k, x)
  BY Writes
<1>2. /\ Turns(r, x) /\ req'[r] = x /\ k \in y.left /\ y.pc = "writing"
      /\ doc' = [doc EXCEPT ![k] = y.patch[k]]
  BY <1>y, <1>1, Turn DEF Wrote
<1>3. k \in DOMAIN y.patch /\ k \in Fields /\ y.patch[k] \in Values /\ y.patch \in PatchType
      /\ k[1] \in Groups(y.patch)
  BY <1>y, <1>2, WriteTyped DEF RequestType
<1>4. doc'[k] = y.patch[k] /\ \A f \in Fields : f # k => doc'[f] = doc[f]
  BY <1>d, <1>2, <1>3, Edited
<1>5. torn' = IF y.left = {k} THEN Written(r) ELSE torn
  BY <1>y, <1>1 DEF Wrote
<1>6. CASE g \notin y.groups \cap Groups(y.patch)
  <2>1. k[1] # g \/ k = App
    BY <1>2, <1>3, <1>6, <1>y, WritersOwn
  <2>2. Alike(doc', doc, g)
    BY <1>2, <1>3, <1>d, <2>1, EditedAlike
  <2>3. Whole(doc', g) <=> Whole(doc, g)
    BY <1>d, <2>2, WholeDepends
  <2>4. g \in torn => g \in torn'
    <3>1. y.kind = "save" => y.groups = Groups(y.patch)
      BY <1>2, <1>y, WritersOwn
    <3> QED
      BY <1>5, <1>6, <1>y, <3>1 DEF Written
  <2>5. \A q \in Requests : Amid(q, g) => Amid(q, g)'
    BY <1>2, <1>6, <1>y, OthersAmid DEF Amid
  <2> QED
    BY <2>3, <2>4, <2>5 DEF WholeInv
<1>7. CASE g \in y.groups \cap Groups(y.patch) /\ y.left # {k}
  <2>1. x.pc = "writing" /\ x.left = y.left \ {k} /\ SameWork(x, y)
    BY <1>y, <1>1, <1>7 DEF Wrote
  <2>2. x.groups = y.groups /\ x.patch = y.patch /\ k \in DOMAIN x.patch /\ k \notin x.left
    BY <1>3, <2>1 DEF SameWork
  <2> QED
    BY <1>2, <1>7, <2>1, <2>2 DEF Amid
<1>8. CASE g \in y.groups \cap Groups(y.patch) /\ y.left = {k}
  <2>1. CASE r \in crossed
    BY <1>5, <1>8, <1>y, <2>1 DEF Written
  <2>2. CASE r \notin crossed
    <3>1. Counted(y, doc, torn)
      BY <1>y, <2>2 DEF CountInv
    <3>2. ASSUME NEW f \in DOMAIN y.patch, f[1] = g, f # App PROVE doc'[f] = y.patch[f]
      <4>1. CASE f = k
        BY <1>4, <4>1
      <4>2. CASE f # k
        <5>1. f \in DOMAIN y.patch \ y.left /\ f[1] \in y.groups /\ f \in Fields
          BY <1>3, <1>8, <3>2, <4>2, PatchIs
        <5>2. doc[f] = y.patch[f]
          BY <1>2, <3>1, <3>2, <5>1 DEF Counted
        <5> QED
          BY <1>4, <4>2, <5>1, <5>2
      <4> QED
        BY <4>1, <4>2
    <3>3. Alike(Merged(y.patch, doc'), doc', g)
      BY <1>3, <1>d, <3>2, AllWritten
    <3>4. Alike(Merged(y.patch, doc'), Merged(y.patch, doc), g)
      BY <1>2, <1>3, <1>d, MergedEdited
    <3>5. Merged(y.patch, doc') \in Document /\ Merged(y.patch, doc) \in Document
      BY <1>3, <1>d, MergedTyped
    <3>6. Whole(Merged(y.patch, doc), g) => Whole(doc', g)
      BY <1>d, <3>3, <3>4, <3>5, WholeDepends
    <3>7. Whole(Merged(y.patch, doc), g) \/ (y.kind # "save" /\ g \in torn)
      BY <1>2, <1>8, <3>1 DEF Counted
    <3>8. y.kind # "save" => torn' = torn
      BY <1>5, <1>8, <1>y, <2>2 DEF Written
    <3> QED
      BY <3>6, <3>7, <3>8
  <2> QED
    BY <2>1, <2>2
<1> QED
  BY <1>6, <1>7, <1>8

LEMMA FailKeepsWhole ==
    ASSUME TypeInv, TypeInv', WholeInv, NEW r \in Requests, FailWrite(r)
    PROVE  WholeInv'
<1> SUFFICES ASSUME NEW g \in AllGroups
             PROVE  g \in torn' \/ Whole(doc', g) \/ \E q \in Requests : Amid(q, g)'
  BY DEF WholeInv
<1>d. doc \in Document /\ doc' \in Document
  BY DEF TypeInv, StoreTyped
<1>y. PICK y \in RequestType : y = req[r] /\ Fits(y)
  BY RequestIs
<1>1. PICK x : Turns(r, x)
  BY WriteFails
<1>2. y.pc = "writing" /\ torn \subseteq torn'
  BY <1>y DEF FailWrite
<1>3. PICK k \in y.left, kept \in BOOLEAN :
         /\ doc' = IF kept THEN [doc EXCEPT ![k] = y.patch[k]] ELSE doc
         /\ kept \/ y.left # DOMAIN y.patch => y.groups \cap Groups(y.patch) \subseteq torn'
  BY <1>y DEF FailWrite
<1>4. CASE g \in y.groups \cap Groups(y.patch) /\ (kept \/ y.left # DOMAIN y.patch)
  BY <1>3, <1>4
<1>5. CASE ~(g \in y.groups \cap Groups(y.patch) /\ (kept \/ y.left # DOMAIN y.patch))
  <2>1. Alike(doc', doc, g)
    <3>1. CASE ~kept
      BY <1>3, <3>1 DEF Alike
    <3>2. CASE kept
      <4>1. k \in Fields /\ y.patch[k] \in Values /\ k[1] \in Groups(y.patch)
        BY <1>y, WriteTyped
      <4>2. k[1] # g \/ k = App
        BY <1>2, <1>5, <1>y, <3>2, <4>1, WritersOwn
      <4> QED
        BY <1>3, <1>d, <3>2, <4>1, <4>2, EditedAlike
    <3> QED
      BY <3>1, <3>2
  <2>2. Whole(doc', g) <=> Whole(doc, g)
    BY <1>d, <2>1, WholeDepends
  <2>3. \A q \in Requests : Amid(q, g) => Amid(q, g)'
    BY <1>1, <1>5, <1>y, OthersAmid DEF Amid
  <2> QED
    BY <1>2, <2>2, <2>3 DEF WholeInv
<1> QED
  BY <1>4, <1>5

LEMMA CrashKeepsWhole ==
    ASSUME TypeInv, WholeInv, NEW i \in Instances, Crash(i)
    PROVE  WholeInv'
<1>1. UNCHANGED doc /\ torn \subseteq torn'
  BY DEF Crash
<1>2. ASSUME NEW r \in Requests, NEW g \in AllGroups, Amid(r, g)
      PROVE  Amid(r, g)' \/ g \in torn'
  <2>1. CASE req[r].at # i
    <3>1. req'[r] = req[r]
      BY <2>1, Dies
    <3> QED
      BY <1>2, <3>1 DEF Amid
  <2>2. CASE req[r].at = i
    <3>1. req[r].patch # << >>
      BY <1>2, NoPatch DEF Amid
    <3> QED
      BY <1>2, <2>2, <3>1 DEF Amid, Crash
  <2> QED
    BY <2>1, <2>2
<1> QED
  BY <1>1, <1>2, StillsKeepWhole

LEMMA WholeKept ==
    ASSUME TypeInv, TypeInv', WholeInv, \A r \in Requests : CountInv(r), [Next]_vars
    PROVE  WholeInv'
<1>1. ASSUME NEW r \in Requests, Opening(r) PROVE WholeInv'
  <2>1. PICK x : Starts(r, x)
    BY <1>1, OpeningStarts
  <2>2. Turns(r, x) /\ UNCHANGED <<doc, torn>> /\ req[r].pc = "new"
    BY <2>1 DEF Starts
  <2> QED
    BY <2>2, TurnsKeepWhole
<1>2. ASSUME NEW r \in Requests, Working(r) PROVE WholeInv'
  <2>1. CASE WriteField(r) \/ FailWrite(r)
    BY <2>1, WriteKeepsWhole, FailKeepsWhole
  <2>2. CASE ~(WriteField(r) \/ FailWrite(r))
    <3>1. UNCHANGED doc /\ torn \subseteq torn' /\ req[r].pc # "writing"
      BY <1>2, <2>2 DEF Working, ExchangeCode, PostMessage, Refresh, Swap, ReadUploads, Reload,
                        Migrate, Seed, Unchanged, PutFile, InsertFile, DeleteFile, ghosts
    <3> QED
      BY <1>2, <3>1, WorkingTyped, TurnsKeepWhole
  <2> QED
    BY <2>1, <2>2
<1>3. ASSUME NEW r \in Requests, Boot(r) PROVE WholeInv'
  <2>1. UNCHANGED <<doc, torn>> /\ req[r].pc = "new"
    BY <1>3 DEF Boot
  <2> QED
    BY <1>3, <2>1, BootBegins, TurnsKeepWhole
<1>4. ASSUME NEW i \in Instances, Crash(i) PROVE WholeInv'
  BY <1>4, CrashKeepsWhole
<1>5. CASE UNCHANGED vars
  BY <1>5 DEF vars, ghosts, WholeInv, Amid
<1> QED
  BY <1>1, <1>2, <1>3, <1>4, <1>5, NextIs

\* Whatever patches the handlers let through, whatever they overlap and wherever they or a
\* boot stop: a group of the settings only breaks while a patch of it is being written,
\* or where an overlap or a failure tore it (UpdateSettings, field by field; the handlers'
\* checks of what they read; EnsureFeedbackDefaults).
THEOREM SettingsHoldTogether == Spec => []SettingsHold
<1> DEFINE Inv == TypeInv /\ Alone /\ WholeInv /\ \A r \in Requests : CountInv(r)
<1>1. Init => Inv
  <2> SUFFICES ASSUME Init PROVE Inv
    OBVIOUS
  <2>1. TypeInv
    BY InitTyped
  <2>2. \A r \in Requests : req[r].pc = "new" /\ req[r].groups = {}
    BY DEF Init, Fresh
  <2>3. Alone /\ \A r \in Requests : CountInv(r)
    BY <2>2 DEF Alone, CountInv, Counted
  <2>4. WholeInv
    <3>1. doc \in Deployments /\ doc \in Document
      BY <2>1 DEF Init, TypeInv, StoreTyped
    <3>2. AllGroups \subseteq Groups(doc)
      <4>1. DOMAIN doc = Fields
        BY <3>1 DEF Document
      <4>2. \A g \in AllGroups : \E k \in Fields : k[1] = g
        <5>1. ASSUME NEW g \in Switches PROVE \E k \in Fields : k[1] = g
          <6>1. <<g, "enabled">> \in Fields /\ <<g, "enabled">>[1] = g
            BY FieldsAre
          <6> QED
            BY <6>1
        <5>2. /\ <<"uploads", "enabled">>[1] = "uploads" /\ App[1] = "slack"
              /\ <<"github", "repo">>[1] = "github" /\ ByLang[1] = "templates"
          BY DEF App, ByLang
        <5> QED
          BY <5>1, <5>2, FieldsAre DEF AllGroups
      <4> QED
        BY <4>1, <4>2 DEF Groups
    <3> QED
      BY <3>1, <3>2, DeploymentsAreWhole DEF WholeInv, DeploymentsAreWhole
  <2> QED
    BY <2>1, <2>3, <2>4
<1>2. Inv /\ [Next]_vars => Inv'
  BY NextTyped, AloneKept, WholeKept, CountsKept
<1>3. Inv => SettingsHold
  <2> SUFFICES ASSUME Inv, NEW g \in Groups(doc) PROVE g \in torn \/ Writing(g) \/ Whole(doc, g)
    BY DEF SettingsHold
  <2>1. g \in AllGroups
    BY GroupsOfDocument DEF TypeInv, StoreTyped
  <2>2. ASSUME NEW r \in Requests, Amid(r, g) PROVE Writing(g)
    <3>1. req[r].patch # << >>
      BY <2>2, NoPatch DEF Amid
    <3> QED
      BY <2>2, <3>1 DEF Amid, Writing
  <2> QED
    BY <2>1, <2>2 DEF WholeInv
<1> HIDE DEF Inv
<1> QED
  BY <1>1, <1>2, <1>3, PTL DEF Spec

=============================================================================
