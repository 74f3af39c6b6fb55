------------------------------ MODULE Settings -------------------------------
(***************************************************************************)
(* The settings document and what instances make of it.  Handlers read the *)
(* document, check what a patch would make of what they read, and write    *)
(* the patch field by field, in the order of a Go map.  The instance that  *)
(* served the request then renews its copies: the AI worker's snapshot and *)
(* the storage holder.  A boot makes them anew, after it has seeded the    *)
(* templates.  Uploads are gated by the document and stored through the    *)
(* holder.  Calls may fail, and instances crash, at any step.              *)
(***************************************************************************)
EXTENDS Integers, FiniteSets

CONSTANTS Instances, Requests,
          Deployments, \* documents that the behaviour may start on
          Patches,     \* bound: the patches that admins send
          MaxFaults    \* bound: failed calls and crashes

\* A field is <<group, name>>.  A switch has a value that it needs when it is on:
\* an API key, a client ID, an absolute URL.
Switches == {"ai", "customAuth", "googleAuth", "supportRequest"}
UploadFields == {"uploads"} \X {"enabled", "backend", "bucket"}
SlackFields == {"slack"} \X {"app", "webhook", "token", "error"}
GitHubFields == {"github"} \X {"repo", "token"}
TemplateFields == {<<"templates", "byLang">>}
Fields == Switches \X {"enabled", "value"} \cup UploadFields
          \cup SlackFields \cup GitHubFields \cup TemplateFields

Buckets == {"bucket1", "bucket2"}
Backends == {"local"} \cup Buckets \* a bucket is a backend of its own
Values == {"none", "off", "on", "usable", "malformed", "local", "gcs", "failed",
           "defaults", "written"} \cup Buckets \cup Requests
Document == [Fields -> Values]
Zero == [k \in Fields |-> IF k[2] = "enabled" THEN "off" ELSE "none"]

\* What a request is about; a notice has the webhook that it read instead.
Kinds == {"none", "save", "app", "upload", "boot", "blind", "seed"}
Groups(p) == {k[1] : k \in DOMAIN p}

\* The AI settings have a handler of their own, and so have Slack and GitHub.
ASSUME ConstantsAssumption ==
    /\ "none" \notin Instances
    /\ Requests \cap Kinds = {}
    /\ Deployments \subseteq Document
    /\ \A p \in Patches :
          /\ p \in [DOMAIN p -> Values] /\ DOMAIN p \subseteq Fields
          /\ "ai" \in Groups(p) => Groups(p) = {"ai"}
          /\ Groups(p) \cap {"slack", "github"} = {}
    /\ MaxFaults \in Nat

VARIABLES doc,     \* the settings document
          up,      \* the instances that serve
          snap,    \* each instance's Snapshot of the AI settings
          holder,  \* each instance's storage.Holder
          files,   \* the collection "files", by the request that uploaded one
          blobs,   \* <<backend, file>>
          tokens,  \* the Slack tokens in force, by the callback they went to
          req,     \* what requests and boots are doing
          faults,
          crossed, \* requests that overlapped one on the same group
          torn,    \* groups whose last patch overlapped another or got stuck
          behind,  \* <<instance, group>>: its copy was not renewed in peace
          stray    \* files that a failed upload could not or did not undo

copies == <<snap, holder>>
storage == <<files, blobs>>
ghosts == <<crossed, torn, behind>> \* and stray: no code reads them
vars == <<doc, up, copies, storage, tokens, req, faults, ghosts, stray>>

Part(d, g) == [k \in {f \in Fields : f[1] = g} |-> d[k]]
Merged(p, d) == [k \in Fields |-> IF k \in DOMAIN p THEN p[k] ELSE d[k]]

\* What backend the settings name; "none" when they do not.
BackendOf(u) ==
    CASE u[<<"uploads", "backend">>] \in {"none", "local"} -> "local"
      [] u[<<"uploads", "backend">>] = "gcs"   -> u[<<"uploads", "bucket">>]
      [] OTHER                                 -> "none"

NoHolder == [enabled |-> "off", backend |-> "none", build |-> "done"]
\* Holder.Reload: a backend that cannot be built leaves the one before.
Reloaded(h, u, built) ==
    [enabled |-> u[<<"uploads", "enabled">>],
     backend |-> IF built THEN BackendOf(u) ELSE h.backend,
     build   |-> IF built THEN "done" ELSE "failed"]

Fresh(pc) == [pc |-> pc, kind |-> "none", at |-> "none", groups |-> {},
              patch |-> << >>, left |-> {}, read |-> << >>, backend |-> "none"]

Init == /\ doc \in Deployments
        /\ up \in SUBSET Instances
        /\ snap = [i \in Instances |-> Part(IF i \in up THEN doc ELSE Zero, "ai")]
        /\ holder = [i \in Instances |->
                       IF i \notin up THEN NoHolder
                       ELSE Reloaded(NoHolder, Part(doc, "uploads"), TRUE)]
        /\ files = {} /\ blobs = {} /\ faults = 0
        /\ tokens = {doc[<<"slack", "token">>]} \ {"none"}
        /\ req = [r \in Requests |-> Fresh("new")]
        /\ crossed = {} /\ torn = {} /\ behind = {} /\ stray = {}

-----------------------------------------------------------------------------
(* How requests begin and end.                                              *)

\* r is at work on the groups g from here on.
CrossedBy(r, g) == LET others == {q \in Requests \ {r} : req[q].groups \cap g # {}}
                   IN  IF others = {} THEN {} ELSE others \cup {r}

Begin(r, i, kind, pc, g, patch) ==
    /\ req[r].pc = "new"
    /\ kind = "boot" \/ i \in up
    /\ req' = [req EXCEPT ![r] = [Fresh(pc) EXCEPT !.kind = kind, !.at = i,
                                    !.groups = g, !.patch = patch,
                                    !.left = DOMAIN patch]]
    /\ crossed' = crossed \cup CrossedBy(r, g)

Go(r, pc) == req' = [req EXCEPT ![r].pc = pc]
End(r, pc) == req' = [req EXCEPT ![r] = [Fresh(pc) EXCEPT !.backend = req[r].backend]]
Fault == faults < MaxFaults /\ faults' = faults + 1

-----------------------------------------------------------------------------
(* Patches.                                                                 *)

\* What UpdateSettingsHandler and UpdateAISettingsHandler refuse to store.
Usable(d, g) ==
    /\ g \in Switches /\ d[<<g, "enabled">>] = "on" => d[<<g, "value">>] = "usable"
    /\ g = "uploads" /\ d[<<g, "enabled">>] = "on" =>
          \/ d[<<g, "backend">>] = "local"
          \/ d[<<g, "backend">>] = "gcs" /\ d[<<g, "bucket">>] # "none"

\* A patch of the Portal's section has both of its switches checked.
Checked(p) == LET auth == {"customAuth", "googleAuth"}
              IN  Groups(p) \cup IF Groups(p) \cap auth = {} THEN {} ELSE auth

\* Mutated: only what the request sends is checked.
ValidByItself(p) == \A g \in Checked(p) : Usable(Merged(p, Zero), g)

\* A patch is checked with what the handler read in place of what it lacks.
Valid(p) == \A g \in Checked(p) : Usable(Merged(p, doc), g)

Save(r, i, p) == /\ Begin(r, i, "save", "writing", Groups(p), p)
                 /\ UNCHANGED <<doc, up, copies, storage, tokens, faults, torn,
                                behind, stray>>

\* A blank secret leaves the stored one; the toggles are no concern here.
SaveSlackApp(r) ==
    /\ \E i \in Instances :
          Begin(r, i, "app", "writing", {}, [k \in {<<"slack", "app">>} |-> "usable"])
    /\ UNCHANGED <<doc, up, copies, storage, tokens, faults, torn, behind, stray>>

UpdateSettings(r) == \E i \in Instances, p \in Patches : Valid(p) /\ Save(r, i, p)

\* GitHub has let the token read the repository; both are the request's.
UpdateGitHub(r) == \E i \in Instances : Save(r, i, [k \in GitHubFields |-> r])
DeleteGitHub(r) == \E i \in Instances : Save(r, i, [k \in GitHubFields |-> "none"])

\* Mutated: the holder is only rebuilt when uploads are switched.
AfterWritingReloadOnSwitch(q) ==
    CASE q.kind = "seed"           -> "starting"
      [] q.groups = {"ai"}         -> "refreshing"
      [] q.kind = "save" /\ <<"uploads", "enabled">> \in DOMAIN q.patch -> "reloading"
      [] OTHER                     -> "done"

\* SetValue of one field, and what follows the last one.
AfterWriting(q) ==
    CASE q.kind = "seed"           -> "starting"
      [] q.groups = {"ai"}         -> "refreshing"
      [] q.kind = "save" /\ "uploads" \in q.groups -> "reloading"
      [] OTHER                     -> "done"

\* The groups that r leaves torn once the last field of its patch is written.
Written(r) ==
    LET q == req[r] IN
    IF r \in crossed THEN torn \cup (Groups(q.patch) \cap q.groups)
    ELSE IF q.kind = "save" THEN torn \ Groups(q.patch)
    ELSE torn

\* The copies of the group g that r, at i, is not about to renew.
Elsewhere(i, g) == (Instances \ {i}) \X ({g} \cap {"ai", "uploads"})

WriteField(r) ==
    LET q == req[r] IN
    /\ q.pc = "writing"
    /\ \E k \in q.left :
          LET pc == IF q.left = {k} THEN AfterWriting(q) ELSE "writing" IN
          /\ doc' = [doc EXCEPT ![k] = q.patch[k]]
          /\ torn' = IF q.left = {k} THEN Written(r) ELSE torn
          /\ behind' = behind \cup Elsewhere(q.at, k[1])
          /\ IF pc = "done" THEN End(r, "done")
             ELSE req' = [req EXCEPT ![r].pc = pc, ![r].left = @ \ {k}]
    /\ UNCHANGED <<up, copies, storage, tokens, faults, crossed, stray>>

\* A write fails, or only its answer does: the fields left are not written and
\* nothing is renewed.  A boot logs it and goes on.
FailWrite(r) ==
    LET q == req[r] IN
    /\ q.pc = "writing" /\ Fault
    /\ \E k \in q.left, kept \in BOOLEAN :
          LET half == kept \/ q.left # DOMAIN q.patch IN
          /\ doc' = IF kept THEN [doc EXCEPT ![k] = q.patch[k]] ELSE doc
          /\ torn' = IF half THEN torn \cup (Groups(q.patch) \cap q.groups) ELSE torn
          /\ behind' = behind \cup (IF kept THEN Elsewhere(q.at, k[1]) ELSE {})
                       \cup IF half THEN {q.at} \X (Groups(q.patch) \cap {"ai", "uploads"})
                            ELSE {}
    /\ IF q.kind = "seed" THEN Go(r, "starting") ELSE End(r, "done")
    /\ UNCHANGED <<up, copies, storage, tokens, crossed, stray>>

-----------------------------------------------------------------------------
(* What an instance makes of the document.                                  *)

\* r has renewed its instance's copy of g; in peace, or not.
Renewed(r, g, peace) == LET c == <<req[r].at, g>>
                        IN  IF peace /\ r \notin crossed THEN behind \ {c}
                            ELSE behind \cup {c}

\* Worker.Refresh reads; without an answer the snapshot will be the zero one.
Refresh(r) ==
    /\ req[r].pc = "refreshing"
    /\ \/ /\ req' = [req EXCEPT ![r].pc = "swapping", ![r].read = Part(doc, "ai")]
          /\ UNCHANGED <<faults, crossed>>
       \/ /\ req' = [req EXCEPT ![r].pc = "swapping", ![r].read = Part(Zero, "ai")]
          /\ Fault /\ crossed' = crossed \cup {r}
    /\ UNCHANGED <<doc, up, copies, storage, tokens, torn, behind, stray>>

\* ... and swaps under its lock.  A boot is over then.
Swap(r) ==
    LET i == req[r].at IN
    /\ req[r].pc = "swapping"
    /\ snap' = [snap EXCEPT ![i] = req[r].read]
    /\ up' = up \cup {i}
    /\ behind' = Renewed(r, "ai", TRUE)
    /\ End(r, "done")
    /\ UNCHANGED <<doc, holder, storage, tokens, faults, crossed, torn, stray>>

\* UpdateSettingsHandler reads what it wrote; without an answer it stops.
ReadUploads(r) ==
    /\ req[r].pc = "reloading"
    /\ \/ /\ req' = [req EXCEPT ![r].pc = "building", ![r].read = Part(doc, "uploads")]
          /\ UNCHANGED <<faults, behind>>
       \/ /\ Fault /\ End(r, "done") /\ behind' = Renewed(r, "uploads", FALSE)
    /\ UNCHANGED <<doc, up, copies, storage, tokens, crossed, torn, stray>>

\* Holder.Reload builds outside the lock, then swaps; a boot has a new holder and
\* its worker starts with a Refresh.  The client of a bucket may fail to
\* authenticate, and the local directory to be made.
Reload(r) ==
    LET i == req[r].at
        u == req[r].read IN
    /\ req[r].pc \in {"building", "starting"}
    /\ \E built \in BOOLEAN :
          /\ BackendOf(u) = "none" => ~built
          /\ IF built \/ BackendOf(u) = "none" THEN UNCHANGED faults
             ELSE Fault
          /\ holder' = [holder EXCEPT ![i] = Reloaded(@, u, built)]
    /\ behind' = Renewed(r, "uploads", req[r].kind # "blind")
    /\ IF req[r].pc = "building" THEN End(r, "done") ELSE Go(r, "refreshing")
    /\ UNCHANGED <<doc, up, snap, storage, tokens, crossed, torn, stray>>

-----------------------------------------------------------------------------
(* A boot.                                                                  *)

\* The settings that main reads first are those the holder is built from.  Main
\* takes a failed read for a deployment without settings.
Boot(r) ==
    \E i \in Instances \ up :
       LET groups == {"templates", "uploads", "ai"} IN
       /\ \A q \in Requests : req[q].at # i
       /\ req[r].pc = "new"
       /\ crossed' = crossed \cup CrossedBy(r, groups)
       /\ \/ /\ req' = [req EXCEPT ![r] = [Fresh("migrating") EXCEPT !.kind = "boot",
                              !.at = i, !.groups = groups, !.read = Part(doc, "uploads")]]
             /\ UNCHANGED faults
          \/ /\ req' = [req EXCEPT ![r] = [Fresh("starting") EXCEPT !.kind = "blind",
                              !.at = i, !.groups = groups, !.read = Part(Zero, "uploads")]]
             /\ Fault
       /\ UNCHANGED <<doc, up, copies, storage, tokens, torn, behind, stray>>

Unchanged == UNCHANGED <<doc, up, copies, storage, tokens, crossed, torn, behind, stray>>

\* MigrateEntryTypeTemplatesToMultiLang asks for the group as a bson.M, but the
\* driver decodes a document inside another as a bson.D: with or without an
\* answer it returns here, and a flat map of old is neither lifted nor dropped.
Migrate(r) ==
    /\ req[r].pc = "migrating" /\ Go(r, "seeding")
    /\ UNCHANGED faults /\ Unchanged

\* EnsureFeedbackDefaults: seed where there is nothing by language.  From its
\* first read on a boot only fails forward.
Seed(r) ==
    LET byLang == <<"templates", "byLang">> IN
    /\ req[r].pc = "seeding"
    /\ \/ /\ doc[byLang] = "none"
          /\ req' = [req EXCEPT ![r].kind = "seed", ![r].pc = "writing", ![r].left = {byLang},
                                ![r].patch = [f \in {byLang} |-> "defaults"]]
          /\ UNCHANGED faults
       \/ doc[byLang] # "none" /\ Go(r, "starting") /\ UNCHANGED faults
       \/ Fault /\ Go(r, "starting")
    /\ Unchanged

-----------------------------------------------------------------------------
(* Slack.                                                                   *)

\* The admin has approved the app that SlackAuthorizeHandler named, and the
\* browser is back; the app's credentials may have been replaced or cleared.
Callback(r) ==
    /\ doc[<<"slack", "app">>] # "none"
    /\ \E i \in Instances : Begin(r, i, "save", "exchanging", {"slack"}, << >>)
    /\ UNCHANGED <<doc, up, copies, storage, tokens, faults, torn, behind, stray>>

\* ExchangeCode: Slack makes a webhook and a token, r for both, or refuses.  The
\* patch forgets the last error.
Connection(r) == [k \in SlackFields \ {<<"slack", "app">>} |->
                    IF k[2] = "error" THEN "none" ELSE r]
ExchangeCode(r) ==
    /\ req[r].pc = "exchanging"
    /\ \/ /\ tokens' = tokens \cup {r}
          /\ req' = [req EXCEPT ![r].pc = "writing", ![r].patch = Connection(r),
                                ![r].left = DOMAIN Connection(r)]
       \/ End(r, "done") /\ UNCHANGED tokens
    /\ UNCHANGED <<doc, up, copies, storage, faults, ghosts, stray>>

\* Revoke, as best it can.
Revoke(t) == \/ tokens' = tokens \ {t} /\ UNCHANGED faults
             \/ UNCHANGED tokens /\ Fault

\* DisconnectSlackIntegrationHandler revokes the token it reads and clears all.
DisconnectSlack(r) ==
    /\ \E i \in Instances :
          Begin(r, i, "save", "writing", {"slack"}, [k \in SlackFields |-> "none"])
    /\ Revoke(doc[<<"slack", "token">>])
    /\ UNCHANGED <<doc, up, copies, storage, torn, behind, stray>>

\* notifySlack, in the background of a Portal request.
Notify(r) ==
    LET webhook == doc[<<"slack", "webhook">>] IN
    /\ webhook # "none"
    /\ \E i \in Instances :
          Begin(r, i, webhook, "posting", {"slack"},
                [k \in {<<"slack", "error">>} |-> "failed"])
    /\ UNCHANGED <<doc, up, copies, storage, tokens, faults, torn, behind, stray>>

\* A post that fails is stamped onto the settings, whatever they say by then.
PostMessage(r) ==
    /\ req[r].pc = "posting"
    /\ \/ req[r].kind \in tokens /\ End(r, "done") /\ UNCHANGED faults
       \/ req[r].kind \notin tokens /\ Go(r, "writing") /\ UNCHANGED faults
       \/ Fault /\ Go(r, "writing")
    /\ UNCHANGED <<doc, up, copies, storage, tokens, ghosts, stray>>

-----------------------------------------------------------------------------
(* Uploads.                                                                 *)

\* RequireUploadsEnabledMiddleware asks the document.
Upload(r) ==
    /\ doc[<<"uploads", "enabled">>] = "on"
    /\ \E i \in Instances : Begin(r, i, "upload", "putting", {}, << >>)
    /\ UNCHANGED <<doc, up, copies, storage, tokens, faults, torn, behind, stray>>

\* A blob is there in whole or not at all: a file is renamed into its place, an
\* object committed.
PutBlob(b, f) == blobs' = blobs \cup {<<b, f>>}
DeleteBlob(b, f) == blobs' = blobs \ {<<b, f>>}

\* Holder.Put asks the holder, and puts the bytes where it points.
Accepts(h) == h.enabled = "on" /\ h.build = "done" /\ h.backend # "none"

\* A bucket may commit the object and its answer be lost; the handler undoes nothing.
PutFile(r) ==
    LET h == holder[req[r].at] IN
    /\ req[r].pc = "putting"
    /\ \/ /\ Accepts(h) /\ PutBlob(h.backend, r) /\ UNCHANGED <<faults, stray>>
          /\ req' = [req EXCEPT ![r].pc = "inserting", ![r].backend = h.backend]
       \/ ~Accepts(h) /\ End(r, "done") /\ UNCHANGED <<blobs, faults, stray>>
       \/ Accepts(h) /\ Fault /\ End(r, "done") /\ UNCHANGED <<blobs, stray>>
       \/ /\ Accepts(h) /\ h.backend \in Buckets /\ PutBlob(h.backend, r)
          /\ Fault /\ End(r, "done") /\ stray' = stray \cup {r}
    /\ UNCHANGED <<doc, up, copies, files, tokens, ghosts>>

\* An insert without an answer may have happened.
InsertFile(r) ==
    /\ req[r].pc = "inserting"
    /\ \/ files' = files \cup {r} /\ End(r, "created") /\ UNCHANGED <<faults, stray>>
       \/ /\ Fault /\ Go(r, "undoing")
          /\ \/ UNCHANGED <<files, stray>>
             \/ files' = files \cup {r} /\ stray' = stray \cup {r}
    /\ UNCHANGED <<doc, up, copies, blobs, tokens, ghosts>>

\* Mutated: the blob of an upload without a record stays.
DeleteFileNot(r) ==
    /\ req[r].pc = "undoing"
    /\ End(r, "done")
    /\ UNCHANGED <<doc, up, copies, storage, tokens, faults, ghosts, stray>>

\* The blob is deleted from the backend that the holder points to by now.
DeleteFile(r) ==
    LET now == holder[req[r].at].backend IN
    /\ req[r].pc = "undoing"
    /\ \/ /\ DeleteBlob(now, r) /\ UNCHANGED faults
          /\ stray' = IF now # req[r].backend THEN stray \cup {r} ELSE stray
       \/ UNCHANGED blobs /\ Fault /\ stray' = stray \cup {r}
    /\ End(r, "done")
    /\ UNCHANGED <<doc, up, copies, files, tokens, ghosts>>

\* GetFileHandler answers with the bytes.
Opens(i, f) == f \in files /\ <<holder[i].backend, f>> \in blobs

-----------------------------------------------------------------------------
Crash(i) ==
    LET here == {r \in Requests : req[r].at = i}
        half == {r \in here : req[r].patch # << >> /\ req[r].left # DOMAIN req[r].patch} IN
    /\ i \in up \/ here # {}
    /\ Fault
    /\ up' = up \ {i}
    /\ snap' = [snap EXCEPT ![i] = Part(Zero, "ai")]
    /\ holder' = [holder EXCEPT ![i] = NoHolder]
    /\ req' = [r \in Requests |-> IF r \in here THEN Fresh("dead") ELSE req[r]]
    /\ torn' = torn \cup UNION {Groups(req[r].patch) \cap req[r].groups : r \in half}
    /\ stray' = stray \cup {r \in here : req[r].pc \in {"inserting", "undoing"}}
    /\ UNCHANGED <<doc, storage, tokens, crossed, behind>>

Next == \/ \E r \in Requests :
              \/ UpdateSettings(r) \/ UpdateGitHub(r) \/ DeleteGitHub(r)
              \/ SaveSlackApp(r) \/ Callback(r) \/ ExchangeCode(r)
              \/ DisconnectSlack(r) \/ Notify(r) \/ PostMessage(r)
              \/ WriteField(r) \/ FailWrite(r) \/ Refresh(r) \/ Swap(r)
              \/ ReadUploads(r) \/ Reload(r)
              \/ Boot(r) \/ Migrate(r) \/ Seed(r)
              \/ Upload(r) \/ PutFile(r) \/ InsertFile(r) \/ DeleteFile(r)
        \/ \E i \in Instances : Crash(i)

Spec == Init /\ [][Next]_vars

-----------------------------------------------------------------------------
\* No group's invariant breaks but by an overlap or a failure amid a patch: what
\* is switched on has what it needs, Slack's webhook, token and last error belong to
\* one connection, and so do GitHub's repository and token.
Whole(d, g) ==
    /\ Usable(d, g)
    /\ g = "slack" => /\ d[<<g, "webhook">>] = d[<<g, "token">>]
                      /\ d[<<g, "error">>] # "none" => d[<<g, "webhook">>] # "none"
    /\ g = "github" => d[<<g, "repo">>] = d[<<g, "token">>]

\* Setup and the versions before wrote documents that hold together.
ASSUME DeploymentsAreWhole == \A d \in Deployments : \A g \in Groups(d) : Whole(d, g)

Writing(g) == \E r \in Requests : req[r].patch # << >> /\ g \in req[r].groups
SettingsHold == \A g \in Groups(doc) : g \in torn \/ Writing(g) \/ Whole(doc, g)

\* An instance that served the last save, or booted after it, works with what the
\* document says ("picks up the new configuration on the next poll tick", "hot-swapped"):
\* its snapshot and its holder follow, unless two of these overlapped.
Renewing(g) == \E r \in Requests : g \in req[r].groups
InstancesFollow ==
    \A i \in up, u \in {Part(doc, "uploads")} :
       /\ Renewing("ai") \/ <<i, "ai">> \in behind \/ snap[i] = Part(doc, "ai")
       /\ \/ Renewing("uploads") \/ <<i, "uploads">> \in behind
          \/ /\ holder[i].enabled = u[<<"uploads", "enabled">>]
             /\ holder[i].build = "failed" \/ holder[i].backend = BackendOf(u)

\* A file whose upload was answered opens wherever the backend that took it is at
\* work, however the settings changed meanwhile; an upload that failed leaves
\* neither a record nor a blob, unless a bucket kept the object of a failed Put, or
\* what should undo the upload failed, never ran or met another backend.
FilesMatchBlobs ==
    \A r \in Requests :
       /\ req[r].pc = "created" =>
             /\ \A i \in up : holder[i].backend = req[r].backend => Opens(i, r)
             /\ <<req[r].backend, r>> \in blobs
       /\ req[r].pc \in {"done", "dead"} /\ r \notin stray =>
             r \notin files /\ \A b \in Backends : <<b, r>> \notin blobs
=============================================================================
