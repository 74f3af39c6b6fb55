------------------------- MODULE EntryTypeAnalysis --------------------------
(***************************************************************************)
(* The queue of the entry-type analyzer.  Every instance runs one Worker   *)
(* that polls the entries collection, claims one entry by an atomic        *)
(* findOneAndUpdate, calls the model, and writes the outcome over the      *)
(* entry's entrytypeanalysis sub-document.  A claim is a timestamp with a  *)
(* TTL; it does not say whose it is.  Admins assign and clear entry types  *)
(* meanwhile (UpdateEntryHandler, SetEntryType), and any mutation of an    *)
(* entry bumps its updatedat.                                              *)
(***************************************************************************)
EXTENDS Integers, FiniteSets

CONSTANTS Workers,         \* instances, each with one Worker
          Entries,
          NoEntry,         \* what an idle Worker works on
          Updates,         \* requests that change an entry's type
          MaxOverruns,     \* bound: claims that run out at work, per entry
          MaxBumps,        \* bound: mutations that bump updatedat
          MaxFaults        \* bound: failed calls and writes, crashes

ASSUME ConstantsAssumption == /\ NoEntry \notin Entries
                              /\ MaxOverruns \in Nat
                              /\ MaxBumps \in Nat
                              /\ MaxFaults \in Nat

VARIABLES entries, \* the entries that were submitted
          typed,   \* those whose EntryType is set
          status,  \* EntryTypeAnalysis.Status; "unset" is its zero value
          claim,   \* its ClaimedAt: zero, within the TTL, or older
          stale,   \* the entries whose AnalyzedAt is older than UpdatedAt
          enabled, \* the instances whose snapshot says that AI is enabled
          wrk,     \* what the Worker of every instance is doing
          upd,     \* the type-change requests
          bumps, faults,
          overruns, \* ghost: how many claims of an entry ran out at work
          late      \* ghost: entries that a call marked failed when another
                    \* call had answered meanwhile

analysis == <<status, claim, stale>>
ghosts == <<overruns, late>>
vars == <<entries, typed, analysis, enabled, wrk, upd, bumps, faults, ghosts>>

NoWork == [pc |-> "idle", entry |-> NoEntry]

\* NewEntry leaves the analysis at its zero value.
Init == /\ entries = {} /\ typed = {}
        /\ status = [e \in Entries |-> "unset"]
        /\ claim = [e \in Entries |-> "none"]
        /\ stale = Entries
        /\ enabled \in SUBSET Workers
        /\ wrk = [w \in Workers |-> NoWork]
        /\ upd \in [Updates -> [pc : {"new"}, entry : Entries,
                                 change : {"assign", "clear"}]]
        /\ bumps = 0 /\ faults = 0
        /\ overruns = [e \in Entries |-> 0] /\ late = {}

\* SubmitEntryHandler inserts the entry, with or without a type, in one write;
\* an entry with a type is born disabled.
Submit(e) ==
    /\ e \notin entries
    /\ entries' = entries \cup {e}
    /\ \/ UNCHANGED <<typed, status, ghosts>>
       \/ /\ typed' = typed \cup {e}
          /\ status' = [status EXCEPT ![e] = "disabled"]
    /\ UNCHANGED <<claim, stale, enabled, wrk, upd, bumps, faults, ghosts>>

-----------------------------------------------------------------------------
(* The Worker.                                                             *)

\* Refresh: the instance's snapshot is read again from the settings.
Refresh(w) ==
    /\ \/ enabled' = enabled \cup {w}
       \/ enabled' = enabled \ {w}
    /\ UNCHANGED <<entries, typed, analysis, wrk, upd, bumps, faults, ghosts>>

\* Mutated: the first conjunct of the filter is dropped.
NeedsAnalysisIfDisabled(e) ==
    e \in entries /\ (status[e] \in {"unset", "failed"} \/ e \in stale)

NeedsAnalysis(e) ==
    /\ e \in entries
    /\ status[e] # "disabled"
    /\ status[e] \in {"unset", "failed"} \/ e \in stale

\* Mutated: a claim of any age is available.
ClaimAvailableAtOnce(e) == claim[e] \in {"none", "live", "expired"}

\* Mutated: an old claim is not available.
ClaimAvailableWithoutTTL(e) == claim[e] = "none"

ClaimAvailable(e) == claim[e] \in {"none", "expired"}

\* Mutated: processOne goes on when nothing was claimed.
ClaimNextUnchecked(w) ==
    /\ wrk[w].pc = "idle" /\ w \in enabled
    /\ IF \E e \in Entries : NeedsAnalysis(e) /\ ClaimAvailable(e)
       THEN \E e \in Entries :
               /\ NeedsAnalysis(e) /\ ClaimAvailable(e)
               /\ status' = [status EXCEPT ![e] = "pending"]
               /\ claim' = [claim EXCEPT ![e] = "live"]
               /\ wrk' = [wrk EXCEPT ![w] = [pc |-> "claimed", entry |-> e]]
       ELSE /\ wrk' = [wrk EXCEPT ![w].pc = "claimed"]
            /\ UNCHANGED <<status, claim, ghosts>>
    /\ UNCHANGED <<entries, typed, stale, enabled, upd, bumps, faults, ghosts>>

\* processOne of an enabled worker claims any entry that needs analysis.
ClaimNext(w) ==
    /\ wrk[w].pc = "idle" /\ w \in enabled
    /\ \E e \in Entries :
          /\ NeedsAnalysis(e) /\ ClaimAvailable(e)
          /\ status' = [status EXCEPT ![e] = "pending"]
          /\ claim' = [claim EXCEPT ![e] = "live"]
          /\ wrk' = [wrk EXCEPT ![w] = [pc |-> "claimed", entry |-> e]]
    /\ UNCHANGED <<entries, typed, stale, enabled, upd, bumps, faults, ghosts>>

\* Process looks at the snapshot again: AI may have been switched off since.
Process(w) ==
    /\ wrk[w].pc = "claimed"
    /\ wrk' = [wrk EXCEPT ![w].pc = IF w \in enabled THEN "calling"
                                    ELSE "releasing"]
    /\ UNCHANGED <<entries, typed, analysis, enabled, upd, bumps, faults, ghosts>>

\* SetEntryTypeAnalysis overwrites the whole sub-document, and claimedat is
\* zero in what it writes.
SetEntryTypeAnalysis(w, e, newStatus) ==
    /\ status' = [status EXCEPT ![e] = newStatus]
    /\ claim' = [claim EXCEPT ![e] = "none"]
    /\ wrk' = [wrk EXCEPT ![w] = NoWork]
    /\ UNCHANGED <<entries, typed, enabled, upd, bumps, faults, ghosts>>

\* Mutated: the release clears the claim and stamps analyzedat, and forgets the
\* status the claim has set.
ReleaseClaimOnly(w) ==
    /\ wrk[w].pc = "releasing"
    /\ claim' = [claim EXCEPT ![wrk[w].entry] = "none"]
    /\ stale' = stale \ {wrk[w].entry}
    /\ wrk' = [wrk EXCEPT ![w] = NoWork]
    /\ UNCHANGED <<entries, typed, status, enabled, upd, bumps, faults, ghosts>>

\* AI was off: an empty analysis, whose analyzedat is zero.
Release(w) ==
    /\ wrk[w].pc = "releasing"
    /\ stale' = stale \cup {wrk[w].entry}
    /\ SetEntryTypeAnalysis(w, wrk[w].entry, "unset")

\* The call returned a suggestion, analyzedat is now.
Succeed(w) ==
    /\ wrk[w].pc = "calling"
    /\ stale' = stale \ {wrk[w].entry}
    /\ SetEntryTypeAnalysis(w, wrk[w].entry, "done")

\* The call failed: FailEntryTypeAnalysis writes the status first ...
FailStatus(w) ==
    /\ faults < MaxFaults /\ faults' = faults + 1
    /\ wrk[w].pc = "calling"
    /\ status' = [status EXCEPT ![wrk[w].entry] = "failed"]
    /\ late' = IF wrk[w].entry \in stale THEN late
               ELSE late \cup {wrk[w].entry}
    /\ wrk' = [wrk EXCEPT ![w].pc = "failing"]
    /\ UNCHANGED <<entries, typed, claim, stale, enabled, upd, bumps, overruns>>

\* ... and clears claimedat last.
FailClaim(w) ==
    /\ wrk[w].pc = "failing"
    /\ claim' = [claim EXCEPT ![wrk[w].entry] = "none"]
    /\ wrk' = [wrk EXCEPT ![w] = NoWork]
    /\ UNCHANGED <<entries, typed, status, stale, enabled, upd, bumps, faults, ghosts>>

\* A write of the worker fails, or its instance dies and boots again: the rest
\* of the processing is lost, the claim stays.
Abandon(w) ==
    /\ faults < MaxFaults /\ faults' = faults + 1
    /\ wrk[w].pc # "idle"
    /\ wrk' = [wrk EXCEPT ![w] = NoWork]
    /\ UNCHANGED <<entries, typed, analysis, enabled, upd, bumps, ghosts>>

Worker(w) == \/ ClaimNext(w)
             \/ Process(w)
             \/ Release(w)
             \/ Succeed(w)
             \/ FailStatus(w)
             \/ FailClaim(w)

AtWork(e) == {w \in Workers : wrk[w].entry = e}
Unattended(e) == AtWork(e) = {}

\* A claim gets older than the TTL, whether its worker abandoned it or is still
\* at work: no deadline is set on the call to the model, which the client gives
\* its own timeout and retries.
Expire(e) ==
    /\ claim[e] = "live"
    /\ claim' = [claim EXCEPT ![e] = "expired"]
    /\ \/ Unattended(e) /\ UNCHANGED overruns
       \/ /\ ~Unattended(e) /\ overruns[e] < MaxOverruns
          /\ overruns' = [overruns EXCEPT ![e] = @ + 1]
    /\ UNCHANGED <<entries, typed, status, stale, enabled, wrk, upd, bumps,
                   faults, late>>

-----------------------------------------------------------------------------
(* The handlers that touch an entry.                                       *)

\* UpdateEntryHandler reads the entry and has a change to make.
ReadEntry(u) ==
    /\ upd[u].pc = "new"
    /\ upd[u].entry \in entries
    /\ upd[u].change = "assign" \/ upd[u].entry \in typed
    /\ upd' = [upd EXCEPT ![u].pc = "type"]
    /\ UNCHANGED <<entries, typed, analysis, enabled, wrk, bumps, faults, ghosts>>

\* SetEntryType writes entrytype, ...
WriteType(u) ==
    /\ upd[u].pc = "type"
    /\ IF upd[u].change = "assign"
       THEN /\ typed' = typed \cup {upd[u].entry}
            /\ upd' = [upd EXCEPT ![u].pc = "disable"]
       ELSE /\ typed' = typed \ {upd[u].entry}
            /\ upd' = [upd EXCEPT ![u].pc = "touch"]
    /\ UNCHANGED <<entries, analysis, enabled, wrk, bumps, faults, ghosts>>

\* ... disables the analysis of an entry that gets a type, ...
WriteDisabled(u) ==
    /\ upd[u].pc = "disable"
    /\ status' = [status EXCEPT ![upd[u].entry] = "disabled"]
    /\ upd' = [upd EXCEPT ![u].pc = "touch"]
    /\ UNCHANGED <<entries, typed, claim, stale, enabled, wrk, bumps, faults, ghosts>>

\* ... and touches updatedat.
Touch(u) ==
    /\ upd[u].pc = "touch"
    /\ stale' = stale \cup {upd[u].entry}
    /\ upd' = [upd EXCEPT ![u].pc = "done"]
    /\ UNCHANGED <<entries, typed, status, claim, enabled, wrk, bumps, faults, ghosts>>

\* A write fails, or the instance dies under the request.
AbortUpdate(u) ==
    /\ upd[u].pc \in {"type", "disable", "touch"}
    /\ upd' = [upd EXCEPT ![u].pc = "aborted"]
    /\ UNCHANGED <<entries, typed, analysis, enabled, wrk, bumps, faults, ghosts>>

UpdateType(u) == \/ ReadEntry(u)
                 \/ WriteType(u)
                 \/ WriteDisabled(u)
                 \/ Touch(u)
                 \/ AbortUpdate(u)

\* Any other mutation of the entry, a vote or a comment included.
Bump(e) ==
    /\ bumps < MaxBumps /\ bumps' = bumps + 1
    /\ e \in entries
    /\ stale' = stale \cup {e}
    /\ UNCHANGED <<entries, typed, status, claim, enabled, wrk, upd, faults, ghosts>>

-----------------------------------------------------------------------------
Next == \/ \E w \in Workers : Worker(w) \/ Refresh(w) \/ Abandon(w)
        \/ \E e \in Entries : Submit(e) \/ Expire(e) \/ Bump(e)
        \/ \E u \in Updates : UpdateType(u)

Spec == Init /\ [][Next]_vars

\* The poller is a goroutine on a ticker and its call to the model returns in
\* the end, with an answer or an error; time passes.
FairSpec == /\ Spec
            /\ \A w \in Workers : WF_vars(Worker(w))
            /\ \A e \in Entries : WF_vars(Expire(e))
-----------------------------------------------------------------------------
(* Properties.                                                             *)

\* Every variable stays in its type; exactly a Worker that is not idle has an
\* entry to work on.
TypeOK ==
    /\ entries \in SUBSET Entries
    /\ typed \in SUBSET Entries
    /\ status \in [Entries -> {"unset", "pending", "done", "failed", "disabled"}]
    /\ claim \in [Entries -> {"none", "live", "expired"}]
    /\ stale \in SUBSET Entries
    /\ enabled \in SUBSET Workers
    /\ wrk \in [Workers -> [pc : {"idle", "claimed", "calling", "releasing",
                                   "failing"},
                             entry : Entries \cup {NoEntry}]]
    /\ \A w \in Workers : wrk[w].pc = "idle" <=> wrk[w].entry = NoEntry
    /\ upd \in [Updates -> [pc : {"new", "type", "disable", "touch", "done",
                                   "aborted"},
                             entry : Entries, change : {"assign", "clear"}]]
    /\ bumps \in 0..MaxBumps
    /\ faults \in 0..MaxFaults
    /\ overruns \in [Entries -> 0..MaxOverruns] /\ late \in SUBSET Entries

\* As many instances process the same entry at once as claims of it ran out
\* under a call, and one more; one at most, if none did.  A claim names no
\* owner, so an instance that was overtaken clears the claim of the one that
\* overtook it, and may let in a third: this bounds what that can lead to
\* (worker.go:46-50: two instances "will never process the same entry").
OverlapsBounded ==
    \A e \in Entries : Cardinality(AtWork(e)) <= overruns[e] + 1

\* An entry that is neither analysed nor disabled and that nobody is processing
\* matches the filter, so that somebody will claim it once its claim is gone.
Claimable(e) ==
    Unattended(e) /\ status[e] \in {"unset", "pending", "failed"}
    => NeedsAnalysis(e)

\* Crashed instances are recovered from automatically: no entry is left pending
\* for ever (entry.go:428-431).  It does not hold.
NothingStuck == \A e \in entries : Claimable(e)

\* The one way to strand an entry is that of a call that outlives its claim and
\* then fails, after another call has answered: no order of crashes, failures,
\* switches of the AI, edits and other overruns strands any.
StrandedOnlyByLateFailure == \A e \in entries \ late : Claimable(e)

\* Once an entry is disabled and nobody is processing it, it stays disabled,
\* though the type be cleared and updatedat bumped ("the decision is one-way",
\* entry.go:334-337).
DisabledIsFinal ==
    [][\A e \in entries :
          status[e] = "disabled" /\ Unattended(e)
          => status'[e] = "disabled"]_vars

\* As long as AI is in the end on everywhere, every entry ends up analysed or
\* disabled, and without a running claim, whatever failed, crashed or ran out on
\* the way (worker.go:50-53: crashed claims are reclaimed with no sweeper); all
\* but those that a late failure struck.
QueueDrains ==
    <>[](enabled = Workers)
    => <>[](\A e \in entries \ late :
               status[e] \in {"done", "disabled"} /\ claim[e] # "live")
=============================================================================
