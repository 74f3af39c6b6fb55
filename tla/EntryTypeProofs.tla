-------------------------- MODULE EntryTypeProofs ---------------------------
(***************************************************************************)
(* Proofs about the queue of the entry-type analyzer, for any number of    *)
(* instances, entries, requests, mutations and faults.                     *)
(***************************************************************************)
EXTENDS EntryTypeAnalysis, FiniteSetTheorems, TLAPS

-----------------------------------------------------------------------------
(* Types.                                                                  *)

\* Every variable of the queue always has its type: a Worker that is not idle
\* has an entry, the guard of processOne against an empty claim.
THEOREM QueueTyped == Spec => []TypeOK
<1> USE ConstantsAssumption DEF ConstantsAssumption
<1>1. Init => TypeOK
  BY DEF Init, TypeOK, NoWork
<1>2. TypeOK /\ [Next]_vars => TypeOK'
  <2> SUFFICES ASSUME TypeOK, [Next]_vars PROVE TypeOK'
    OBVIOUS
  <2> USE DEF TypeOK, NoWork, analysis, ghosts
  <2>1. ASSUME NEW w \in Workers, ClaimNext(w) PROVE TypeOK'
    BY <2>1 DEF ClaimNext
  <2>2. ASSUME NEW w \in Workers, Process(w) PROVE TypeOK'
    <3>1. \/ wrk' = [wrk EXCEPT ![w].pc = "calling"]
          \/ wrk' = [wrk EXCEPT ![w].pc = "releasing"]
      BY <2>2 DEF Process
    <3>2. wrk[w].pc # "idle" /\ wrk[w].entry # NoEntry
      BY <2>2 DEF Process
    <3>3. wrk'[w].pc # "idle" /\ wrk'[w].entry # NoEntry
      BY <3>1, <3>2
    <3>4. \A v \in Workers : v # w => wrk'[v] = wrk[v]
      BY <3>1
    <3>5. \A v \in Workers : wrk'[v].pc = "idle" <=> wrk'[v].entry = NoEntry
      BY <3>3, <3>4
    <3>6. wrk' \in [Workers -> [pc : {"idle", "claimed", "calling", "releasing",
                                      "failing"},
                                entry : Entries \cup {NoEntry}]]
      BY <3>1
    <3>7. UNCHANGED <<entries, typed, status, claim, stale, enabled, upd, bumps,
                      faults, overruns, late>>
      BY <2>2 DEF Process
    <3> QED
      BY <3>5, <3>6, <3>7
  <2>3. ASSUME NEW w \in Workers, Release(w) \/ Succeed(w) PROVE TypeOK'
    <3>1. CASE Release(w)
      BY <3>1 DEF Release, SetEntryTypeAnalysis
    <3>2. CASE Succeed(w)
      BY <3>2 DEF Succeed, SetEntryTypeAnalysis
    <3> QED
      BY <2>3, <3>1, <3>2
  <2>4. ASSUME NEW w \in Workers, FailStatus(w) PROVE TypeOK'
    BY <2>4 DEF FailStatus
  <2>5. ASSUME NEW w \in Workers, FailClaim(w) PROVE TypeOK'
    BY <2>5 DEF FailClaim
  <2>6. ASSUME NEW w \in Workers, Refresh(w) PROVE TypeOK'
    BY <2>6 DEF Refresh
  <2>7. ASSUME NEW w \in Workers, Abandon(w) PROVE TypeOK'
    BY <2>7 DEF Abandon
  <2>8. ASSUME NEW e \in Entries, Submit(e) PROVE TypeOK'
    BY <2>8 DEF Submit
  <2>9. ASSUME NEW e \in Entries, Expire(e) PROVE TypeOK'
    BY <2>9 DEF Expire
  <2>10. ASSUME NEW e \in Entries, Bump(e) PROVE TypeOK'
    BY <2>10 DEF Bump
  <2>11. ASSUME NEW u \in Updates, UpdateType(u) PROVE TypeOK'
    <3>1. CASE ReadEntry(u) \/ AbortUpdate(u)
      BY <3>1 DEF ReadEntry, AbortUpdate
    <3>2. CASE WriteType(u)
      BY <3>2 DEF WriteType
    <3>3. CASE WriteDisabled(u)
      BY <3>3 DEF WriteDisabled
    <3>4. CASE Touch(u)
      BY <3>4 DEF Touch
    <3> QED
      BY <2>11, <3>1, <3>2, <3>3, <3>4 DEF UpdateType
  <2>12. CASE UNCHANGED vars
    BY <2>12 DEF vars
  <2> QED
    BY <2>1, <2>2, <2>3, <2>4, <2>5, <2>6, <2>7, <2>8, <2>9, <2>10, <2>11,
       <2>12 DEF Next, Worker
<1> QED
  BY <1>1, <1>2, PTL DEF Spec

-----------------------------------------------------------------------------
(* The claim as a lock without an owner.                                   *)

\* What a live claim of an entry allows: one more instance at work on it.
Allowed(e) == overruns[e] + (IF claim[e] = "live" THEN 1 ELSE 0)

\* The instances at work on an entry, without the one a live claim stands for,
\* are as many as claims ran out at work at most.  It is inductive where
\* OverlapsBounded is not: a claim is taken only when none is live.
Balanced(e) == /\ IsFiniteSet(AtWork(e))
               /\ Cardinality(AtWork(e)) <= Allowed(e)

OverlapInv == TypeOK /\ \A e \in Entries : Balanced(e)

\* Nothing that Balanced speaks of changes.
LEMMA StaysBalanced ==
    ASSUME NEW e \in Entries, Balanced(e), AtWork(e)' = AtWork(e),
           overruns' = overruns, claim'[e] = claim[e]
    PROVE  Balanced(e)'
BY DEF Balanced, Allowed

\* An idle Worker takes an entry: it joins those at work on it.
LEMMA Joins ==
    ASSUME TypeOK, NEW w \in Workers, NEW e \in Entries, wrk[w].pc = "idle",
           wrk' = [wrk EXCEPT ![w] = [pc |-> "claimed", entry |-> e]]
    PROVE  /\ AtWork(e)' = AtWork(e) \cup {w} /\ w \notin AtWork(e)
           /\ \A f \in Entries : f # e => AtWork(f)' = AtWork(f)
<1> USE DEF TypeOK, ConstantsAssumption
<1>1. wrk[w].entry = NoEntry /\ e # NoEntry
  BY ConstantsAssumption
<1>2. wrk'[w].entry = e /\ \A v \in Workers : v # w => wrk'[v] = wrk[v]
  OBVIOUS
<1>3. \A f \in Entries : f # NoEntry
  BY ConstantsAssumption
<1> QED
  BY <1>1, <1>2, <1>3 DEF AtWork

\* A Worker becomes idle: it leaves those at work on its entry.
LEMMA Leaves ==
    ASSUME TypeOK, NEW w \in Workers, NEW e \in Entries, wrk[w].entry = e,
           wrk' = [wrk EXCEPT ![w] = NoWork]
    PROVE  /\ AtWork(e)' = AtWork(e) \ {w} /\ w \in AtWork(e)
           /\ \A f \in Entries : f # e => AtWork(f)' = AtWork(f)
<1> USE DEF TypeOK, ConstantsAssumption, NoWork
<1>1. wrk'[w].entry = NoEntry /\ \A v \in Workers : v # w => wrk'[v] = wrk[v]
  OBVIOUS
<1>2. \A f \in Entries : f # NoEntry
  BY ConstantsAssumption
<1> QED
  BY <1>1, <1>2 DEF AtWork

\* A Worker that leaves pays back what its entry's claim may lose with it.
LEMMA LeavingBalances ==
    ASSUME OverlapInv, NEW w \in Workers, wrk[w].pc # "idle",
           wrk' = [wrk EXCEPT ![w] = NoWork], overruns' = overruns,
           \A f \in Entries : f # wrk[w].entry => claim'[f] = claim[f]
    PROVE  \A e \in Entries : Balanced(e)'
<1> TypeOK
  BY DEF OverlapInv
<1>1. PICK own \in Entries : wrk[w].entry = own
  BY DEF TypeOK
<1>2. /\ AtWork(own)' = AtWork(own) \ {w} /\ w \in AtWork(own)
      /\ \A f \in Entries : f # own => AtWork(f)' = AtWork(f)
  BY <1>1, Leaves
<1>3. Balanced(own)'
  <2>1. IsFiniteSet(AtWork(own)) /\ Cardinality(AtWork(own)) <= Allowed(own)
    BY DEF OverlapInv, Balanced
  <2>2. /\ IsFiniteSet(AtWork(own) \ {w})
        /\ Cardinality(AtWork(own) \ {w}) = Cardinality(AtWork(own)) - 1
    BY <1>2, <2>1, FS_RemoveElement
  <2>3. Cardinality(AtWork(own)) \in Nat /\ overruns[own] \in Nat
    BY <2>1, FS_CardinalityType, ConstantsAssumption
       DEF TypeOK, ConstantsAssumption
  <2>4. /\ Allowed(own) \in {overruns[own], overruns[own] + 1}
        /\ Allowed(own)' \in {overruns[own], overruns[own] + 1}
    BY <2>3 DEF Allowed
  <2>5. Cardinality(AtWork(own)) - 1 <= Allowed(own)'
    BY <2>1, <2>3, <2>4
  <2> QED
    BY <1>2, <2>2, <2>5 DEF Balanced
<1>4. ASSUME NEW e \in Entries, e # own PROVE Balanced(e)'
  BY <1>1, <1>2, <1>4, StaysBalanced DEF OverlapInv
<1> QED
  BY <1>3, <1>4

\* No step but those of a Worker that takes or leaves an entry, and of a claim
\* that runs out, changes what Balanced speaks of.
LEMMA QuietBalanced ==
    ASSUME OverlapInv, overruns' = overruns, claim' = claim,
           \A w \in Workers : wrk'[w].entry = wrk[w].entry
    PROVE  \A e \in Entries : Balanced(e)'
<1> TAKE e \in Entries
<1>1. AtWork(e)' = AtWork(e)
  BY DEF AtWork
<1> QED
  BY <1>1, StaysBalanced DEF OverlapInv

LEMMA ClaimBalances ==
    ASSUME OverlapInv, NEW w \in Workers, ClaimNext(w)
    PROVE  \A f \in Entries : Balanced(f)'
<1> TypeOK
  BY DEF OverlapInv
<1>1. PICK e \in Entries :
         /\ claim[e] # "live"
         /\ claim' = [claim EXCEPT ![e] = "live"]
         /\ wrk' = [wrk EXCEPT ![w] = [pc |-> "claimed", entry |-> e]]
  BY DEF ClaimNext, ClaimAvailable
<1>2. wrk[w].pc = "idle" /\ overruns' = overruns
  BY DEF ClaimNext, ghosts
<1>3. /\ AtWork(e)' = AtWork(e) \cup {w} /\ w \notin AtWork(e)
      /\ \A f \in Entries : f # e => AtWork(f)' = AtWork(f)
  BY <1>1, <1>2, Joins
<1>4. IsFiniteSet(AtWork(e)) /\ Cardinality(AtWork(e)) <= overruns[e]
  <2>1. overruns[e] \in Nat
    BY ConstantsAssumption DEF TypeOK, ConstantsAssumption
  <2> QED
    BY <1>1, <2>1 DEF OverlapInv, Balanced, Allowed
<1>5. Balanced(e)'
  <2>1. /\ IsFiniteSet(AtWork(e) \cup {w})
        /\ Cardinality(AtWork(e) \cup {w}) = Cardinality(AtWork(e)) + 1
    BY <1>3, <1>4, FS_AddElement
  <2>2. Cardinality(AtWork(e)) \in Nat /\ overruns[e] \in Nat
    BY <1>4, FS_CardinalityType, ConstantsAssumption
       DEF TypeOK, ConstantsAssumption
  <2>3. Allowed(e)' = overruns[e] + 1
    BY <1>1, <1>2 DEF Allowed, TypeOK
  <2>4. Cardinality(AtWork(e)) + 1 <= overruns[e] + 1
    BY <1>4, <2>2
  <2> QED
    BY <1>3, <2>1, <2>3, <2>4 DEF Balanced
<1>6. ASSUME NEW f \in Entries, f # e PROVE Balanced(f)'
  <2>1. claim'[f] = claim[f]
    BY <1>1, <1>6 DEF TypeOK
  <2> QED
    BY <1>2, <1>3, <1>6, <2>1, StaysBalanced DEF OverlapInv
<1> QED
  BY <1>5, <1>6

LEMMA ExpiryBalances ==
    ASSUME OverlapInv, NEW e \in Entries, Expire(e)
    PROVE  \A f \in Entries : Balanced(f)'
<1> TypeOK
  BY DEF OverlapInv
<1>1. /\ claim[e] = "live" /\ claim' = [claim EXCEPT ![e] = "expired"]
      /\ wrk' = wrk
  BY DEF Expire
<1>2. \A f \in Entries : AtWork(f)' = AtWork(f)
  BY <1>1 DEF AtWork
<1>3. overruns[e] \in Nat
  BY ConstantsAssumption DEF TypeOK, ConstantsAssumption
<1>4. Balanced(e)'
  <2>1. CASE Unattended(e)
    <3>1. AtWork(e) = {} /\ overruns' = overruns
      BY <2>1 DEF Unattended, Expire
    <3>2. IsFiniteSet({}) /\ Cardinality({}) = 0
      BY FS_EmptySet
    <3>3. Allowed(e)' = overruns[e]
      BY <1>1, <3>1, <1>3 DEF Allowed, TypeOK
    <3> QED
      BY <1>2, <1>3, <3>1, <3>2, <3>3 DEF Balanced
  <2>2. CASE ~Unattended(e)
    <3>1. overruns' = [overruns EXCEPT ![e] = @ + 1]
      BY <2>2 DEF Expire
    <3>2. Allowed(e)' = overruns[e] + 1 /\ Allowed(e) = overruns[e] + 1
      BY <1>1, <1>3, <3>1 DEF Allowed, TypeOK
    <3> QED
      BY <1>2, <3>2 DEF OverlapInv, Balanced
  <2> QED
    BY <2>1, <2>2
<1>5. ASSUME NEW f \in Entries, f # e PROVE Balanced(f)'
  <2>1. claim'[f] = claim[f] /\ overruns'[f] = overruns[f]
    BY <1>1, <1>5 DEF Expire, TypeOK
  <2> QED
    BY <1>2, <2>1 DEF OverlapInv, Balanced, Allowed
<1> QED
  BY <1>4, <1>5

LEMMA OverlapInvStep ==
    ASSUME OverlapInv, TypeOK', [Next]_vars
    PROVE  OverlapInv'
<1> USE DEF ghosts, analysis
<1> TypeOK
  BY DEF OverlapInv
<1>1. ASSUME NEW w \in Workers, ClaimNext(w) PROVE OverlapInv'
  BY <1>1, ClaimBalances DEF OverlapInv
<1>2. ASSUME NEW w \in Workers,
             Release(w) \/ Succeed(w) \/ FailClaim(w) \/ Abandon(w)
      PROVE  OverlapInv'
  <2>1. /\ wrk[w].pc # "idle" /\ wrk' = [wrk EXCEPT ![w] = NoWork]
        /\ overruns' = overruns
    BY <1>2 DEF Release, Succeed, FailClaim, Abandon, SetEntryTypeAnalysis
  <2>2. \A f \in Entries : f # wrk[w].entry => claim'[f] = claim[f]
    BY <1>2 DEF Release, Succeed, FailClaim, Abandon, SetEntryTypeAnalysis,
                TypeOK
  <2> QED
    BY <2>1, <2>2, LeavingBalances DEF OverlapInv
<1>3. ASSUME NEW w \in Workers, Process(w) \/ FailStatus(w) \/ Refresh(w)
      PROVE  OverlapInv'
  <2>1. \A v \in Workers : wrk'[v].entry = wrk[v].entry
    <3>1. CASE Refresh(w)
      BY <3>1 DEF Refresh
    <3>2. CASE Process(w) \/ FailStatus(w)
      <4>1. PICK pc : wrk' = [wrk EXCEPT ![w].pc = pc]
        BY <3>2 DEF Process, FailStatus
      <4> QED
        BY <4>1 DEF TypeOK
    <3> QED
      BY <1>3, <3>1, <3>2
  <2>2. overruns' = overruns /\ claim' = claim
    BY <1>3 DEF Process, FailStatus, Refresh
  <2> QED
    BY <2>1, <2>2, QuietBalanced DEF OverlapInv
<1>4. ASSUME NEW e \in Entries, Expire(e) PROVE OverlapInv'
  BY <1>4, ExpiryBalances DEF OverlapInv
<1>5. ASSUME overruns' = overruns /\ claim' = claim /\ wrk' = wrk
      PROVE  OverlapInv'
  BY <1>5, QuietBalanced DEF OverlapInv
<1>6. ASSUME NEW e \in Entries, Submit(e) \/ Bump(e) PROVE OverlapInv'
  BY <1>5, <1>6 DEF Submit, Bump
<1>7. ASSUME NEW u \in Updates, UpdateType(u) PROVE OverlapInv'
  BY <1>5, <1>7 DEF UpdateType, ReadEntry, WriteType, WriteDisabled, Touch,
                    AbortUpdate
<1>8. CASE UNCHANGED vars
  BY <1>5, <1>8 DEF vars
<1> QED
  BY <1>1, <1>2, <1>3, <1>4, <1>6, <1>7, <1>8 DEF Next, Worker

\* For any number of instances, and however long their calls take, as many
\* instances are at work on an entry as claims of it ran out under a call, and
\* one more: without an overrun a claim is a lock.
THEOREM OverlapsArePaidFor == Spec => []OverlapsBounded
<1>1. Init /\ TypeOK => OverlapInv
  <2> SUFFICES ASSUME Init, TypeOK, NEW e \in Entries PROVE Balanced(e)
    BY DEF OverlapInv
  <2>1. AtWork(e) = {}
    BY ConstantsAssumption DEF Init, NoWork, AtWork, ConstantsAssumption
  <2>2. Allowed(e) = 0
    BY DEF Init, Allowed
  <2> QED
    BY <2>1, <2>2, FS_EmptySet DEF Balanced
<1>2. OverlapInv /\ TypeOK' /\ [Next]_vars => OverlapInv'
  BY OverlapInvStep
<1>3. OverlapInv => OverlapsBounded
  <2> SUFFICES ASSUME OverlapInv, NEW e \in Entries
               PROVE  Cardinality(AtWork(e)) <= overruns[e] + 1
    BY DEF OverlapsBounded
  <2>1. Cardinality(AtWork(e)) <= Allowed(e) /\ IsFiniteSet(AtWork(e))
    BY DEF OverlapInv, Balanced
  <2>2. Cardinality(AtWork(e)) \in Nat /\ overruns[e] \in Nat
    BY <2>1, FS_CardinalityType, ConstantsAssumption
       DEF OverlapInv, TypeOK, ConstantsAssumption
  <2> QED
    BY <2>1, <2>2 DEF Allowed
<1> QED
  BY <1>1, <1>2, <1>3, QueueTyped, PTL DEF Spec

-----------------------------------------------------------------------------
(* What can strand an entry.                                               *)

\* An entry that awaits its analysis was written after its last one, unless a
\* late failure made it wait.
AwaitedIsStale ==
    \A e \in Entries :
        status[e] \in {"unset", "pending", "failed"} => e \in stale \cup late

LEMMA AwaitedStep ==
    ASSUME TypeOK, AwaitedIsStale, [Next]_vars
    PROVE  AwaitedIsStale'
<1> USE DEF AwaitedIsStale, TypeOK, analysis, ghosts
<1>1. ASSUME NEW w \in Workers, ClaimNext(w) PROVE AwaitedIsStale'
  <2>1. PICK e \in Entries : /\ NeedsAnalysis(e)
                             /\ status' = [status EXCEPT ![e] = "pending"]
    BY <1>1 DEF ClaimNext
  <2>2. e \in stale \cup late
    BY <2>1 DEF NeedsAnalysis
  <2> QED
    BY <1>1, <2>1, <2>2 DEF ClaimNext
<1>2. ASSUME NEW w \in Workers, Release(w) PROVE AwaitedIsStale'
  BY <1>2 DEF Release, SetEntryTypeAnalysis
<1>3. ASSUME NEW w \in Workers, Succeed(w) PROVE AwaitedIsStale'
  BY <1>3 DEF Succeed, SetEntryTypeAnalysis
<1>4. ASSUME NEW w \in Workers, FailStatus(w) PROVE AwaitedIsStale'
  BY <1>4 DEF FailStatus
<1>5. ASSUME NEW w \in Workers,
             Process(w) \/ FailClaim(w) \/ Refresh(w) \/ Abandon(w)
      PROVE  AwaitedIsStale'
  BY <1>5 DEF Process, FailClaim, Refresh, Abandon
<1>6. ASSUME NEW e \in Entries, Submit(e) \/ Expire(e) \/ Bump(e)
      PROVE  AwaitedIsStale'
  BY <1>6 DEF Submit, Expire, Bump
<1>7. ASSUME NEW u \in Updates, UpdateType(u) PROVE AwaitedIsStale'
  BY <1>7 DEF UpdateType, ReadEntry, WriteType, WriteDisabled, Touch,
              AbortUpdate
<1>8. CASE UNCHANGED vars
  BY <1>8 DEF vars
<1> QED
  BY <1>1, <1>2, <1>3, <1>4, <1>5, <1>6, <1>7, <1>8 DEF Next, Worker

\* However long calls take, every entry that is neither analysed nor disabled,
\* nor being processed, matches the filter of the next claim, if no call failed
\* on it after another had answered: nothing else strands one.
THEOREM OnlyLateFailuresStrand == Spec => []StrandedOnlyByLateFailure
<1>1. Init => AwaitedIsStale
  BY DEF Init, AwaitedIsStale
<1>2. TypeOK /\ AwaitedIsStale /\ [Next]_vars => AwaitedIsStale'
  BY AwaitedStep
<1>3. TypeOK /\ AwaitedIsStale => StrandedOnlyByLateFailure
  BY DEF TypeOK, AwaitedIsStale, StrandedOnlyByLateFailure, Claimable,
         NeedsAnalysis
<1> QED
  BY <1>1, <1>2, <1>3, QueueTyped, PTL DEF Spec

-----------------------------------------------------------------------------
(* Disabling is one-way.                                                   *)

\* However long calls take, an entry that is disabled while nobody processes it
\* stays disabled: neither the queue nor the handlers ever set it otherwise.
THEOREM DisabledForGood == Spec => DisabledIsFinal
<1> DEFINE Final == \A e \in entries :
              status[e] = "disabled" /\ Unattended(e) => status'[e] = "disabled"
<1>1. ASSUME TypeOK, [Next]_vars PROVE Final
  <2> SUFFICES ASSUME NEW e \in entries, status[e] = "disabled", Unattended(e)
               PROVE  status'[e] = "disabled"
    OBVIOUS
  <2> USE <1>1, ConstantsAssumption
      DEF ConstantsAssumption, TypeOK, NoWork, Unattended, AtWork, analysis
  <2>1. ASSUME NEW w \in Workers, Worker(w) PROVE status'[e] = "disabled"
    <3>1. CASE ClaimNext(w)
      BY <3>1 DEF ClaimNext, NeedsAnalysis
    <3>2. CASE Process(w)
      BY <3>2 DEF Process
    <3>3. CASE Release(w) \/ Succeed(w)
      BY <3>3 DEF Release, Succeed, SetEntryTypeAnalysis
    <3>4. CASE FailStatus(w) \/ FailClaim(w)
      BY <3>4 DEF FailStatus, FailClaim
    <3> QED
      BY <2>1, <3>1, <3>2, <3>3, <3>4 DEF Worker
  <2>2. ASSUME NEW w \in Workers, Refresh(w) \/ Abandon(w)
        PROVE  status'[e] = "disabled"
    BY <2>2 DEF Refresh, Abandon
  <2>3. ASSUME NEW f \in Entries, Submit(f) \/ Expire(f) \/ Bump(f)
        PROVE  status'[e] = "disabled"
    BY <2>3 DEF Submit, Expire, Bump
  <2>4. ASSUME NEW u \in Updates, UpdateType(u) PROVE status'[e] = "disabled"
    BY <2>4 DEF UpdateType, ReadEntry, WriteType, WriteDisabled, Touch,
                AbortUpdate
  <2>5. CASE UNCHANGED vars
    BY <2>5 DEF vars
  <2> QED
    BY <2>1, <2>2, <2>3, <2>4, <2>5 DEF Next
<1>2. TypeOK /\ [Next]_vars => [Final]_vars
  BY <1>1
<1> QED
  BY <1>2, QueueTyped, PTL DEF Spec, DisabledIsFinal
=============================================================================
