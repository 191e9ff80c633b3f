------------------------------- MODULE SyncSafety -------------------------------
(***************************************************************************)
(* Every step of Sync preserves SyncInv and FeedInv of SyncProofs: the     *)
(* safety theorems about the whole protocol, for any number of workers,    *)
(* callers, keys, operations and faults and any page limit.                *)
(***************************************************************************)
EXTENDS SyncStoreProofs

\* A worker's call to the store, once its transaction is known to be sound.
LEMMA WorkerStore ==
  ASSUME SyncInv, NEW w \in Procs, NEW r \in WorkStates, Goto(w, r), Knows(r)',
         UNCHANGED <<source, inflight, faults>>, CacheTypeOK', CacheInv', OpsKept
  PROVE  SyncInv'
<1>1. wk \in [Procs -> WorkStates] /\ faults' \in 0 .. MaxFaults /\ UNCHANGED source
  BY DEF SyncInv, TypeOK
<1>2. wk' \in [Procs -> WorkStates] /\ \A v \in Procs : wk'[v] = IF v = w THEN r ELSE wk[v]
  BY <1>1 DEF Goto
<1>3. \A v \in Procs : wk'[v] = wk[v] \/ Knows(wk[v])'
  <2> SUFFICES ASSUME NEW v \in Procs
               PROVE  wk'[v] = wk[v] \/ Knows(wk[v])'
    OBVIOUS
  <2>1. CASE v = w
    <3>1. wk'[v] = r
      BY <1>2, <2>1
    <3> QED
      BY <3>1 DEF Knows, Doomed
  <2> QED
    BY <1>2, <2>1
<1> QED
  BY <1>1, <1>2, <1>3, StoreStep

\* Where a worker goes after a call to the store it knows nothing.
LEMMA Forgets ==
  /\ PushDone \in WorkStates /\ NoWork \in WorkStates
  /\ Knows(PushDone)' /\ Knows(NoWork)'
<1>1. PushDone \in WorkStates /\ NoWork \in WorkStates
  <2>1. "pull" \in Steps /\ "none" \in Codes
    BY DEF Steps, PullSteps, Codes
  <2> QED
    BY <2>1, FreshWork, Zenon DEF PushDone
<1> QED
  BY <1>1 DEF PushDone, NoWork, Knows

\* Store.claim preserves the invariant: the worker leaves with an operation that
\* is queued, under the token it has just been given.
LEMMA ClaimInv ==
  ASSUME SyncInv, NEW w \in Procs, NEW o \in LocalOps \cup {None}, NEW B \in SUBSET LocalOps,
         Claim(w, o, B)
  PROVE  SyncInv'
<1>1. claim_outbox(o, B) /\ UNCHANGED source /\ UNCHANGED <<source, inflight, faults>>
  BY DEF Claim
<1>2. CacheTypeOK' /\ CacheInv' /\ OpsKept
  BY <1>1, ClaimCache
<1>3. CASE o = None
  BY <1>1, <1>2, <1>3, WorkerStore, Forgets DEF Claim
<1>4. CASE o # None
  <2> DEFINE r == [NoWork EXCEPT !.pc = NextCall(o), !.op = o, !.fence = ob[o].fence + 1,
                                 !.code = IF ob[o].age = "fresh" THEN "none" ELSE "expired"]
  <2>1. Goto(w, r) /\ o \in LocalOps
    BY <1>4 DEF Claim
  <2>2. ob[o].st # "none" /\ ob[o].fence + 1 \in Nat
    <3>1. ob[o] \in OutboxRows
      BY <2>1, Parts
    <3>2. ob[o].fence \in Nat
      BY <3>1 DEF OutboxRows
    <3>3. Claimable(o)
      BY <1>1, <1>4, NoneAssumption, Zenon DEF claim_outbox
    <3>4. ob[o].st # "none"
      BY <3>3 DEF Claimable
    <3> QED
      BY <3>2, <3>4
  <2>3. NextCall(o) \in {"lookup", "mutate"} /\ NextCall(o) \in Steps
    BY DEF NextCall, Steps, PushSteps
  <2>4. r \in WorkStates
    <3>1. (IF ob[o].age = "fresh" THEN "none" ELSE "expired") \in Codes
      BY DEF Codes
    <3>2. NoWork \in WorkStates
      BY Forgets
    <3> QED
      BY <2>1, <2>2, <2>3, <3>1, <3>2, Zenon DEF WorkStates
  <2>5. r.pc \in {"lookup", "mutate"} /\ r.op = o
    BY <2>3 DEF NoWork
  <2> HIDE DEF r
  <2>6. PICK c \in WorkStates : Goto(w, c) /\ c.pc \in {"lookup", "mutate"} /\ c.op = o
    BY <2>1, <2>4, <2>5
  <2>7. ob'[o].st # "none"
    BY <1>2, <2>1, <2>2 DEF OpsKept
  <2>8. Knows(c)'
    BY <2>1, <2>6, <2>7 DEF Knows
  <2> QED
    BY <1>1, <1>2, <2>6, <2>8, WorkerStore
<1> QED
  BY <1>3, <1>4

\* Store.ack and Store.fail preserve the invariant, however late they come: what
\* the worker reports was true of the source and has stayed true.
LEMMA ReportInv ==
  ASSUME SyncInv, NEW w \in Procs, Ack(w) \/ Fail(w)
  PROVE  SyncInv'
<1> DEFINE r == wk[w]
<1>1. r \in WorkStates /\ Knows(r) /\ r.pc \in {"ack", "fail"} /\ r.ctr \in Nat
  BY DEF SyncInv, TypeOK, WorkInv, Ack, Fail, At, WorkStates
<1>2. r.op \in LocalOps /\ ob[r.op].st # "none"
  BY <1>1 DEF Knows
<1>3. UNCHANGED source /\ Goto(w, PushDone) /\ UNCHANGED <<source, inflight, faults>>
  BY DEF Ack, Fail
<1>4. CASE Ack(w)
  <2>1. ack_outbox(r.op, r.fence, r.ctr) /\ r.ctr # 0 /\ srcOps[r.op].ctr = r.ctr
    BY <1>1, <1>4 DEF Ack, At, Knows
  <2> HIDE DEF r
  <2>2. CacheTypeOK' /\ CacheInv' /\ OpsKept
    BY <1>1, <1>2, <1>3, <2>1, AckCache, SMTT(30)
  <2> QED
    BY <1>3, <2>2, WorkerStore, Forgets
<1>5. CASE Fail(w)
  <2>1. /\ fail_outbox(r.op, r.fence, r.code, r.ctr)
        /\ r.code = "revision_conflict" => Doomed(r.op) /\ r.ctr <= srcRec[ob[r.op].key]
    BY <1>1, <1>5 DEF Fail, At, Knows
  <2> HIDE DEF r
  <2>2. CacheTypeOK' /\ CacheInv' /\ OpsKept
    BY <1>1, <1>2, <1>3, <2>1, FailCache
  <2> QED
    BY <1>3, <2>2, WorkerStore, Forgets
<1> QED
  BY <1>4, <1>5

\* Store.apply_changes, Store.publish_snapshot and Store.pause preserve it, for
\* whatever page or snapshot the worker read earlier.
LEMMA InstallInv ==
  ASSUME SyncInv, NEW w \in Procs, ApplyChanges(w) \/ Publish(w) \/ Pause(w)
  PROVE  SyncInv'
<1> DEFINE r == wk[w]
<1>1. r \in WorkStates /\ Knows(r) /\ r.ctr \in Nat /\ r.rows \in [Keys -> Nat]
  BY DEF SyncInv, TypeOK, WorkInv, WorkStates
<1>2. UNCHANGED source /\ UNCHANGED <<source, inflight, faults>>
  BY DEF ApplyChanges, Publish, Pause
<1>3. Goto(w, NoWork) \/ Goto(w, PushDone)
  BY DEF ApplyChanges, Publish, Pause
<1>4. CacheTypeOK' /\ CacheInv' /\ OpsKept
  <2>1. CASE ApplyChanges(w)
    <3>1. apply_changes(r.ctr) /\ r.ctr <= Len(chg)
      BY <1>1, <2>1 DEF ApplyChanges, At, Knows
    <3> HIDE DEF r
    <3> QED
      BY <1>1, <1>2, <3>1, ApplyChangesCache
  <2>2. CASE Publish(w)
    <3>1. /\ publish_snapshot(r.ctr, r.rows) /\ r.ctr <= Len(chg)
          /\ \A k \in Keys : r.rows[k] <= srcRec[k]
      BY <1>1, <2>2 DEF Publish, At, Knows
    <3> HIDE DEF r
    <3> QED
      BY <1>1, <1>2, <3>1, PublishCache
  <2>3. CASE Pause(w)
    BY <1>2, <2>3, TimeCache DEF Pause
  <2> QED
    BY <2>1, <2>2, <2>3
<1> QED
  BY <1>2, <1>3, <1>4, WorkerStore, Forgets

\* Applications, operators and time.
LEMMA LocalInv ==
  ASSUME SyncInv,
         \/ \E k \in Keys, o \in LocalOps : Edit(k, o)
         \/ \E o \in LocalOps, p \in LocalOps \cup {None} : Resolve(o, p)
         \/ Resume
         \/ \E o \in LocalOps : LeaseTimeout(o) \/ Age(o)
  PROVE  SyncInv'
<1>1. UNCHANGED source /\ wk' = wk /\ inflight' = inflight /\ faults' \in 0 .. MaxFaults
  <2>1. faults \in 0 .. MaxFaults
    BY Parts
  <2> QED
    BY <2>1, FaultType DEF Edit, Resolve, Resume, LeaseTimeout, Age, work
<1>2. CacheTypeOK' /\ CacheInv' /\ OpsKept
  BY <1>1, EditCache, ResolveCache, TimeCache DEF Edit, Resolve, Resume, LeaseTimeout, Age
<1> QED
  BY <1>1, <1>2, Parts, StoreStep

-----------------------------------------------------------------------------

\* Every step of the protocol preserves the invariant.
LEMMA NextInv == SyncInv /\ [Next]_vars => SyncInv'
<1> SUFFICES ASSUME SyncInv, [Next]_vars
             PROVE  SyncInv'
  OBVIOUS
<1>1. ASSUME NEW w \in Procs, WorkerCalls(w) \/ WorkerFaults(w) \/ Snapshot(w)
      PROVE  SyncInv'
  <2>1. CASE Poll(w) \/ Snapshot(w) \/ Crash(w)
    BY <2>1, RestartInv
  <2>2. CASE Lookup(w)
    BY <2>2, LookupInv
  <2>3. CASE Send(w) \/ Timeout(w)
    BY <2>3, RequestInv
  <2>4. CASE Ack(w) \/ Fail(w)
    BY <2>4, ReportInv
  <2>5. CASE Pull(w) \/ Changes(w) \/ SnapshotPage(w)
    BY <2>5, ReadInv
  <2>6. CASE ApplyChanges(w) \/ Publish(w) \/ Pause(w)
    BY <2>6, InstallInv
  <2>7. ASSUME NEW o \in LocalOps \cup {None}, NEW B \in SUBSET LocalOps, Claim(w, o, B)
        PROVE  SyncInv'
    BY <2>7, ClaimInv
  <2>8. ASSUME NEW code \in FaultCodes,
               CapabilitiesFail(w, code) \/ LookupFail(w, code) \/ PullFail(w, code)
        PROVE  SyncInv'
    BY <2>8, LookupInv, RestartInv
  <2> QED
    BY <1>1, <2>1, <2>2, <2>3, <2>4, <2>5, <2>6, <2>7, <2>8, Zenon DEF WorkerCalls, WorkerFaults
<1>2. ASSUME NEW m \in inflight, Network(m)
      PROVE  SyncInv'
  <2>1. m.w \in Procs
    BY DEF SyncInv, TypeOK, Mutations
  <2>2. CASE Serve(m)
    BY <2>2, ServeInv
  <2>3. ASSUME NEW refused \in BOOLEAN, LoseRequest(m, refused)
        PROVE  SyncInv'
    BY <2>1, <2>3, RequestInv
  <2> QED
    BY <1>2, <2>2, <2>3 DEF Network
<1>3. CASE Environment
  <2>1. ASSUME NEW o \in Ops, NEW k \in Keys, NEW kind \in Kinds, OtherWrite(o, k, kind)
        PROVE  SyncInv'
    BY <2>1, OtherWriteInv
  <2>2. ASSUME NEW r \in 1 .. Len(chg), Retention(r)
        PROVE  SyncInv'
    BY <2>2, RetentionInv
  <2> QED
    BY <1>3, <2>1, <2>2, LocalInv, Zenon DEF Environment
<1>4. CASE UNCHANGED vars
  <2>1. /\ UNCHANGED source /\ UNCHANGED cache /\ wk' = wk /\ inflight' = inflight
        /\ faults' = faults
    BY <1>4 DEF vars, source, cache
  <2>2. CacheTypeOK' /\ CacheInv' /\ OpsKept
    BY <2>1, StoreIdle
  <2> QED
    BY <2>1, <2>2, Parts, StoreStep
<1> QED
  BY <1>1, <1>2, <1>3, <1>4 DEF Next

\* The invariant implies what is promised of a binding.
LEMMA InvSafe ==
  SyncInv => TypeOK /\ AckedIsApplied /\ RejectedNeverApplied /\ IntentKept
<1> SUFFICES ASSUME SyncInv
             PROVE  TypeOK /\ AckedIsApplied /\ RejectedNeverApplied /\ IntentKept
  OBVIOUS
<1>1. TypeOK /\ OpInv /\ VerdictInv /\ OpenOwns /\ OwnerUnique /\ DirtyOwned
  BY DEF SyncInv, CacheInv
<1>2. AckedIsApplied /\ RejectedNeverApplied
  BY <1>1 DEF OpInv, VerdictInv, Doomed, AckedIsApplied, RejectedNeverApplied
<1>3. IntentKept
  <2> SUFFICES ASSUME NEW k \in Keys
               PROVE  LET open == {o \in LocalOps : ob[o].st \in Open /\ ob[o].key = k}
                      IN  IF rec[k].st \in Dirty
                          THEN \E o \in open : open = {o} /\ rec[k].val = ob[o].val
                                                          /\ rec[k].del = (ob[o].kind = "delete")
                          ELSE open = {}
    BY DEF IntentKept
  <2> DEFINE open == {o \in LocalOps : ob[o].st \in Open /\ ob[o].key = k}
  <2>1. CASE rec[k].st \in Dirty
    <3>1. PICK o \in LocalOps : ob[o].st \in Open /\ ob[o].key = k
      BY <1>1, <2>1 DEF DirtyOwned
    <3>2. open = {o}
      BY <1>1, <3>1 DEF OwnerUnique
    <3>3. rec[k].val = ob[o].val /\ rec[k].del = (ob[o].kind = "delete")
      BY <1>1, <3>1 DEF OpenOwns
    <3> QED
      BY <2>1, <3>2, <3>3
  <2>2. CASE rec[k].st \notin Dirty
    BY <1>1, <2>2 DEF OpenOwns
  <2> QED
    BY <2>1, <2>2
<1> QED
  BY <1>1, <1>2, <1>3

\* In every behaviour of a binding, whatever crashes, losses, delays, second
\* workers and other writers do: its tables keep their types, an acknowledged
\* operation has been applied with exactly its own request, an operation that
\* ended in a conflict is never applied, and a row with an unsettled edit keeps
\* the edit and the one operation that carries it.
THEOREM SyncSafe == Spec => [](TypeOK /\ AckedIsApplied /\ RejectedNeverApplied /\ IntentKept)
<1> QED
  BY InitSync, NextInv, InvSafe, PTL DEF Spec

\* Rows, outbox, feed and workers keep their types, checkpoints and counters
\* their ranges (the constraints of the cache tables).
COROLLARY TypesSafe == Spec => []TypeOK
BY SyncSafe, PTL

\* An operation the source rejected is never applied, not even by a request of an
\* earlier attempt that arrives later (fail_outbox, source_mutate).
COROLLARY RejectedSafe == Spec => []RejectedNeverApplied
BY SyncSafe, PTL

\* An unsettled edit keeps its content and the one operation that carries it,
\* whatever pages, snapshots and verdicts arrive (apply_changes, ack_outbox).
COROLLARY IntentSafe == Spec => []IntentKept
BY SyncSafe, PTL

\* In the composition with the workers, as for the source alone: an operation id
\* has one effect (source_mutate).
THEOREM EffectSafe == Spec => []EffectOnce
<1>1. SyncInv => EffectOnce
  BY DEF SyncInv, SourceInv
<1> QED
  BY <1>1, InitSync, NextInv, PTL DEF Spec

\* No mutation overwrites a version its author had not named (source_mutate).
THEOREM CasSafe == Spec => []CasChain
<1>1. SyncInv => CasChain
  BY DEF SyncInv, SourceInv
<1> QED
  BY <1>1, InitSync, NextInv, PTL DEF Spec

\* The four tables of the source agree (source_mutate writes all of them).
THEOREM TablesSafe == Spec => []TablesAgree
<1>1. SyncInv => TablesAgree
  BY DEF SyncInv, SourceInv
<1> QED
  BY <1>1, InitSync, NextInv, PTL DEF Spec

-----------------------------------------------------------------------------
(* What the workers remember.                                                *)

\* A worker that holds neither a snapshot nor the evidence of a refusal.
Plain(r) == r.pc # "publish" /\ (r.pc = "fail" => r.code # "revision_conflict")

\* A worker that goes to a plain state has nothing to remember.
LEMMA PlainStep ==
  ASSUME SyncInv, NEW w \in Procs, NEW r, Goto(w, r), Plain(r)
  PROVE  \A v \in Procs : wk'[v] = wk[v] \/ Remembers(wk[v])'
<1>1. wk \in [Procs -> WorkStates]
  BY DEF SyncInv, TypeOK
<1>2. \A v \in Procs : wk'[v] = IF v = w THEN r ELSE wk[v]
  BY <1>1 DEF Goto
<1>3. ASSUME NEW v \in Procs, v = w
      PROVE  Remembers(wk[v])'
  <2>1. wk'[v] = r
    BY <1>2, <1>3
  <2> QED
    BY <2>1 DEF Remembers, Plain
<1> QED
  BY <1>2, <1>3

\* Calls of the worker that read nothing it has to remember.
LEMMA PlainCalls ==
  ASSUME SyncInv, NEW w \in Procs,
         \/ Poll(w) \/ Snapshot(w) \/ Crash(w) \/ Pull(w) \/ Changes(w)
         \/ Lookup(w) \/ Send(w) \/ Timeout(w)
         \/ \E code \in FaultCodes :
              CapabilitiesFail(w, code) \/ LookupFail(w, code) \/ PullFail(w, code)
         \/ \E m \in inflight, refused \in BOOLEAN : m.w = w /\ LoseRequest(m, refused)
  PROVE  UNCHANGED <<source, cache>> /\ (wk' = wk \/ \E r : Goto(w, r) /\ Plain(r))
<1>1. UNCHANGED <<source, cache>>
  BY Zenon DEF Poll, Snapshot, Crash, Pull, Changes, Lookup, Send, Timeout, CapabilitiesFail,
               LookupFail, PullFail, LoseRequest
<1>2. wk \in [Procs -> WorkStates] /\ wk[w] \in WorkStates
  BY DEF SyncInv, TypeOK
<1>3. \A code \in FaultCodes \cup {"blocked", "unknown", "permission_denied"} :
        code # "revision_conflict"
  BY SyncAssumption
<1>4. \A pc, c, x : /\ Plain(NoWork) /\ Plain(PushDone)
                    /\ pc # "publish" /\ pc # "fail" => /\ Plain([NoWork EXCEPT !.pc = pc])
                                                        /\ Plain([NoWork EXCEPT !.pc = pc, !.ctr = x])
                                                        /\ Plain([NoWork EXCEPT !.pc = pc, !.code = c])
  BY DEF Plain, NoWork, PushDone
<1>5. \A pc, c, x : /\ pc # "publish" /\ pc # "fail" => /\ Plain([wk[w] EXCEPT !.pc = pc])
                                                        /\ Plain([wk[w] EXCEPT !.pc = pc, !.ctr = x])
                    /\ c # "revision_conflict" => Plain([wk[w] EXCEPT !.pc = "fail", !.code = c])
  BY <1>2 DEF Plain, WorkStates
<1>6. CASE Poll(w) \/ Snapshot(w) \/ Crash(w) \/ Pull(w) \/ Changes(w)
  BY <1>1, <1>4, <1>6, Zenon DEF Poll, Snapshot, Crash, Pull, Changes
<1>7. CASE Lookup(w) \/ Send(w) \/ Timeout(w)
  BY <1>1, <1>3, <1>5, <1>7, Zenon DEF Lookup, Send, Timeout
<1>8. ASSUME NEW code \in FaultCodes,
             CapabilitiesFail(w, code) \/ LookupFail(w, code) \/ PullFail(w, code)
      PROVE  \E r : Goto(w, r) /\ Plain(r)
  BY <1>3, <1>4, <1>5, <1>8, Zenon DEF CapabilitiesFail, LookupFail, PullFail
<1>9. ASSUME NEW m \in inflight, NEW refused \in BOOLEAN, m.w = w, LoseRequest(m, refused)
      PROVE  wk' = wk \/ \E r : Goto(w, r) /\ Plain(r)
  <2>1. CASE refused /\ Awaited(m)
    BY <1>3, <1>5, <1>9, <2>1, Zenon DEF LoseRequest
  <2>2. CASE ~(refused /\ Awaited(m))
    BY <1>9, <2>2, Zenon DEF LoseRequest
  <2> QED
    BY <2>1, <2>2
<1> QED
  BY <1>1, <1>6, <1>7, <1>8, <1>9

\* The source only ever extends its feed (source_mutate).
LEMMA MutateExtends ==
  ASSUME SyncInv, NEW q \in Requests, source_mutate(q)
  PROVE  ChgGrows /\ Len(chg') \in Nat
<1>1. SourceTypeOK /\ Len(chg) \in Nat
  BY FeedTypes
<1>2. CASE srcOps[q.op].ctr = 0 /\ CasHolds(q)
  <2>1. Commit(q)
    BY <1>2 DEF source_mutate
  <2>2. /\ Len(chg') = Len(chg) + 1
        /\ \A c \in 1 .. Len(chg) : chg'[c] = chg[c]
    BY <1>1, <2>1, CommitFacts, Zenon
  <2> QED
    BY <1>1, <2>2 DEF ChgGrows
<1>3. CASE ~(srcOps[q.op].ctr = 0 /\ CasHolds(q))
  <2>1. chg' = chg
    BY <1>3 DEF source_mutate, source
  <2> QED
    BY <1>1, <2>1 DEF ChgGrows
<1> QED
  BY <1>2, <1>3

\* A step that leaves the cache alone.
LEMMA OutsideFed ==
  ASSUME SyncInv, FeedInv, ChgGrows, Len(chg') \in Nat, UNCHANGED cache,
         \A w \in Procs : wk'[w] = wk[w] \/ Remembers(wk[w])'
  PROVE  FeedInv' /\ Revised /\ VerdictsKept
<1>1. TablesFed' /\ OpsKept
  BY FeedExtends DEF FeedInv
<1>2. FeedInv'
  BY <1>1, FeedStep
<1> QED
  BY <1>2 DEF Revised, VerdictsKept, cache

\* A call of the store.
LEMMA InsideFed ==
  ASSUME SyncInv, FeedInv, UNCHANGED source, OpsKept, TablesFed',
         \A w \in Procs : wk'[w] = wk[w] \/ Remembers(wk[w])'
  PROVE  FeedInv'
<1>1. chg' = chg /\ Len(chg) \in Nat
  BY FeedTypes DEF source
<1>2. ChgGrows
  BY <1>1 DEF ChgGrows
<1> QED
  BY <1>2, FeedStep

\* source_mutate executes a request: the evidence that comes with a refusal is the
\* row that refuted the compare-and-set.
LEMMA ServeFed ==
  ASSUME SyncInv, FeedInv, NEW m \in inflight, Serve(m)
  PROVE  FeedInv' /\ Revised /\ VerdictsKept
<1> DEFINE q == Request(m.op)
           w == m.w
<1>1. w \in Procs /\ m.op \in LocalOps /\ ob[m.op].st # "none"
  BY SMTT(30) DEF SyncInv, TypeOK, WorkInv, Mutations
<1>2. /\ q \in Requests /\ q.op = m.op /\ q.key = ob[m.op].key /\ q.pre = ob[m.op].pre
      /\ q.pre <= srcRec[q.key] /\ q.key \in Keys /\ q.pre \in Nat
      /\ (q.kind = "create" <=> q.pre = 0)
  BY <1>1 DEF SyncInv, CacheInv, OpInv, Request, Requests
<1>3. UNCHANGED cache /\ source_mutate(q)
  BY DEF Serve
<1> HIDE DEF q
<1>4. ChgGrows /\ Len(chg') \in Nat
  BY <1>2, <1>3, MutateExtends
<1>5. \A v \in Procs : wk'[v] = wk[v] \/ Remembers(wk[v])'
  <2>1. CASE ~Awaited(m)
    BY <2>1 DEF Serve
  <2>2. CASE Awaited(m)
    <3> DEFINE okState == [wk[w] EXCEPT !.pc = "ack", !.ctr = MutateOutcome(q)]
               noState == [wk[w] EXCEPT !.pc = "fail", !.code = MutateAnswer(q),
                                        !.ctr = srcRec[q.key]]
    <3>1. /\ wk \in [Procs -> WorkStates] /\ wk[w] \in WorkStates /\ wk[w].op = m.op
          /\ Goto(w, IF MutateAnswer(q) = "ok" THEN okState ELSE noState)
      BY <1>1, <2>2 DEF Serve, Awaited, SyncInv, TypeOK, q
    <3>2. okState.pc = "ack"
      BY <3>1 DEF WorkStates
    <3>3. /\ noState.pc = "fail" /\ noState.code = MutateAnswer(q) /\ noState.op = m.op
          /\ noState.ctr = srcRec[q.key]
      BY <3>1 DEF WorkStates
    <3> HIDE DEF okState, noState
    <3>4. CASE MutateAnswer(q) # "revision_conflict"
      BY <1>1, <3>1, <3>2, <3>3, <3>4, PlainStep DEF Plain
    <3>5. CASE MutateAnswer(q) = "revision_conflict"
      <4>1. srcOps[q.op].ctr = 0 /\ ~CasHolds(q)
        BY <3>5 DEF MutateAnswer
      <4>2. chg' = chg /\ ob' = ob
        BY <1>3, <4>1 DEF source_mutate, source, cache
      <4>3. srcRec[q.key] \in 0 .. Len(chg) /\ Len(chg) \in Nat
        BY <1>2, FeedTypes
      <4>4. q.pre < srcRec[q.key]
        BY <1>2, <4>1, <4>3, SMTT(30) DEF CasHolds
      <4>5. chg[srcRec[q.key]].key = q.key
        BY <1>2, <4>3, <4>4 DEF SyncInv, SourceInv, TablesAgree
      <4>6. \A v \in Procs : wk'[v] = IF v = w THEN noState ELSE wk[v]
        BY <3>1, <3>5 DEF Goto
      <4>7. wk'[w] = noState
        BY <1>1, <4>6, SMTT(30)
      <4>8. Remembers(wk[w])'
        BY <1>2, <3>3, <4>2, <4>4, <4>5, <4>7 DEF Remembers
      <4> QED
        BY <4>6, <4>8
    <3> QED
      BY <3>4, <3>5
  <2> QED
    BY <2>1, <2>2
<1> QED
  BY <1>3, <1>4, <1>5, OutsideFed

\* source_snapshot reads the last event of every row.
LEMMA SnapshotFed ==
  ASSUME SyncInv, FeedInv, NEW w \in Procs, SnapshotPage(w)
  PROVE  FeedInv' /\ Revised /\ VerdictsKept
<1> DEFINE n == [NoWork EXCEPT !.pc = "publish", !.ctr = Len(chg), !.rows = srcRec]
<1>1. chg' = chg /\ UNCHANGED cache /\ Goto(w, n) /\ Len(chg) \in Nat
  BY FeedTypes DEF SnapshotPage, source
<1>2. n.pc = "publish" /\ n.ctr = Len(chg) /\ n.rows = srcRec
  BY SMTT(30) DEF NoWork
<1> HIDE DEF n
<1>3. \A v \in Procs : wk'[v] = IF v = w THEN n ELSE wk[v]
  BY <1>1 DEF SyncInv, TypeOK, Goto
<1>4. /\ \A c \in 1 .. Len(chg) : c <= srcRec[chg[c].key]
      /\ \A k \in Keys : srcRec[k] # 0 => chg[srcRec[k]].key = k
  BY DEF SyncInv, SourceInv, TablesAgree
<1>5. Remembers(wk[w])'
  <2>1. wk'[w] = n
    BY <1>3
  <2> QED
    BY <1>1, <1>2, <1>4, <2>1 DEF Remembers
<1>6. \A v \in Procs : wk'[v] = wk[v] \/ Remembers(wk[v])'
  BY <1>3, <1>5
<1>7. ChgGrows /\ Len(chg') \in Nat
  BY <1>1 DEF ChgGrows
<1> QED
  BY <1>1, <1>6, <1>7, OutsideFed

\* Every step of the protocol keeps the tables with the feed, gives new content a
\* new revision, and keeps verdicts.
LEMMA NextFeed ==
  ASSUME SyncInv, FeedInv, [Next]_vars
  PROVE  FeedInv' /\ Revised /\ VerdictsKept
<1> DEFINE Goal == FeedInv' /\ Revised /\ VerdictsKept
<1>0. TablesFed /\ \A w \in Procs : Remembers(wk[w])
  BY DEF FeedInv
<1>1. ASSUME UNCHANGED source, UNCHANGED cache,
             \A v \in Procs : wk'[v] = wk[v] \/ Remembers(wk[v])'
      PROVE  Goal
  <2>1. chg' = chg /\ Len(chg) \in Nat
    BY <1>1, FeedTypes DEF source
  <2>2. ChgGrows /\ Len(chg') \in Nat
    BY <2>1 DEF ChgGrows
  <2> QED
    BY <1>1, <2>2, OutsideFed
<1>2. ASSUME NEW w \in Procs,
             \/ Poll(w) \/ Snapshot(w) \/ Crash(w) \/ Pull(w) \/ Changes(w)
             \/ Lookup(w) \/ Send(w) \/ Timeout(w)
             \/ \E code \in FaultCodes :
                  CapabilitiesFail(w, code) \/ LookupFail(w, code) \/ PullFail(w, code)
             \/ \E m \in inflight, refused \in BOOLEAN : m.w = w /\ LoseRequest(m, refused)
      PROVE  Goal
  <2>1. UNCHANGED <<source, cache>> /\ (wk' = wk \/ \E r : Goto(w, r) /\ Plain(r))
    BY <1>2, PlainCalls, Zenon
  <2>2. \A v \in Procs : wk'[v] = wk[v] \/ Remembers(wk[v])'
    BY <2>1, PlainStep
  <2>3. UNCHANGED source /\ UNCHANGED cache
    BY <2>1
  <2> QED
    BY <1>1, <2>2, <2>3
<1>3. Plain(NoWork) /\ Plain(PushDone)
  BY DEF Plain, NoWork, PushDone
<1>4. ASSUME NEW w \in Procs, NEW o \in LocalOps \cup {None}, NEW B \in SUBSET LocalOps,
             Claim(w, o, B)
      PROVE  Goal
  <2>1. claim_outbox(o, B) /\ UNCHANGED source
    BY <1>4 DEF Claim
  <2>2. TablesFed' /\ Revised /\ VerdictsKept
    BY <1>0, <2>1, ClaimFed
  <2>3. OpsKept
    BY <2>1, ClaimCache
  <2>4. \E r : Goto(w, r) /\ Plain(r)
    <3>1. CASE o = None
      BY <1>3, <1>4, <3>1 DEF Claim
    <3>2. CASE o # None
      <4> DEFINE r == [NoWork EXCEPT !.pc = NextCall(o), !.op = o, !.fence = ob[o].fence + 1,
                                     !.code = IF ob[o].age = "fresh" THEN "none" ELSE "expired"]
      <4>1. Goto(w, r)
        BY <1>4, <3>2, Zenon DEF Claim
      <4>2. r.pc = NextCall(o)
        BY DEF NoWork
      <4> HIDE DEF r
      <4>3. Plain(r)
        BY <4>2 DEF NextCall, Plain
      <4> QED
        BY <4>1, <4>3
    <3> QED
      BY <3>1, <3>2
  <2> QED
    BY <2>1, <2>2, <2>3, <2>4, PlainStep, InsideFed
<1>5. ASSUME NEW w \in Procs, Ack(w) \/ Fail(w) \/ ApplyChanges(w) \/ Publish(w) \/ Pause(w)
      PROVE  Goal
  <2> DEFINE r == wk[w]
  <2>1. UNCHANGED source /\ \A v \in Procs : wk'[v] = wk[v] \/ Remembers(wk[v])'
    <3>1. UNCHANGED source /\ (Goto(w, NoWork) \/ Goto(w, PushDone))
      BY <1>5 DEF Ack, Fail, ApplyChanges, Publish, Pause
    <3> QED
      BY <1>3, <3>1, PlainStep
  <2>2. /\ r \in WorkStates /\ Knows(r) /\ Remembers(r) /\ r.ctr \in Nat
        /\ r.rows \in [Keys -> Nat]
    BY <1>0 DEF SyncInv, TypeOK, WorkInv, WorkStates
  <2>3. (TablesFed' /\ Revised /\ VerdictsKept) /\ OpsKept
    <3>1. CASE Ack(w)
      <4>1. /\ r.op \in LocalOps /\ ack_outbox(r.op, r.fence, r.ctr) /\ r.ctr # 0
            /\ srcOps[r.op].ctr = r.ctr
        BY <2>2, <3>1 DEF Ack, At, Knows
      <4> HIDE DEF r
      <4> QED
        BY <1>0, <2>1, <2>2, <4>1, AckFed, AckCache, SMTT(30)
    <3>2. CASE Fail(w)
      <4>1. /\ r.op \in LocalOps /\ ob[r.op].st # "none"
            /\ fail_outbox(r.op, r.fence, r.code, r.ctr)
            /\ r.code = "revision_conflict" =>
                 /\ Doomed(r.op) /\ r.ctr <= srcRec[ob[r.op].key]
                 /\ ob[r.op].pre < r.ctr /\ chg[r.ctr].key = ob[r.op].key
        BY <2>2, <3>2 DEF Fail, At, Knows, Remembers
      <4> HIDE DEF r
      <4> QED
        BY <1>0, <2>1, <2>2, <4>1, FailFed, FailCache, SMTT(30)
    <3>3. CASE ApplyChanges(w)
      <4>1. apply_changes(r.ctr) /\ r.ctr <= Len(chg)
        BY <2>2, <3>3 DEF ApplyChanges, At, Knows
      <4> HIDE DEF r
      <4> QED
        BY <1>0, <2>1, <2>2, <4>1, PageFed, ApplyChangesCache, SMTT(30)
    <3>4. CASE Publish(w)
      <4>1. /\ publish_snapshot(r.ctr, r.rows) /\ r.ctr <= Len(chg)
            /\ \A k \in Keys : r.rows[k] <= srcRec[k]
            /\ \A c \in 1 .. r.ctr : c <= r.rows[chg[c].key]
            /\ \A k \in Keys : r.rows[k] # 0 => chg[r.rows[k]].key = k
        BY <2>2, <3>4 DEF Publish, At, Knows, Remembers
      <4> HIDE DEF r
      <4> QED
        BY <1>0, <2>1, <2>2, <4>1, PublishFed, PublishCache, SMTT(30)
    <3>5. CASE Pause(w)
      BY <1>0, <2>1, <3>5, TimeFed, TimeCache DEF Pause
    <3> QED
      BY <1>5, <3>1, <3>2, <3>3, <3>4, <3>5
  <2> QED
    BY <2>1, <2>3, InsideFed
<1>6. ASSUME \/ \E k \in Keys, o \in LocalOps : Edit(k, o)
             \/ \E o \in LocalOps, p \in LocalOps \cup {None} : Resolve(o, p)
             \/ Resume
             \/ \E o \in LocalOps : LeaseTimeout(o) \/ Age(o)
      PROVE  Goal
  <2>1. UNCHANGED source /\ wk' = wk
    BY <1>6 DEF Edit, Resolve, Resume, LeaseTimeout, Age, work
  <2>2. (TablesFed' /\ Revised /\ VerdictsKept) /\ OpsKept
    BY <1>0, <1>6, <2>1, EditFed, EditCache, ResolveFed, ResolveCache, TimeFed, TimeCache
       DEF Edit, Resolve, Resume, LeaseTimeout, Age
  <2> QED
    BY <2>1, <2>2, InsideFed
<1>7. ASSUME NEW o \in Ops, NEW k \in Keys, NEW kind \in Kinds, OtherWrite(o, k, kind)
      PROVE  Goal
  <2> DEFINE q == [op |-> o, key |-> k, kind |-> kind, pre |-> srcRec[k], val |-> o]
  <2>1. q \in Requests /\ source_mutate(q) /\ UNCHANGED cache /\ wk' = wk
    BY <1>7 DEF OtherWrite, Mutate, work
  <2> HIDE DEF q
  <2> QED
    BY <2>1, MutateExtends, OutsideFed
<1>8. ASSUME NEW r \in 1 .. Len(chg), Retention(r)
      PROVE  Goal
  <2>1. chg' = chg /\ UNCHANGED cache /\ wk' = wk /\ Len(chg) \in Nat
    BY <1>8, FeedTypes DEF Retention, Prune, work
  <2>2. ChgGrows /\ Len(chg') \in Nat
    BY <2>1 DEF ChgGrows
  <2> QED
    BY <2>1, <2>2, OutsideFed
<1>9. CASE UNCHANGED vars
  <2>1. UNCHANGED source /\ UNCHANGED cache /\ wk' = wk
    BY <1>9 DEF vars, source, cache
  <2> QED
    BY <1>1, <2>1
<1>10. ASSUME NEW m \in inflight, NEW refused \in BOOLEAN, LoseRequest(m, refused)
       PROVE  Goal
  <2>1. m.w \in Procs
    BY DEF SyncInv, TypeOK, Mutations
  <2> QED
    BY <1>2, <1>10, <2>1, Zenon
<1> HIDE DEF Goal
<1>11. ASSUME NEW w \in Procs, WorkerCalls(w) \/ WorkerFaults(w) \/ Snapshot(w)
       PROVE  Goal
  <2>1. SnapshotPage(w) => Goal
    BY SnapshotFed DEF Goal
  <2> QED
    BY <1>2, <1>4, <1>5, <1>11, <2>1, Zenon DEF WorkerCalls, WorkerFaults
<1>12. ASSUME NEW m \in inflight, Network(m)
       PROVE  Goal
  BY <1>10, <1>12, ServeFed DEF Network, Goal
<1>13. ASSUME Environment
       PROVE  Goal
  BY <1>6, <1>7, <1>8, <1>13, Zenon DEF Environment
<1> QED
  BY <1>9, <1>11, <1>12, <1>13 DEF Next, Goal

\* Both invariants together, in every behaviour.
LEMMA FeedAlways == Spec => [](SyncInv /\ FeedInv)
<1>1. Init => SyncInv /\ FeedInv
  BY InitSync, InitFeed
<1>2. SyncInv /\ FeedInv /\ [Next]_vars => SyncInv' /\ FeedInv'
  BY NextInv, NextFeed
<1> QED
  BY <1>1, <1>2, PTL DEF Spec

\* The checkpoint never passes an event that is neither in its row nor deferred,
\* and nothing is deferred for a settled row, whatever pages, snapshots, answers
\* and resolutions do in whatever order (apply_changes, publish_snapshot,
\* ack_outbox, resolve).
THEOREM FeedSafe == Spec => []NoEventLost
<1>1. FeedInv => NoEventLost
  BY DEF FeedInv, TablesFed
<1> QED
  BY <1>1, FeedAlways, PTL

\* A clean row is what the source said at the counter the row carries
\* (_apply_clean_event, ack_outbox, resolve).
THEOREM CleanSafe == Spec => []CleanIsSourceVersion
<1>1. SyncInv /\ FeedInv => CleanIsSourceVersion
  <2> SUFFICES ASSUME SyncInv, FeedInv, NEW k \in Keys, rec[k].st = "clean"
               PROVE  /\ rec[k].sctr \in 1 .. Len(chg) /\ rec[k].srev = rec[k].sctr
                      /\ chg[rec[k].sctr].key = k
                      /\ chg[rec[k].sctr].val = rec[k].val /\ ~chg[rec[k].sctr].del
    BY DEF CleanIsSourceVersion
  <2>1. RowFed(k, rec[k])
    BY DEF FeedInv, TablesFed
  <2>2. Len(chg) \in Nat
    BY FeedTypes
  <2> QED
    BY <2>1, <2>2 DEF RowFed
<1> QED
  BY <1>1, FeedAlways, PTL

\* A row never shows other content under the same local revision, so the
\* expected revision of put and remove decides what the application has read
\* (_record_guard, _apply_clean_event, publish_snapshot).
THEOREM RevisionSafe == Spec => ContentHasRevision
<1>1. SyncInv /\ FeedInv /\ [Next]_vars =>
        [\A k \in Keys : <<rec'[k].val, rec'[k].del>> # <<rec[k].val, rec[k].del>>
                           => rec'[k].lrev > rec[k].lrev]_vars
  BY NextFeed DEF Revised
<1> QED
  BY <1>1, FeedAlways, PTL DEF Spec, ContentHasRevision

\* What is settled stays settled: no late answer, lost lease, page or snapshot
\* reopens an operation or changes its verdict (claim_outbox, ack_outbox,
\* fail_outbox, apply_changes).
THEOREM VerdictSafe == Spec => ClosedStaysClosed
<1>1. SyncInv /\ FeedInv /\ [Next]_vars =>
        [\A o \in LocalOps :
           /\ ob[o].st \in {"acknowledged", "blocked", "resolved"} => ob'[o].st = ob[o].st
           /\ ob[o].st = "conflict" => ob'[o].st \in {"conflict", "resolved"}]_vars
  BY NextFeed DEF VerdictsKept
<1> QED
  BY <1>1, FeedAlways, PTL DEF Spec, ClosedStaysClosed

=============================================================================
