---------------------------------- MODULE Sync ----------------------------------
(***************************************************************************)
(* A synchronization binding end to end: applications editing the cache,   *)
(* other writers of the source, and any number of Noizu.MCP.Sync.Worker    *)
(* processes (lib/noizu/mcp/sync/worker.ex) between the two.  A worker     *)
(* polls: it pushes at most one claimed operation, then pulls one page or  *)
(* a snapshot.  Every call to the store or to the source is a step of its  *)
(* own, so workers, applications, the source and crashes interleave        *)
(* between any two calls of the code.                                      *)
(*   wk[w]     the control state of worker w: pc, the claimed operation    *)
(*             and its fencing token, an error code, a counter (an         *)
(*             outcome, evidence, a cursor or a boundary) and the rows of  *)
(*             a snapshot (key -> counter);                                *)
(*   inflight  the sync/mutate requests on their way to the source.  A     *)
(*             worker that times out or crashes leaves its request behind: *)
(*             it may still commit, however late;                          *)
(*   faults    how much of the fault budget MaxFaults is spent.  It bounds *)
(*             crashes, lost calls, refusals, leases that run out under a  *)
(*             live worker, ageing and retention, never what they lead to. *)
(***************************************************************************)
EXTENDS SyncCache

CONSTANTS Workers,    \* worker processes of the binding
          Callers,    \* other processes that call Worker.snapshot
          PageLimit,  \* events per page of sync/changes
          FaultCodes, \* codes that failing calls to the source carry
          MaxFaults   \* bound: how many faults happen

ASSUME SyncAssumption == /\ Workers \cap Callers = {}
                         /\ PageLimit \in Nat \ {0}
                         /\ FaultCodes \subseteq {"unknown", "permission_denied"}
                         /\ MaxFaults \in Nat

VARIABLES wk, inflight, faults

Procs == Workers \cup Callers

work == <<wk, inflight>>
vars == <<chg, srcRec, srcOps, retained, rec, ob, cpt, deferred, conf, wk, inflight, faults>>

NoWork == [pc |-> "idle", op |-> None, fence |-> 0, code |-> "none", ctr |-> 0,
           rows |-> [k \in Keys |-> 0]]

PushSteps == {"caps", "lookup", "mutate", "wait", "ack", "fail"}
PullSteps == {"pull", "changes", "apply", "snapshot", "publish"}

Steps == PushSteps \cup PullSteps \cup {"idle", "pushPause", "pullPause"}
Codes == {"none", "expired", "unknown", "blocked", "revision_conflict", "idempotency_mismatch",
          "permission_denied"}

WorkStates == [pc : Steps, op : LocalOps \cup {None}, fence : Nat, code : Codes, ctr : Nat,
               rows : [Keys -> Nat]]

Mutations == [w : Procs, op : LocalOps, fence : Nat]

Init == /\ SourceInit
        /\ CacheInit
        /\ wk = [w \in Procs |-> NoWork]
        /\ inflight = {}
        /\ faults = 0

At(w, pc) == wk[w].pc = pc

\* w continues at pc with the fields of r that pc uses.
Goto(w, r) == wk' = [wk EXCEPT ![w] = r]

\* After the push half of a poll comes the pull half; after that, the timer.
PushDone == [NoWork EXCEPT !.pc = "pull"]

Fault == faults < MaxFaults /\ faults' = faults + 1

-----------------------------------------------------------------------------
(* Push: run_once.                                                           *)

\* The poll timer fires.  A paused binding is reported as permission_denied,
\* which pause_on_auth writes back to the store in a later step.
Poll(w) ==
  /\ w \in Workers /\ At(w, "idle")
  /\ Goto(w, [NoWork EXCEPT !.pc = IF cpt.status = "paused_auth" THEN "pushPause" ELSE "caps"])
  /\ UNCHANGED <<source, cache, inflight, faults>>

\* sync/capabilities fails: an authorization error pauses the binding.
CapabilitiesFail(w, code) ==
  /\ At(w, "caps")
  /\ Goto(w, IF code = "permission_denied" THEN [NoWork EXCEPT !.pc = "pushPause", !.code = code]
                                          ELSE PushDone)
  /\ Fault
  /\ UNCHANGED <<source, cache, inflight>>

\* deliver: an operation with a prior attempt, or too old to be answered within
\* the dedupe horizon, is looked up first.
NextCall(o) == IF ob[o].fence > 0 \/ ob[o].age # "fresh" THEN "lookup" ELSE "mutate"

\* Store.claim leases one operation and deliver chooses the first call.
Claim(w, o, B) ==
  /\ At(w, "caps")
  /\ claim_outbox(o, B)
  /\ Goto(w, IF o = None THEN PushDone
             ELSE [NoWork EXCEPT !.pc = NextCall(o), !.op = o, !.fence = ob[o].fence + 1,
                                 !.code = IF ob[o].age = "fresh" THEN "none" ELSE "expired"])
  /\ UNCHANGED <<source, inflight, faults>>

\* sync/operation answers: a remembered outcome is acknowledged, an unknown
\* operation is sent unless its horizon no longer protects a second delivery.
Lookup(w) ==
  LET o == wk[w].op
  IN  /\ At(w, "lookup")
      /\ Goto(w, IF srcOps[o].ctr # 0 THEN [wk[w] EXCEPT !.pc = "ack", !.ctr = srcOps[o].ctr]
                 ELSE IF wk[w].code = "expired"
                      THEN [wk[w] EXCEPT !.pc = "fail", !.code = "blocked"]
                 ELSE [wk[w] EXCEPT !.pc = "mutate"])
      /\ UNCHANGED <<source, cache, inflight, faults>>

LookupFail(w, code) ==
  /\ At(w, "lookup")
  /\ Goto(w, [wk[w] EXCEPT !.pc = "fail", !.code = code])
  /\ Fault
  /\ UNCHANGED <<source, cache, inflight>>

\* mutate: the request leaves the worker, which waits for the answer.
Send(w) ==
  /\ At(w, "mutate")
  /\ Goto(w, [wk[w] EXCEPT !.pc = "wait"])
  /\ inflight' = inflight \cup {[w |-> w, op |-> wk[w].op, fence |-> wk[w].fence]}
  /\ UNCHANGED <<source, cache, faults>>

\* The worker that sent m is still waiting for its answer.
Awaited(m) == /\ At(m.w, "wait") /\ wk[m.w].op = m.op /\ wk[m.w].fence = m.fence

\* The source executes an in-flight request and answers whoever still waits; a
\* CAS mismatch carries the current row as evidence.
Serve(m) ==
  LET q == Request(m.op)
  IN  /\ m \in inflight
      /\ inflight' = inflight \ {m}
      /\ source_mutate(q)
      /\ IF ~Awaited(m) THEN UNCHANGED wk
         ELSE Goto(m.w, IF MutateAnswer(q) = "ok"
                        THEN [wk[m.w] EXCEPT !.pc = "ack", !.ctr = MutateOutcome(q)]
                        ELSE [wk[m.w] EXCEPT !.pc = "fail", !.code = MutateAnswer(q),
                                             !.ctr = srcRec[q.key]])
      /\ UNCHANGED <<cache, faults>>

\* The request is lost or refused before the source executes it; a refusal
\* answers the worker.
LoseRequest(m, refused) ==
  /\ m \in inflight
  /\ refused => "permission_denied" \in FaultCodes
  /\ inflight' = inflight \ {m}
  /\ IF refused /\ Awaited(m)
     THEN Goto(m.w, [wk[m.w] EXCEPT !.pc = "fail", !.code = "permission_denied"])
     ELSE UNCHANGED wk
  /\ Fault
  /\ UNCHANGED <<source, cache>>

\* remote gives up after its timeout.  That is a fault of its own while the
\* request is still on its way, and the consequence of a lost one otherwise.
Timeout(w) ==
  /\ At(w, "wait")
  /\ Goto(w, [wk[w] EXCEPT !.pc = "fail", !.code = "unknown"])
  /\ IF \E m \in inflight : m.w = w /\ Awaited(m) THEN Fault ELSE UNCHANGED faults
  /\ UNCHANGED <<source, cache, inflight>>

Ack(w) ==
  /\ At(w, "ack")
  /\ ack_outbox(wk[w].op, wk[w].fence, wk[w].ctr)
  /\ Goto(w, PushDone)
  /\ UNCHANGED <<source, inflight, faults>>

Fail(w) ==
  /\ At(w, "fail")
  /\ fail_outbox(wk[w].op, wk[w].fence, wk[w].code, wk[w].ctr)
  /\ Goto(w, PushDone)
  /\ UNCHANGED <<source, inflight, faults>>

\* pause_on_auth: Store.pause, whatever the store's status has become meanwhile.
Pause(w) ==
  /\ wk[w].pc \in {"pushPause", "pullPause"}
  /\ pause_binding
  /\ Goto(w, IF At(w, "pushPause") THEN PushDone ELSE NoWork)
  /\ UNCHANGED <<source, inflight, faults>>

-----------------------------------------------------------------------------
(* Pull: pull_once and snapshot.                                             *)

\* pull_active reads the checkpoint; without a cursor it takes a snapshot.
Pull(w) ==
  /\ At(w, "pull")
  /\ Goto(w, [NoWork EXCEPT !.pc = IF cpt.status = "paused_auth" THEN "pullPause"
                                   ELSE IF cpt.seen THEN "changes" ELSE "snapshot",
                            !.ctr = cpt.last])
  /\ UNCHANGED <<source, cache, inflight, faults>>

\* sync/changes answers with the page after the cursor, or resnapshot_required.
Changes(w) ==
  /\ At(w, "changes")
  /\ Goto(w, IF CursorRetained(wk[w].ctr)
             THEN [NoWork EXCEPT !.pc = "apply", !.ctr = PageEnd(wk[w].ctr, PageLimit)]
             ELSE NoWork)
  /\ UNCHANGED <<source, cache, inflight, faults>>

ApplyChanges(w) ==
  /\ At(w, "apply")
  /\ apply_changes(wk[w].ctr)
  /\ Goto(w, NoWork)
  /\ UNCHANGED <<source, inflight, faults>>

\* Worker.snapshot, called from outside the worker process: the way out of an
\* expired cursor, and open to any process at any time.
Snapshot(w) ==
  /\ w \in Callers /\ At(w, "idle")
  /\ Goto(w, [NoWork EXCEPT !.pc = "snapshot"])
  /\ UNCHANGED <<source, cache, inflight, faults>>

\* source_snapshot materializes rows and boundary under the head lock; later
\* pages come from the same immutable snapshot.
SnapshotPage(w) ==
  /\ At(w, "snapshot")
  /\ Goto(w, [NoWork EXCEPT !.pc = "publish", !.ctr = Len(chg), !.rows = srcRec])
  /\ UNCHANGED <<source, cache, inflight, faults>>

Publish(w) ==
  /\ At(w, "publish")
  /\ publish_snapshot(wk[w].ctr, wk[w].rows)
  /\ Goto(w, NoWork)
  /\ UNCHANGED <<source, inflight, faults>>

\* sync/changes or sync/snapshot fails; only the poll's own calls pause.
PullFail(w, code) ==
  /\ wk[w].pc \in {"changes", "snapshot"}
  /\ Goto(w, IF code = "permission_denied" /\ w \in Workers
             THEN [NoWork EXCEPT !.pc = "pullPause", !.code = code] ELSE NoWork)
  /\ Fault
  /\ UNCHANGED <<source, cache, inflight>>

\* The worker process dies; its supervisor starts it again.
Crash(w) ==
  /\ ~At(w, "idle")
  /\ Goto(w, NoWork)
  /\ Fault
  /\ UNCHANGED <<source, cache, inflight>>

-----------------------------------------------------------------------------
(* Applications, operators, other writers, and time.                         *)

Edit(k, o) == /\ put_new(k, o) \/ put(k, o) \/ remove(k, o)
              /\ UNCHANGED <<source, work, faults>>

Resolve(o, p) == resolve(o, p) /\ UNCHANGED <<source, work, faults>>

Resume == resume_binding /\ UNCHANGED <<source, work, faults>>

\* Another client of the source writes k under the CAS of the row it has read.
OtherWrite(o, k, kind) ==
  /\ o \notin LocalOps
  /\ srcOps[o].ctr = 0
  /\ Mutate(o, k, kind, srcRec[k], o)
  /\ UNCHANGED <<cache, work, faults>>

Held(o) == \E w \in Workers : wk[w].op = o /\ wk[w].fence = ob[o].fence

\* A lease outlives its worker's calls unless the worker is slow: a fault while
\* a worker still holds it, the ordinary way on when none does.
LeaseTimeout(o) ==
  /\ LeaseExpires(o)
  /\ IF Held(o) THEN Fault ELSE UNCHANGED faults
  /\ UNCHANGED <<source, work>>

Age(o) == Ages(o) /\ Fault /\ UNCHANGED <<source, work>>

Retention(r) == Prune(r) /\ Fault /\ UNCHANGED <<cache, work>>

-----------------------------------------------------------------------------

WorkerCalls(w) == \/ Poll(w) \/ Lookup(w) \/ Send(w) \/ Timeout(w) \/ Ack(w) \/ Fail(w)
                  \/ Pause(w) \/ Pull(w) \/ Changes(w) \/ ApplyChanges(w)
                  \/ SnapshotPage(w) \/ Publish(w)
                  \/ \E o \in LocalOps \cup {None}, B \in SUBSET LocalOps : Claim(w, o, B)

WorkerFaults(w) == \/ Crash(w)
                   \/ \E code \in FaultCodes :
                        CapabilitiesFail(w, code) \/ LookupFail(w, code) \/ PullFail(w, code)

Network(m) == Serve(m) \/ \E refused \in BOOLEAN : LoseRequest(m, refused)

Environment == \/ \E k \in Keys, o \in LocalOps : Edit(k, o)
               \/ \E o \in LocalOps, p \in LocalOps \cup {None} : Resolve(o, p)
               \/ Resume
               \/ \E o \in Ops, k \in Keys, kind \in Kinds : OtherWrite(o, k, kind)
               \/ \E o \in LocalOps : LeaseTimeout(o) \/ Age(o)
               \/ \E r \in 1 .. Len(chg) : Retention(r)

Next == \/ \E w \in Procs : WorkerCalls(w) \/ WorkerFaults(w) \/ Snapshot(w)
        \/ \E m \in inflight : Network(m)
        \/ Environment

Spec == Init /\ [][Next]_vars

\* Fairness: a worker's timer fires again after every poll, so every worker keeps
\* making its calls; the source executes a request that is awaited; the lease of
\* a worker that is gone runs out.  Nothing forces applications, other writers or
\* operators to act, nor a request nobody waits for to arrive.
Fairness == /\ \A w \in Workers : WF_vars(WorkerCalls(w))
            /\ WF_vars(\E m \in inflight : Awaited(m) /\ Serve(m))
            /\ \A o \in LocalOps : WF_vars(~Held(o) /\ LeaseTimeout(o))

FairSpec == Spec /\ Fairness

-----------------------------------------------------------------------------

\* The tables of source and cache, the workers and their requests have their
\* types: no counter, cursor or event id runs ahead of the change feed.
TypeOK ==
  /\ SourceTypeOK
  /\ rec \in [Keys -> Rows]
  /\ ob \in [LocalOps -> OutboxRows]
  /\ cpt \in [seen : BOOLEAN, last : 0 .. Len(chg), status : {"new", "ready", "paused_auth"}]
  /\ deferred \subseteq 1 .. Len(chg)
  /\ conf \in [LocalOps -> [st : {"none", "open", "resolved"}, ev : 0 .. Len(chg),
                            fresh : BOOLEAN]]
  /\ wk \in [Procs -> WorkStates]
  /\ inflight \subseteq Mutations
  /\ faults \in 0 .. MaxFaults

\* An operation the cache calls acknowledged has had its effect at the source,
\* and the outcome was that of exactly its own request: ack_outbox and
\* apply_changes never settle an operation on somebody else's answer.
AckedIsApplied ==
  \A o \in LocalOps : ob[o].st = "acknowledged" =>
    /\ srcOps[o].ctr # 0
    /\ srcOps[o].hash = Request(o)

\* An operation that ended as a conflict never takes effect: not later either,
\* through a request of an earlier attempt that a crashed or timed-out worker
\* left in flight, nor after resolve has queued a successor for it.
RejectedNeverApplied ==
  \A o \in LocalOps : ob[o].st \in {"conflict", "resolved"} => srcOps[o].ctr = 0

\* A dirty row has exactly one open operation, queued with the row's present
\* value, and every other operation of the row is closed: no event, snapshot,
\* late answer or second worker replaces an edit that is not settled yet.
IntentKept ==
  \A k \in Keys :
    LET open == {o \in LocalOps : ob[o].st \in Open /\ ob[o].key = k}
    IN  IF rec[k].st \in Dirty
        THEN \E o \in open : open = {o} /\ rec[k].val = ob[o].val
                                        /\ rec[k].del = (ob[o].kind = "delete")
        ELSE open = {}

\* A clean row is what the source said at the counter the row carries.
CleanIsSourceVersion ==
  \A k \in Keys : rec[k].st = "clean" =>
    /\ rec[k].sctr \in 1 .. Len(chg) /\ rec[k].srev = rec[k].sctr
    /\ chg[rec[k].sctr].key = k
    /\ chg[rec[k].sctr].val = rec[k].val /\ ~chg[rec[k].sctr].del

\* The checkpoint never moves past an event that is neither reflected in its
\* row nor kept for later, and nothing is kept for a row that is settled.
NoEventLost ==
  /\ \A c \in 1 .. cpt.last : c <= rec[chg[c].key].sctr \/ c \in deferred
  /\ \A c \in deferred : c <= cpt.last /\ rec[chg[c].key].st \in Dirty

\* A row never shows other content under the same local revision, so the
\* optimistic check of put and remove compares what the application has read.
ContentHasRevision ==
  [][\A k \in Keys : <<rec'[k].val, rec'[k].del>> # <<rec[k].val, rec[k].del>>
                       => rec'[k].lrev > rec[k].lrev]_vars

\* The counter of a row never goes back: what a row has taken from the source
\* is not undone by a delayed page, snapshot or answer of another worker.
RowsNeverRegress == [][\A k \in Keys : rec'[k].sctr >= rec[k].sctr]_vars

\* A pause is lifted by an explicit resume and by nothing else.
PauseUntilResume ==
  [][cpt.status = "paused_auth" /\ cpt'.status # "paused_auth" => Resume]_vars

\* What is settled stays settled: no late answer, lost lease, page or snapshot
\* reopens an acknowledged, blocked or resolved operation or changes its verdict,
\* and a conflict is left only by resolve.
ClosedStaysClosed ==
  [][\A o \in LocalOps :
       /\ ob[o].st \in {"acknowledged", "blocked", "resolved"} => ob'[o].st = ob[o].st
       /\ ob[o].st = "conflict" => ob'[o].st \in {"conflict", "resolved"}]_vars

\* Every queued operation is settled one way or another: crashes, lost answers
\* and expired leases delay it, they never strand it.
QueueDrains ==
  \A o \in LocalOps : ob[o].st \in {"pending", "claimed", "unknown"}
                        ~> ob[o].st \in {"acknowledged", "conflict", "blocked"}

\* The checkpoint reaches every event of the source, unless the cursor is behind
\* the retention boundary, or a conflicted or blocked row keeps the first
\* snapshot from being published.
FeedFollowed ==
  \A c \in 1 .. Cardinality(Ops) :
    Len(chg) >= c ~> \/ c <= cpt.last
                     \/ cpt.last < retained
                     \/ ~cpt.seen /\ \E k \in Keys : rec[k].st \in {"conflict", "blocked"}

\* Polling on gives every open conflict the fresh observation of the source that
\* resolve asks for.
ConflictBecomesResolvable ==
  \A o \in LocalOps : conf[o].st = "open" ~> conf[o].st = "resolved" \/ conf[o].fresh

=============================================================================
