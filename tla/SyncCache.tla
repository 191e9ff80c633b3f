------------------------------- MODULE SyncCache -------------------------------
(***************************************************************************)
(* The local cache tables of a synchronization binding and the SQL         *)
(* functions that change them (priv/sql/noizu_mcp_sync.sql): the row guard *)
(* and enqueue triggers behind put and remove, the worker-only queue and   *)
(* apply functions, and conflict resolution.  Every function is one        *)
(* transaction that locks the record before its outbox row, so each is one *)
(* atomic operator here.                                                   *)
(*   rec[k]    records: st, payload, deleted, source_revision,             *)
(*             source_counter, local_revision; st "absent" = no row;       *)
(*   ob[o]     outbox: the immutable request, the local revision it was    *)
(*             queued at, its state, fencing_token, lease and age.         *)
(*             attempts is incremented exactly where fencing_token is, so  *)
(*             fence stands for both, and first_attempt_at is null exactly *)
(*             while fence = 0;                                            *)
(*   cpt       checkpoints: whether source_cursor is set, last_event_id    *)
(*             (the counter inside source_cursor) and status;              *)
(*   deferred  inbound_deferred: counters of the events not applied yet;   *)
(*   conf[o]   conflicts: state, counter of the remote evidence (0 = the   *)
(*             evidence has no revision), and whether last_success_at has  *)
(*             passed the conflict's created_at.                           *)
(* Time is abstract: a lease is live until LeaseExpires, an operation's    *)
(* age reaches the dedupe horizon in two phases ("near": the worker's      *)
(* timeout no longer fits; "past"), and next_attempt_at is always due.     *)
(***************************************************************************)
EXTENDS SyncSource

CONSTANT LocalOps   \* operation ids minted by this cache; the others are
                    \* those of other writers of the same source

ASSUME LocalOpsAssumption == LocalOps \subseteq Ops

VARIABLES rec, ob, cpt, deferred, conf

cache == <<rec, ob, cpt, deferred, conf>>

Editable == {"clean", "tombstone"}
Dirty    == {"pending", "conflict", "blocked"}
InFlight == {"claimed", "unknown"}
Open     == {"pending", "claimed", "unknown", "conflict", "blocked"}

Rows == [st : Editable \cup Dirty \cup {"absent"}, val : Ops \cup {None}, del : BOOLEAN,
         srev : Nat, sctr : Nat, lrev : Nat]

OutboxRows == [st : Open \cup {"none", "acknowledged", "resolved"}, key : Keys \cup {None},
               kind : Kinds \cup {None}, pre : Nat, val : Ops \cup {None}, qlrev : Nat,
               fence : Nat, lease : {"none", "live", "expired"}, age : {"fresh", "near", "past"}]

NoRow == [st |-> "absent", val |-> None, del |-> FALSE, srev |-> 0, sctr |-> 0, lrev |-> 0]

NoOutboxRow == [st |-> "none", key |-> None, kind |-> None, pre |-> 0, val |-> None,
                qlrev |-> 0, fence |-> 0, lease |-> "none", age |-> "fresh"]

CacheInit == /\ rec = [k \in Keys |-> NoRow]
             /\ ob = [o \in LocalOps |-> NoOutboxRow]
             /\ cpt = [seen |-> FALSE, last |-> 0, status |-> "new"]
             /\ deferred = {}
             /\ conf = [o \in LocalOps |-> [st |-> "none", ev |-> 0, fresh |-> FALSE]]

\* The body of sync/mutate that the worker builds from an outbox row.
Request(o) == [op |-> o, key |-> ob[o].key, kind |-> ob[o].kind, pre |-> ob[o].pre,
               val |-> ob[o].val]

CleanState(del) == IF del THEN "tombstone" ELSE "clean"

-----------------------------------------------------------------------------
(* Local edits: put, remove and direct SQL run the same two triggers.        *)

\* _record_guard and _enqueue_record: the row becomes pending at the next local
\* revision and an immutable operation is queued against OLD.source_revision.
Enqueue(k, o, kind, v) ==
  /\ ob[o].st = "none"
  /\ rec' = [rec EXCEPT ![k] = [@ EXCEPT !.st = "pending", !.val = v, !.del = kind = "delete",
                                         !.lrev = rec[k].lrev + 1]]
  /\ ob' = [ob EXCEPT ![o] = [NoOutboxRow EXCEPT !.st = "pending", !.key = k, !.kind = kind,
                                                 !.pre = rec[k].srev, !.val = v,
                                                 !.qlrev = rec[k].lrev + 1]]
  /\ UNCHANGED <<cpt, deferred, conf>>

\* put with expected revision 0 inserts; a row that exists is a conflict.
put_new(k, o) == rec[k].st = "absent" /\ Enqueue(k, o, "create", o)

\* Mutant: a row with an operation in flight may be edited again.
putWhileDirty(k, o) == rec[k].st # "absent" /\ Enqueue(k, o, "update", o)

\* put and remove with the current local revision; only a settled row may be
\* edited.  A remove keeps the payload column.
put(k, o) == rec[k].st \in Editable /\ Enqueue(k, o, "update", o)

remove(k, o) == rec[k].st \in Editable /\ Enqueue(k, o, "delete", rec[k].val)

-----------------------------------------------------------------------------
(* Inbound events.                                                           *)

Latest(C) == CHOOSE m \in C : \A c \in C : c <= m

EventsOf(C, k) == {c \in C : chg[c].key = k}

\* Mutant: an event replaces the row under the revision the row already had.
ApplyEventsUnrevised(r, C) ==
  LET new == {c \in C : c > r.sctr}
  IN  IF new = {} THEN r
      ELSE LET m == Latest(new)
           IN  [st |-> CleanState(chg[m].del), val |-> chg[m].val, del |-> chg[m].del,
                srev |-> m, sctr |-> m, lrev |-> r.lrev]

\* Mutant: an event that is not newer than the row is installed again.
ApplyEventsUnordered(r, C) ==
  IF C = {} THEN r
  ELSE LET m == Latest(C)
       IN  [st |-> CleanState(chg[m].del), val |-> chg[m].val, del |-> chg[m].del,
            srev |-> m, sctr |-> m, lrev |-> r.lrev + Cardinality(C)]

\* _apply_clean_event on row r for the events C in ascending order: each event
\* newer than the row replaces it and adds one to the local revision.
ApplyEvents(r, C) ==
  LET new == {c \in C : c > r.sctr}
  IN  IF new = {} THEN r
      ELSE LET m == Latest(new)
           IN  [st |-> CleanState(chg[m].del), val |-> chg[m].val, del |-> chg[m].del,
                srev |-> m, sctr |-> m, lrev |-> r.lrev + Cardinality(new)]

\* What one page of new events does to k's row.  A dirty row keeps its local
\* value until the event of its own operation arrives: that event settles it,
\* drains its deferred events, and lets the rest of the page apply.
PageRow(k, new, own) ==
  IF rec[k].st \notin Dirty THEN ApplyEvents(rec[k], EventsOf(new, k))
  ELSE IF EventsOf(own, k) = {} THEN rec[k]
  ELSE LET c == Latest(EventsOf(own, k))
       IN  ApplyEvents([rec[k] EXCEPT !.st = "clean"],
                       {d \in EventsOf(deferred \cup new, k) : d >= c})

\* The events of a page that acknowledge the operation that caused them.
OwnEvents(new) == {c \in new : LET o == chg[c].op
                               IN  /\ o \in LocalOps
                                   /\ rec[chg[c].key].st \in Dirty
                                   /\ ob[o].st \in InFlight
                                   /\ ob[o].qlrev = rec[chg[c].key].lrev}

\* Mutant: events of dirty rows are skipped.
DeferredNone(new, own) == {c \in deferred : EventsOf(own, chg[c].key) = {}}

\* inbound_deferred after a page: the new events of rows that stay dirty are
\* added, those of rows that the page settles are drained.
Deferred(new, own) ==
  {c \in deferred : EventsOf(own, chg[c].key) = {}}
    \cup {c \in new : rec[chg[c].key].st \in Dirty /\ EventsOf(own, chg[c].key) = {}}

\* apply_changes: the page up to counter `next` and the checkpoint, atomically.
\* A page that ends before the checkpoint is stale and changes nothing.
apply_changes(next) ==
  IF next < cpt.last THEN UNCHANGED cache
  ELSE LET new == cpt.last + 1 .. next
           own == OwnEvents(new)
       IN  /\ rec' = [k \in Keys |-> PageRow(k, new, own)]
           /\ ob' = [o \in LocalOps |->
                       IF \E c \in own : chg[c].op = o
                       THEN [ob[o] EXCEPT !.st = "acknowledged", !.lease = "none"] ELSE ob[o]]
           /\ deferred' = Deferred(new, own)
           /\ cpt' = [seen |-> TRUE, last |-> next, status |-> "ready"]
           /\ conf' = [o \in LocalOps |-> [conf[o] EXCEPT !.fresh = conf[o].st # "none"]]

\* publish_snapshot: refused when the checkpoint has passed the boundary or any
\* row is dirty; rows the snapshot does not list become tombstones.
publish_snapshot(seq, rows) ==
  IF cpt.last > seq \/ \E k \in Keys : rec[k].st \in Dirty THEN UNCHANGED cache
  ELSE /\ rec' = [k \in Keys |->
                    IF rows[k] # 0 THEN ApplyEvents(rec[k], {rows[k]})
                    ELSE IF rec[k].st = "absent" \/ rec[k].del THEN rec[k]
                    ELSE [rec[k] EXCEPT !.val = None, !.del = TRUE, !.st = "tombstone",
                                        !.sctr = seq, !.lrev = rec[k].lrev + 1]]
       /\ cpt' = [seen |-> TRUE, last |-> seq, status |-> "ready"]
       /\ conf' = [o \in LocalOps |-> [conf[o] EXCEPT !.fresh = conf[o].st # "none"]]
       /\ UNCHANGED <<ob, deferred>>

-----------------------------------------------------------------------------
(* The queue.                                                                *)

\* Mutant: a lease that ran out keeps its operation.
ClaimableUnleased(o) == ob[o].st \in {"pending", "unknown"}

\* The operations claim_outbox looks at: due ones and those whose lease ran out.
Claimable(o) == \/ ob[o].st \in {"pending", "unknown"}
                \/ ob[o].st = "claimed" /\ ob[o].lease = "expired"

\* Operations of claim_outbox's scan that are beyond the dedupe horizon.
Exhausted(o) == Claimable(o) /\ ob[o].fence > 0 /\ ob[o].age = "past"

\* claim_outbox: nothing while the binding is paused; otherwise it blocks the
\* exhausted operations B that the scan meets, then leases operation o under the
\* next fencing token (o = None: nothing is due).
claim_outbox(o, B) ==
  /\ B \subseteq {p \in LocalOps : Exhausted(p)}
  /\ IF cpt.status = "paused_auth" THEN o = None /\ B = {}
     ELSE IF o = None THEN \A p \in LocalOps : Claimable(p) => p \in B
     ELSE Claimable(o) /\ ~Exhausted(o)
  /\ rec' = [k \in Keys |-> IF \E p \in B : ob[p].key = k
                            THEN [rec[k] EXCEPT !.st = "blocked", !.lrev = rec[k].lrev + 1]
                            ELSE rec[k]]
  /\ ob' = [p \in LocalOps |->
              IF p \in B THEN [ob[p] EXCEPT !.st = "blocked", !.lease = "none"]
              ELSE IF p = o THEN [ob[p] EXCEPT !.st = "claimed", !.lease = "live",
                                               !.fence = ob[p].fence + 1]
              ELSE ob[p]]
  /\ UNCHANGED <<cpt, deferred, conf>>

\* Mutant: whoever reports last settles.
SettlesUnfenced(o, fence) == ob[o].st # "none"

\* ack_outbox and fail_outbox take effect only for the current holder of a live
\* lease on an operation that is still in flight at its queued revision.
Settles(o, fence) ==
  /\ ob[o].st \in InFlight
  /\ ob[o].fence = fence
  /\ ob[o].qlrev = rec[ob[o].key].lrev
  /\ ob[o].lease = "live"

\* Mutant: the row keeps the source revision it was edited from.
AckedRowStale(k, c) == [st |-> CleanState(chg[c].del), val |-> chg[c].val, del |-> chg[c].del,
                        srev |-> rec[k].srev, sctr |-> c, lrev |-> rec[k].lrev + 1]

\* The row an acknowledged outcome leaves behind.
AckedRow(k, c) == [st |-> CleanState(chg[c].del), val |-> chg[c].val, del |-> chg[c].del,
                   srev |-> c, sctr |-> c, lrev |-> rec[k].lrev + 1]

\* ack_outbox: the outcome with counter c settles the row, then its deferred
\* events are drained.
ack_outbox(o, fence, c) ==
  IF ~Settles(o, fence) THEN UNCHANGED cache
  ELSE LET k == ob[o].key IN
           /\ rec' = [rec EXCEPT ![k] = ApplyEvents(AckedRow(k, c), EventsOf(deferred, k))]
           /\ ob' = [ob EXCEPT ![o].st = "acknowledged", ![o].lease = "none"]
           /\ deferred' = deferred \ EventsOf(deferred, k)
           /\ UNCHANGED <<cpt, conf>>

AuthCodes  == {"permission_denied"}
BlockCodes == {"blocked", "idempotency_mismatch"}

\* fail_outbox: a CAS mismatch becomes a conflict with the evidence counter ev,
\* a definite refusal blocks, everything else stays unknown and is retried with
\* the same operation id; an authorization failure pauses the binding as well.
fail_outbox(o, fence, code, ev) ==
  IF ~Settles(o, fence) THEN UNCHANGED cache
  ELSE LET target == CASE code = "revision_conflict" -> "conflict"
                       [] code \in BlockCodes        -> "blocked"
                       [] OTHER                      -> "unknown"
       IN  /\ rec' = IF target = "unknown" THEN rec
                     ELSE [rec EXCEPT ![ob[o].key].st = target,
                                      ![ob[o].key].lrev = rec[ob[o].key].lrev + 1]
           /\ ob' = [ob EXCEPT ![o].st = target, ![o].lease = "none"]
           /\ conf' = IF target # "conflict" THEN conf
                      ELSE [conf EXCEPT ![o] = [st |-> "open", ev |-> ev, fresh |-> FALSE]]
           /\ cpt' = IF code \in AuthCodes THEN [cpt EXCEPT !.status = "paused_auth"] ELSE cpt
           /\ UNCHANGED deferred

-----------------------------------------------------------------------------
(* Conflict resolution, pause and resume.                                    *)

\* resolve: needs an observation of the source that is newer than the conflict;
\* the newest of the evidence and the deferred events becomes the row, and
\* retry_local (p # None) queues the local value again as operation p against it.
resolve(o, p) ==
  LET k      == ob[o].key
      seen   == EventsOf(deferred, k)
      latest == Latest({conf[o].ev} \cup seen)
      remote == [st |-> CleanState(chg[latest].del), val |-> chg[latest].val,
                 del |-> chg[latest].del, srev |-> latest, sctr |-> latest,
                 lrev |-> rec[k].lrev + 1]
  IN  /\ conf[o].st = "open" /\ conf[o].fresh
      /\ cpt.status = "ready"
      /\ latest # 0
      /\ p # None => ob[p].st = "none"
      /\ deferred' = deferred \ seen
      /\ conf' = [conf EXCEPT ![o].st = "resolved"]
      /\ rec' = [rec EXCEPT ![k] =
                   IF p = None THEN remote
                   ELSE [remote EXCEPT !.st = "pending", !.val = rec[k].val, !.del = rec[k].del,
                                       !.lrev = rec[k].lrev + 2]]
      /\ ob' = [q \in LocalOps |->
                  IF q = o THEN [ob[q] EXCEPT !.st = "resolved"]
                  ELSE IF q = p THEN [NoOutboxRow EXCEPT
                         !.st = "pending", !.key = k,
                         !.kind = IF rec[k].del THEN "delete" ELSE "update",
                         !.pre = latest, !.val = rec[k].val, !.qlrev = rec[k].lrev + 2]
                  ELSE ob[q]]
      /\ UNCHANGED cpt

pause_binding == /\ cpt' = [cpt EXCEPT !.status = "paused_auth"]
                 /\ UNCHANGED <<rec, ob, deferred, conf>>

\* resume_binding also makes every unknown operation due, as it always is here.
resume_binding == /\ cpt.status = "paused_auth"
                  /\ cpt' = [cpt EXCEPT !.status = "ready"]
                  /\ UNCHANGED <<rec, ob, deferred, conf>>

\* A lease runs out; an attempted operation comes nearer to the dedupe horizon.
LeaseExpires(o) == /\ ob[o].lease = "live"
                   /\ ob' = [ob EXCEPT ![o].lease = "expired"]
                   /\ UNCHANGED <<rec, cpt, deferred, conf>>

Ages(o) == /\ ob[o].fence > 0 /\ ob[o].age # "past"
           /\ ob' = [ob EXCEPT ![o].age = IF ob[o].age = "fresh" THEN "near" ELSE "past"]
           /\ UNCHANGED <<rec, cpt, deferred, conf>>

=============================================================================
