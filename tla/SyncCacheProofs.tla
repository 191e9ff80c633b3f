---------------------------- MODULE SyncCacheProofs ----------------------------
(***************************************************************************)
(* The store's transactions keep the cache's part of the invariant of      *)
(* SyncProofs.  There are three sorts: those that change no owner of a row *)
(* (claim, fail, time, pause), those that settle rows (ack, a page, a      *)
(* snapshot, resolve with the source's version) and those that pass a row  *)
(* to a new operation (an edit, resolve with a retry).  Here: the frames   *)
(* of the three sorts, the queue's own transactions and local edits; first *)
(* for SyncInv (the lemmas ...Cache), then for FeedInv (the lemmas ...Fed). *)
(***************************************************************************)
EXTENDS SyncProofs

\* No operation is queued or reopened, and every request stays as it was.
OnlySettles ==
  \A o \in LocalOps :
    /\ Request(o)' = Request(o)
    /\ ob'[o].st = "none" <=> ob[o].st = "none"
    /\ ob'[o].st \in Open => ob[o].st \in Open

\* The source's view of the operations under a transaction that only settles.
LEMMA SettlingFrame ==
  ASSUME SyncInv, UNCHANGED source, OnlySettles
  PROVE  /\ OpsKept /\ OpInv' /\ OwnerUnique'
         /\ \A o \in LocalOps : Doomed(o) => Doomed(o)'
<1>1. srcOps' = srcOps /\ srcRec' = srcRec
  BY DEF source
<1>2. OpInv /\ OwnerUnique
  BY DEF SyncInv, CacheInv
<1>3. \A o \in LocalOps : ob'[o].key = ob[o].key /\ ob'[o].pre = ob[o].pre
  BY Zenon DEF OnlySettles, Request
<1>4. OpsKept
  BY DEF OnlySettles, OpsKept
<1>5. OpInv'
  <2> SUFFICES ASSUME NEW o \in LocalOps
               PROVE  /\ ob'[o].st = "none" => srcOps[o].ctr = 0
                      /\ ob'[o].st # "none" => /\ Request(o)' \in Requests
                                               /\ ob'[o].pre <= srcRec[ob'[o].key]
                      /\ srcOps[o].ctr # 0 => srcOps[o].hash = Request(o)'
    BY <1>1 DEF OpInv
  <2>1. Request(o)' = Request(o) /\ (ob'[o].st = "none" <=> ob[o].st = "none")
    BY DEF OnlySettles
  <2> HIDE DEF Request
  <2> QED
    BY <1>2, <1>3, <2>1 DEF OpInv
<1>6. OwnerUnique'
  BY <1>2, <1>3 DEF OwnerUnique, OnlySettles
<1>7. \A o \in LocalOps : Doomed(o) => Doomed(o)'
  BY <1>1, <1>3 DEF Doomed
<1> QED
  BY <1>4, <1>5, <1>6, <1>7

\* No row changes hands: what is dirty stays dirty under its open operation and
\* keeps its content, and what is settled keeps its state.
SameOwners ==
  /\ \A k \in Keys :
       /\ rec'[k].val = rec[k].val /\ rec'[k].del = rec[k].del
       /\ rec'[k].srev = rec[k].srev /\ rec'[k].sctr = rec[k].sctr
       /\ rec'[k].st = rec[k].st \/ (rec'[k].st \in Dirty /\ rec[k].st \in Dirty)
  /\ \A o \in LocalOps : ob[o].st \in Open <=> ob'[o].st \in Open

\* A transaction of the store under which no row changes hands keeps what the
\* invariant says of rows and of who owns them.
LEMMA OwnersFrame ==
  ASSUME SyncInv, UNCHANGED source, OnlySettles, SameOwners
  PROVE  RowInv' /\ OpenOwns' /\ DirtyOwned'
<1>1. srcRec' = srcRec
  BY DEF source
<1>2. RowInv /\ OpenOwns /\ DirtyOwned /\ OpInv
  BY DEF SyncInv, CacheInv
<1>3. RowInv'
  <2> SUFFICES ASSUME NEW k \in Keys
               PROVE  /\ rec'[k].st = "absent" => rec'[k].srev = 0 /\ rec'[k].sctr = 0
                      /\ rec'[k].st \in Editable \/ rec'[k].sctr # 0 => rec'[k].srev # 0
                      /\ rec'[k].srev <= srcRec[k]
                      /\ rec'[k].st \in Dirty /\ ~rec'[k].del => rec'[k].val # None
    BY <1>1 DEF RowInv
  <2>1. /\ rec[k].st = "absent" => rec[k].srev = 0 /\ rec[k].sctr = 0
        /\ rec[k].st \in Editable \/ rec[k].sctr # 0 => rec[k].srev # 0
        /\ rec[k].srev <= srcRec[k]
        /\ rec[k].st \in Dirty /\ ~rec[k].del => rec[k].val # None
    BY <1>2 DEF RowInv
  <2>2. /\ rec'[k].val = rec[k].val /\ rec'[k].del = rec[k].del
        /\ rec'[k].srev = rec[k].srev /\ rec'[k].sctr = rec[k].sctr
        /\ rec'[k].st = rec[k].st \/ (rec'[k].st \in Dirty /\ rec[k].st \in Dirty)
    BY DEF SameOwners
  <2> QED
    BY <2>1, <2>2 DEF Dirty, Editable
<1>4. \A o \in LocalOps : /\ ob'[o].key = ob[o].key /\ ob'[o].kind = ob[o].kind
                          /\ ob'[o].val = ob[o].val
  BY Zenon DEF OnlySettles, Request
<1>5. OpenOwns'
  <2> SUFFICES ASSUME NEW o \in LocalOps, ob'[o].st \in Open
               PROVE  /\ rec'[ob'[o].key].st \in Dirty
                      /\ rec'[ob'[o].key].val = ob'[o].val
                      /\ rec'[ob'[o].key].del = (ob'[o].kind = "delete")
    BY DEF OpenOwns
  <2>1. /\ ob[o].st \in Open /\ rec[ob[o].key].st \in Dirty /\ rec[ob[o].key].val = ob[o].val
        /\ rec[ob[o].key].del = (ob[o].kind = "delete")
    BY <1>2 DEF OpenOwns, OnlySettles
  <2>2. ob[o].key \in Keys
    BY <1>2, <2>1, Zenon DEF OpInv, Request, Requests, Open
  <2> QED
    BY <1>4, <2>1, <2>2 DEF SameOwners
<1>6. DirtyOwned'
  BY <1>2, <1>4 DEF DirtyOwned, SameOwners
<1> QED
  BY <1>3, <1>5, <1>6

\* A transaction of the store, whoever calls it, once its tables are consistent.
LEMMA StoreStep ==
  ASSUME SyncInv, UNCHANGED source, CacheTypeOK', CacheInv', OpsKept,
         wk' \in [Procs -> WorkStates], \A v \in Procs : wk'[v] = wk[v] \/ Knows(wk[v])',
         inflight' = inflight, faults' \in 0 .. MaxFaults
  PROVE  SyncInv'
<1>1. SourceInv' /\ SourceGrows
  <2>1. SourceInv'
    BY Zenon DEF SyncInv, SourceInv, SourceTypeOK, TablesAgree, EffectOnce, CasChain, source
  <2>2. Len(chg) \in Nat /\ \A k \in Keys : srcRec[k] \in Nat
    BY DEF SyncInv, SourceInv, SourceTypeOK
  <2> QED
    BY <2>1, <2>2 DEF SourceGrows, source
<1>2. DoomedKept
  BY Zenon DEF DoomedKept, Doomed, OpsKept, Request, source
<1> QED
  BY <1>1, <1>2, Assemble

-----------------------------------------------------------------------------
(* Transactions that change no owner.                                        *)

\* A row of the outbox after its state, lease, fencing token or age was set.
LEMMA OutboxRowType ==
  ASSUME NEW r \in OutboxRows, NEW s \in Open \cup {"acknowledged", "resolved"},
         NEW l \in {"none", "live", "expired"}, NEW a \in {"fresh", "near", "past"}
  PROVE  /\ [r EXCEPT !.st = s, !.lease = l] \in OutboxRows
         /\ [r EXCEPT !.st = s, !.lease = l, !.fence = r.fence + 1] \in OutboxRows
         /\ [r EXCEPT !.st = s] \in OutboxRows
         /\ [r EXCEPT !.lease = l] \in OutboxRows
         /\ [r EXCEPT !.age = a] \in OutboxRows
<1>1. s \in Open \cup {"none", "acknowledged", "resolved"} /\ r.fence + 1 \in Nat
  BY DEF OutboxRows
<1>2. [r EXCEPT !.st = s, !.lease = l] \in OutboxRows
  BY <1>1, Zenon DEF OutboxRows
<1>3. [r EXCEPT !.st = s, !.lease = l, !.fence = r.fence + 1] \in OutboxRows
  BY <1>1, Zenon DEF OutboxRows
<1>4. [r EXCEPT !.st = s] \in OutboxRows
  BY <1>1 DEF OutboxRows
<1>5. [r EXCEPT !.lease = l] \in OutboxRows /\ [r EXCEPT !.age = a] \in OutboxRows
  BY DEF OutboxRows
<1> QED
  BY <1>2, <1>3, <1>4, <1>5

\* Two versions of an outbox row with the same request.
SameRequest(r, n) == n.key = r.key /\ n.kind = r.kind /\ n.pre = r.pre /\ n.val = r.val

\* A row of the cache after its state was set in a new local revision.
Restated(r, s) == [r EXCEPT !.st = s, !.lrev = r.lrev + 1]

\* Setting the state of a row, as claim_outbox and fail_outbox do, keeps its
\* content and its place in the source's history.
LEMMA RowRestated ==
  ASSUME NEW r \in Rows, NEW s \in Editable \cup Dirty
  PROVE  /\ Restated(r, s) \in Rows /\ Restated(r, s).st = s
         /\ Restated(r, s).val = r.val /\ Restated(r, s).del = r.del
         /\ Restated(r, s).srev = r.srev /\ Restated(r, s).sctr = r.sctr
<1>1. s \in Editable \cup Dirty \cup {"absent"} /\ r.lrev + 1 \in Nat
  BY DEF Rows
<1> QED
  BY <1>1, Zenon DEF Rows, Restated

\* A transaction that changes nothing: its caller has lost the lease, or its page
\* or snapshot is stale.
LEMMA StoreIdle ==
  ASSUME SyncInv, UNCHANGED source, UNCHANGED cache
  PROVE  CacheTypeOK' /\ CacheInv' /\ OpsKept
<1>1. OpsKept
  BY DEF OpsKept, Request, cache
<1>2. CacheTypeOK' /\ CacheInv'
  BY Parts DEF CacheTypeOK, CacheInv, RowInv, OpInv, OpenOwns, OwnerUnique, DirtyOwned,
               VerdictInv, Doomed, Request, cache, source
<1> QED
  BY <1>1, <1>2

\* claim_outbox leases one operation and blocks the ones past their horizon.
LEMMA ClaimCache ==
  ASSUME SyncInv, UNCHANGED source, NEW o \in LocalOps \cup {None}, NEW B \in SUBSET LocalOps,
         claim_outbox(o, B)
  PROVE  CacheTypeOK' /\ CacheInv' /\ OpsKept
<1>1. /\ CacheTypeOK /\ CacheInv
      /\ \A k \in Keys : rec[k] \in Rows
      /\ \A p \in LocalOps : ob[p] \in OutboxRows
      /\ \A p \in LocalOps : ob[p].st # "none" => ob[p].key \in Keys
      /\ \A p \in LocalOps : ob[p].st \in Open => rec[ob[p].key].st \in Dirty
  BY Parts
<1>2. /\ \A p \in B : ob[p].st \in {"pending", "claimed", "unknown"}
      /\ o # None => ob[o].st \in {"pending", "claimed", "unknown"} /\ o \in LocalOps
      /\ cpt' = cpt /\ deferred' = deferred /\ conf' = conf /\ chg' = chg
  BY Zenon DEF claim_outbox, Claimable, Exhausted, source
<1>3. \A k \in Keys :
        \/ rec'[k] = rec[k]
        \/ rec[k].st \in Dirty /\ rec'[k] = Restated(rec[k], "blocked")
  BY <1>1, <1>2, Zenon DEF claim_outbox, Open, Restated
<1>4. \A p \in LocalOps :
        \/ ob'[p] = ob[p]
        \/ /\ ob[p].st \in {"pending", "claimed", "unknown"}
           /\ \/ ob'[p] = [ob[p] EXCEPT !.st = "blocked", !.lease = "none"]
              \/ ob'[p] = [ob[p] EXCEPT !.st = "claimed", !.lease = "live",
                                        !.fence = ob[p].fence + 1]
  BY <1>2, NoneAssumption, LocalOpsAssumption, Zenon DEF claim_outbox
<1>5. CacheTypeOK'
  <2>1. ASSUME NEW k \in Keys PROVE rec'[k] \in Rows
    <3>1. "blocked" \in Editable \cup Dirty /\ rec[k] \in Rows
      BY <1>1 DEF Dirty
    <3> QED
      BY <1>3, <3>1, RowRestated
  <2>2. ASSUME NEW p \in LocalOps PROVE ob'[p] \in OutboxRows
    <3>1. {"blocked", "claimed"} \subseteq Open
      BY DEF Open
    <3>2. ob[p] \in OutboxRows
      BY <1>1
    <3>3. /\ [ob[p] EXCEPT !.st = "blocked", !.lease = "none"] \in OutboxRows
          /\ [ob[p] EXCEPT !.st = "claimed", !.lease = "live", !.fence = ob[p].fence + 1]
               \in OutboxRows
      BY <3>1, <3>2, OutboxRowType, Zenon
    <3> QED
      BY <1>4, <3>2, <3>3, Zenon
  <2>3. rec' = [k \in Keys |-> rec'[k]] /\ ob' = [p \in LocalOps |-> ob'[p]]
    BY Zenon DEF claim_outbox
  <2> QED
    BY <1>1, <1>2, <2>1, <2>2, <2>3 DEF CacheTypeOK
<1>6. \A p \in LocalOps :
        /\ SameRequest(ob[p], ob'[p])
        /\ \/ ob'[p].st = ob[p].st
           \/ ob[p].st \in {"pending", "claimed", "unknown"} /\ ob'[p].st \in {"blocked", "claimed"}
  <2> SUFFICES ASSUME NEW p \in LocalOps
               PROVE  /\ SameRequest(ob[p], ob'[p])
                      /\ \/ ob'[p].st = ob[p].st
                         \/ /\ ob[p].st \in {"pending", "claimed", "unknown"}
                            /\ ob'[p].st \in {"blocked", "claimed"}
    OBVIOUS
  <2>1. CASE ob'[p] = ob[p]
    BY <2>1 DEF SameRequest
  <2>2. CASE ob'[p] # ob[p]
    <3> DEFINE b == [ob[p] EXCEPT !.st = "blocked", !.lease = "none"]
               c == [ob[p] EXCEPT !.st = "claimed", !.lease = "live", !.fence = ob[p].fence + 1]
    <3>1. ob[p].st \in {"pending", "claimed", "unknown"} /\ (ob'[p] = b \/ ob'[p] = c)
      BY <1>4, <2>2, Zenon
    <3>2. SameRequest(ob[p], b) /\ SameRequest(ob[p], c) /\ b.st = "blocked" /\ c.st = "claimed"
      <4>1. ob[p] \in OutboxRows
        BY <1>1
      <4> QED
        BY <4>1 DEF OutboxRows, SameRequest
    <3> HIDE DEF b, c
    <3> QED
      BY <3>1, <3>2
  <2> QED
    BY <2>1, <2>2
<1>7. OnlySettles
  BY <1>6 DEF OnlySettles, Request, Open, SameRequest
<1>8. SameOwners
  <2>1. \A p \in LocalOps : ob[p].st \in Open <=> ob'[p].st \in Open
    BY <1>6 DEF Open
  <2>2. ASSUME NEW k \in Keys
        PROVE  /\ rec'[k].val = rec[k].val /\ rec'[k].del = rec[k].del
               /\ rec'[k].srev = rec[k].srev /\ rec'[k].sctr = rec[k].sctr
               /\ rec'[k].st = rec[k].st \/ (rec'[k].st \in Dirty /\ rec[k].st \in Dirty)
    <3>1. "blocked" \in Dirty /\ rec[k] \in Rows
      BY <1>1 DEF Dirty
    <3>2. CASE rec'[k] = rec[k]
      BY <3>2
    <3>3. CASE rec'[k] # rec[k]
      BY <1>3, <3>1, <3>3, RowRestated
    <3> QED
      BY <3>2, <3>3
  <2> QED
    BY <2>1, <2>2 DEF SameOwners
<1>9. RowInv' /\ OpenOwns' /\ DirtyOwned' /\ OpsKept /\ OpInv' /\ OwnerUnique'
  BY <1>7, <1>8, OwnersFrame, SettlingFrame, SMTT(30)
<1>10. VerdictInv'
  <2>1. \A p \in LocalOps : Doomed(p) => Doomed(p)'
    BY <1>7, SettlingFrame
  <2>2. srcOps' = srcOps /\ srcRec' = srcRec
    BY DEF source
  <2> QED
    BY <1>1, <1>2, <1>6, <2>1, <2>2 DEF CacheInv, VerdictInv, SameRequest
<1> QED
  BY <1>5, <1>9, <1>10 DEF CacheInv

\* A lease runs out, an operation ages, the binding is paused or resumed: the
\* rows and the requests stay as they are.
LEMMA TimeCache ==
  ASSUME SyncInv, UNCHANGED source,
         \/ \E o \in LocalOps : LeaseExpires(o) \/ Ages(o)
         \/ pause_binding \/ resume_binding
  PROVE  CacheTypeOK' /\ CacheInv' /\ OpsKept
<1>1. /\ CacheTypeOK /\ CacheInv
      /\ \A k \in Keys : rec[k] \in Rows
      /\ \A p \in LocalOps : ob[p] \in OutboxRows
  BY Parts
<1>2. /\ rec' = rec /\ deferred' = deferred /\ conf' = conf
      /\ chg' = chg /\ srcOps' = srcOps /\ srcRec' = srcRec
  BY DEF LeaseExpires, Ages, pause_binding, resume_binding, source
<1>3. /\ ob' \in [LocalOps -> OutboxRows]
      /\ \A p \in LocalOps :
           /\ ob'[p].key = ob[p].key /\ ob'[p].kind = ob[p].kind /\ ob'[p].pre = ob[p].pre
           /\ ob'[p].val = ob[p].val /\ ob'[p].st = ob[p].st
  <2>1. ob \in [LocalOps -> OutboxRows]
    BY <1>1 DEF CacheTypeOK
  <2>2. CASE pause_binding \/ resume_binding
    BY <2>1, <2>2 DEF pause_binding, resume_binding
  <2>3. ASSUME NEW o \in LocalOps, LeaseExpires(o) \/ Ages(o)
        PROVE  /\ ob' \in [LocalOps -> OutboxRows]
               /\ \A p \in LocalOps :
                    /\ ob'[p].key = ob[p].key /\ ob'[p].kind = ob[p].kind
                    /\ ob'[p].pre = ob[p].pre /\ ob'[p].val = ob[p].val
                    /\ ob'[p].st = ob[p].st
    <3>1. \E n \in OutboxRows :
            /\ ob' = [ob EXCEPT ![o] = n]
            /\ n.key = ob[o].key /\ n.kind = ob[o].kind /\ n.pre = ob[o].pre
            /\ n.val = ob[o].val /\ n.st = ob[o].st
      <4>1. CASE LeaseExpires(o)
        <5> DEFINE n == [ob[o] EXCEPT !.lease = "expired"]
        <5>1. n \in OutboxRows /\ ob' = [ob EXCEPT ![o] = n]
          BY <1>1, <4>1, OutboxRowType, Zenon DEF LeaseExpires, Open
        <5> QED
          BY <1>1, <5>1, Zenon DEF OutboxRows
      <4>2. CASE Ages(o)
        <5> DEFINE a == IF ob[o].age = "fresh" THEN "near" ELSE "past"
                   n == [ob[o] EXCEPT !.age = a]
        <5>1. a \in {"fresh", "near", "past"}
          OBVIOUS
        <5>2. ob' = [ob EXCEPT ![o] = n]
          BY <4>2 DEF Ages
        <5> HIDE DEF a
        <5>3. n \in OutboxRows
          BY <1>1, <5>1, OutboxRowType, Zenon DEF Open
        <5> QED
          BY <1>1, <5>2, <5>3, Zenon DEF OutboxRows
      <4> QED
        BY <2>3, <4>1, <4>2
    <3> QED
      BY <2>1, <3>1
  <2> QED
    BY <2>2, <2>3
<1>4. CacheTypeOK'
  <2>1. cpt' \in [seen : BOOLEAN, last : 0 .. Len(chg), status : {"new", "ready", "paused_auth"}]
    BY <1>1 DEF CacheTypeOK, LeaseExpires, Ages, pause_binding, resume_binding
  <2> QED
    BY <1>1, <1>2, <1>3, <2>1 DEF CacheTypeOK
<1>5. OnlySettles
  BY <1>3 DEF OnlySettles, Request
<1>6. SameOwners
  BY <1>2, <1>3 DEF SameOwners
<1>7. RowInv' /\ OpenOwns' /\ DirtyOwned' /\ OpsKept /\ OpInv' /\ OwnerUnique'
  BY <1>5, <1>6, OwnersFrame, SettlingFrame
<1>8. VerdictInv'
  BY <1>1, <1>2, <1>3, <1>5, SettlingFrame DEF CacheInv, VerdictInv
<1> QED
  BY <1>4, <1>7, <1>8 DEF CacheInv

\* fail_outbox records a verdict of the source, or that none is known.
LEMMA FailCache ==
  ASSUME SyncInv, UNCHANGED source, NEW o \in LocalOps, NEW fence, NEW code, NEW ev \in Nat,
         ob[o].st # "none", fail_outbox(o, fence, code, ev),
         code = "revision_conflict" => Doomed(o) /\ ev <= srcRec[ob[o].key]
  PROVE  CacheTypeOK' /\ CacheInv' /\ OpsKept
<1> DEFINE target == CASE code = "revision_conflict" -> "conflict"
                       [] code \in BlockCodes        -> "blocked"
                       [] OTHER                      -> "unknown"
           k == ob[o].key
           n == [ob[o] EXCEPT !.st = target, !.lease = "none"]
<1>1. /\ CacheTypeOK /\ CacheInv
      /\ \A j \in Keys : rec[j] \in Rows
      /\ \A p \in LocalOps : ob[p] \in OutboxRows
      /\ k \in Keys
      /\ ob[o].st \in Open => rec[k].st \in Dirty
      /\ Len(chg) \in Nat
      /\ srcRec \in [Keys -> 0 .. Len(chg)]
  BY Parts DEF SyncInv, SourceInv, SourceTypeOK
<1>2. CASE ~Settles(o, fence)
  <2>1. UNCHANGED cache
    BY <1>2 DEF fail_outbox
  <2> QED
    BY <2>1, StoreIdle
<1>3. CASE Settles(o, fence)
  <2>1. /\ ob[o].st \in {"claimed", "unknown"} /\ rec[k].st \in Dirty
        /\ target \in {"conflict", "blocked", "unknown"}
        /\ (target = "conflict" <=> code = "revision_conflict")
    BY <1>1, <1>3 DEF Settles, InFlight, Open, BlockCodes
  <2>2. /\ rec' = IF target = "unknown" THEN rec ELSE [rec EXCEPT ![k] = Restated(rec[k], target)]
        /\ ob' = [ob EXCEPT ![o] = n]
        /\ conf' = IF target # "conflict" THEN conf
                   ELSE [conf EXCEPT ![o] = [st |-> "open", ev |-> ev, fresh |-> FALSE]]
        /\ cpt' \in {cpt, [cpt EXCEPT !.status = "paused_auth"]}
        /\ deferred' = deferred
    BY <1>3, Zenon DEF fail_outbox, Restated
  <2>3. chg' = chg /\ srcOps' = srcOps /\ srcRec' = srcRec
    BY DEF source
  <2>4. n \in OutboxRows /\ SameRequest(ob[o], n) /\ n.st = target
    <3>1. ob[o] \in OutboxRows /\ target \in Open
      BY <1>1, <2>1 DEF Open
    <3> HIDE DEF target
    <3>2. n \in OutboxRows
      BY <3>1, OutboxRowType, Zenon
    <3> QED
      BY <3>1, <3>2 DEF OutboxRows, SameRequest
  <2> HIDE DEF target, n
  <2>5. target # "unknown" =>
          /\ Restated(rec[k], target) \in Rows /\ Restated(rec[k], target).st \in Dirty
          /\ Restated(rec[k], target).val = rec[k].val /\ Restated(rec[k], target).del = rec[k].del
          /\ Restated(rec[k], target).srev = rec[k].srev
          /\ Restated(rec[k], target).sctr = rec[k].sctr
    <3>1. target # "unknown" => target \in Dirty
      BY <2>1 DEF Dirty
    <3> QED
      BY <1>1, <3>1, RowRestated
  <2>6. \A p \in LocalOps : ob'[p] = IF p = o THEN n ELSE ob[p]
    BY <1>1, <2>2 DEF CacheTypeOK
  <2>7. OnlySettles
    <3>1. ASSUME NEW p \in LocalOps
          PROVE  SameRequest(ob[p], ob'[p]) /\ (ob'[p].st = "none" <=> ob[p].st = "none")
                 /\ (ob'[p].st \in Open <=> ob[p].st \in Open)
      BY <2>1, <2>4, <2>6 DEF SameRequest, Open
    <3> QED
      BY <3>1 DEF OnlySettles, SameRequest, Request
  <2>8. SameOwners
    <3>1. \A p \in LocalOps : ob[p].st \in Open <=> ob'[p].st \in Open
      BY <2>1, <2>4, <2>6, SMTT(30) DEF Open
    <3>2. ASSUME NEW j \in Keys
          PROVE  /\ rec'[j].val = rec[j].val /\ rec'[j].del = rec[j].del
                 /\ rec'[j].srev = rec[j].srev /\ rec'[j].sctr = rec[j].sctr
                 /\ rec'[j].st = rec[j].st \/ (rec'[j].st \in Dirty /\ rec[j].st \in Dirty)
      <4>1. CASE rec'[j] = rec[j]
        BY <4>1, SMTT(30)
      <4>2. CASE rec'[j] # rec[j]
        <5>1. j = k /\ rec'[k] = Restated(rec[k], target) /\ target # "unknown"
          BY <1>1, <2>2, <4>2 DEF CacheTypeOK
        <5> QED
          BY <2>1, <2>5, <5>1
      <4> QED
        BY <4>1, <4>2
    <3> QED
      BY <3>1, <3>2 DEF SameOwners
  <2>9. CacheTypeOK'
    <3>1. rec' \in [Keys -> Rows] /\ ob' \in [LocalOps -> OutboxRows]
      BY <1>1, <2>2, <2>4, <2>5 DEF CacheTypeOK
    <3>2. conf' \in [LocalOps -> [st : {"none", "open", "resolved"}, ev : 0 .. Len(chg),
                                  fresh : BOOLEAN]]
      <4>1. target = "conflict" => ev \in 0 .. Len(chg)
        BY <1>1, <2>1
      <4> QED
        BY <1>1, <2>2, <4>1 DEF CacheTypeOK
    <3>3. cpt' \in [seen : BOOLEAN, last : 0 .. Len(chg),
                    status : {"new", "ready", "paused_auth"}]
      BY <1>1, <2>2, Zenon DEF CacheTypeOK
    <3> QED
      BY <1>1, <2>2, <2>3, <3>1, <3>2, <3>3, SMTT(30) DEF CacheTypeOK
  <2>10. RowInv' /\ OpenOwns' /\ DirtyOwned' /\ OpsKept /\ OpInv' /\ OwnerUnique'
    BY <2>7, <2>8, OwnersFrame, SettlingFrame, SMTT(30)
  <2>11. VerdictInv'
    <3> SUFFICES ASSUME NEW p \in LocalOps
                 PROVE  /\ ob'[p].st = "acknowledged" => srcOps[p].ctr # 0
                        /\ ob'[p].st \in {"conflict", "resolved"} => Doomed(p)'
                        /\ conf'[p].st = "open" =>
                             ob'[p].st = "conflict" /\ conf'[p].ev <= srcRec[ob'[p].key]
      BY <2>3 DEF VerdictInv
    <3>1. Doomed(p) => Doomed(p)'
      BY <2>7, SettlingFrame
    <3>2. /\ ob[p].st = "acknowledged" => srcOps[p].ctr # 0
          /\ ob[p].st \in {"conflict", "resolved"} => Doomed(p)
          /\ conf[p].st = "open" => ob[p].st = "conflict" /\ conf[p].ev <= srcRec[ob[p].key]
      BY <1>1 DEF CacheInv, VerdictInv
    <3>3. conf' = conf \/ (target = "conflict" /\ conf' = [conf EXCEPT ![o] = [st |-> "open", ev |-> ev, fresh |-> FALSE]])
      BY <2>2
    <3>4. CASE p # o
      BY <1>1, <2>6, <3>1, <3>2, <3>3, <3>4, SMTT(30) DEF CacheTypeOK
    <3>5. CASE p = o
      <4>1. conf[o].st # "open"
        BY <2>1, <3>2, <3>5
      <4>2. conf'[o].st = "open" => target = "conflict" /\ conf'[o].ev = ev
        BY <1>1, <3>3, <4>1 DEF CacheTypeOK
      <4> QED
        BY <2>1, <2>4, <2>6, <3>1, <3>5, <4>2, SMTT(30) DEF SameRequest
    <3> QED
      BY <3>4, <3>5
  <2> QED
    BY <2>9, <2>10, <2>11 DEF CacheInv
<1> QED
  BY <1>2, <1>3

-----------------------------------------------------------------------------
(* Transactions that settle rows.                                            *)

\* A settled version of k's row: its revision was issued for k.
Settled(r, k) == r \in Rows /\ r.st \in Editable /\ r.srev # 0 /\ r.srev <= srcRec[k]

\* Events of k keep a settled row settled and settle any other row they are new to.
LEMMA EventsSettle ==
  ASSUME SourceInv, NEW k \in Keys, NEW r \in Rows, NEW C \in SUBSET (1 .. Len(chg)),
         \A c \in C : chg[c].key = k
  PROVE  ApplyEvents(r, C) = r \/ Settled(ApplyEvents(r, C), k)
<1>1. /\ SourceTypeOK /\ Len(chg) \in Nat
      /\ \A c \in 1 .. Len(chg) : c <= srcRec[chg[c].key]
  BY DEF SourceInv, SourceTypeOK, TablesAgree
<1>2. CASE ApplyEvents(r, C) # r
  <2>1. PICK m \in C : /\ m > r.sctr /\ ApplyEvents(r, C).srev = m
                       /\ ApplyEvents(r, C).st \in Editable
    BY <1>1, <1>2, ApplyEventsRow
  <2>2. ApplyEvents(r, C) \in Rows
    BY <1>1, ApplyEventsRow
  <2>3. m \in 1 .. Len(chg) /\ m <= srcRec[k] /\ m # 0
    BY <1>1
  <2> QED
    BY <2>1, <2>2, <2>3 DEF Settled
<1> QED
  BY <1>2

\* The outcome an operation has at the source is an event of its own row.
LEMMA OutcomeOfRow ==
  ASSUME SyncInv, NEW o \in LocalOps, srcOps[o].ctr # 0
  PROVE  /\ srcOps[o].ctr \in 1 .. Len(chg)
         /\ chg[srcOps[o].ctr].key = ob[o].key /\ chg[srcOps[o].ctr].op = o
         /\ chg[srcOps[o].ctr] \in Events /\ ob[o].key \in Keys
         /\ srcOps[o].ctr <= srcRec[ob[o].key]
<1> DEFINE c == srcOps[o].ctr
<1>1. o \in Ops /\ SourceTypeOK /\ TablesAgree /\ CasChain /\ OpInv
  BY LocalOpsAssumption DEF SyncInv, SourceInv, CacheInv
<1>2. c \in 1 .. Len(chg) /\ chg[c] \in Events /\ chg[c].op = o
  BY <1>1 DEF SourceTypeOK, TablesAgree
<1>3. srcOps[o].hash = Request(o)
  BY <1>1, SMTT(30) DEF OpInv
<1>4. srcOps[o].hash.key = chg[c].key
  BY <1>1, <1>2, SMTT(30) DEF CasChain
<1>5. chg[c].key = ob[o].key
  BY <1>3, <1>4 DEF Request
<1>6. c <= srcRec[chg[c].key] /\ chg[c].key \in Keys
  BY <1>1, <1>2 DEF TablesAgree, Events
<1> QED
  BY <1>2, <1>5, <1>6

\* A transaction that leaves each row alone or settles it with its operations.
LEMMA SettlingRows ==
  ASSUME SyncInv, UNCHANGED source, OnlySettles,
         \A k \in Keys :
           \/ /\ rec'[k] = rec[k]
              /\ \A o \in LocalOps : ob[o].key = k => (ob'[o].st \in Open <=> ob[o].st \in Open)
           \/ /\ Settled(rec'[k], k)
              /\ \A o \in LocalOps : ob[o].key = k => ob'[o].st \notin Open
  PROVE  RowInv' /\ OpenOwns' /\ DirtyOwned'
<1>1. srcRec' = srcRec
  BY DEF source
<1>2. RowInv /\ OpenOwns /\ DirtyOwned
  BY DEF SyncInv, CacheInv
<1>3. RowInv'
  <2> SUFFICES ASSUME NEW k \in Keys
               PROVE  /\ rec'[k].st = "absent" => rec'[k].srev = 0 /\ rec'[k].sctr = 0
                      /\ rec'[k].st \in Editable \/ rec'[k].sctr # 0 => rec'[k].srev # 0
                      /\ rec'[k].srev <= srcRec[k]
                      /\ rec'[k].st \in Dirty /\ ~rec'[k].del => rec'[k].val # None
    BY <1>1 DEF RowInv
  <2>1. CASE rec'[k] = rec[k]
    BY <1>2, <2>1 DEF RowInv
  <2>2. CASE Settled(rec'[k], k)
    BY <2>2 DEF Settled, Editable, Dirty
  <2> QED
    BY <2>1, <2>2
<1>4. \A o \in LocalOps : /\ ob'[o].key = ob[o].key /\ ob'[o].kind = ob[o].kind
                          /\ ob'[o].val = ob[o].val
  BY Zenon DEF OnlySettles, Request
<1>5. OpenOwns'
  <2> SUFFICES ASSUME NEW o \in LocalOps, ob'[o].st \in Open
               PROVE  /\ rec'[ob'[o].key].st \in Dirty
                      /\ rec'[ob'[o].key].val = ob'[o].val
                      /\ rec'[ob'[o].key].del = (ob'[o].kind = "delete")
    BY DEF OpenOwns
  <2>1. ob[o].st \in Open /\ ob[o].st # "none"
    BY DEF OnlySettles, Open
  <2>2. ob[o].key \in Keys
    BY <2>1, Parts, SMTT(30)
  <2>3. rec'[ob[o].key] = rec[ob[o].key]
    BY <2>2
  <2> QED
    BY <1>2, <1>4, <2>1, <2>3 DEF OpenOwns
<1>6. DirtyOwned'
  <2> SUFFICES ASSUME NEW k \in Keys, rec'[k].st \in Dirty
               PROVE  \E o \in LocalOps : ob'[o].st \in Open /\ ob'[o].key = k
    BY DEF DirtyOwned
  <2>1. ~Settled(rec'[k], k)
    BY DEF Settled, Editable, Dirty
  <2>2. rec'[k] = rec[k]
    BY <2>1
  <2>3. PICK o \in LocalOps : ob[o].st \in Open /\ ob[o].key = k
    BY <1>2, <2>2 DEF DirtyOwned
  <2>4. ob'[o].st \in Open
    BY <2>1, <2>3
  <2> QED
    BY <1>4, <2>3, <2>4
<1> QED
  BY <1>3, <1>5, <1>6

\* ack_outbox settles the row with the outcome of the operation that owns it.
LEMMA AckCache ==
  ASSUME SyncInv, UNCHANGED source, NEW o \in LocalOps, NEW fence, NEW c \in Nat, c # 0,
         srcOps[o].ctr = c, ack_outbox(o, fence, c)
  PROVE  CacheTypeOK' /\ CacheInv' /\ OpsKept
<1> DEFINE k == ob[o].key
           D == EventsOf(deferred, k)
           a == AckedRow(k, c)
           r == ApplyEvents(a, D)
           n == [ob[o] EXCEPT !.st = "acknowledged", !.lease = "none"]
<1>1. CASE ~Settles(o, fence)
  BY <1>1, StoreIdle DEF ack_outbox
<1>2. CASE Settles(o, fence)
  <2>1. /\ CacheTypeOK /\ CacheInv /\ SourceInv
        /\ \A j \in Keys : rec[j] \in Rows
        /\ \A p \in LocalOps : ob[p] \in OutboxRows
    BY Parts DEF SyncInv
  <2>2. /\ c \in 1 .. Len(chg) /\ chg[c].key = k /\ chg[c] \in Events /\ k \in Keys
        /\ c <= srcRec[k]
    BY OutcomeOfRow
  <2>3. rec' = [rec EXCEPT ![k] = r] /\ ob' = [ob EXCEPT ![o] = n] /\ deferred' = deferred \ D
        /\ cpt' = cpt /\ conf' = conf
    BY <1>2, Zenon DEF ack_outbox
  <2>4. Settled(a, k)
    <3>1. rec[k].lrev + 1 \in Nat
      BY <2>1, <2>2 DEF Rows
    <3> QED
      BY <2>2, <3>1 DEF AckedRow, Settled, Rows, Events, CleanState, Editable
  <2>5. Settled(r, k)
    <3>1. D \in SUBSET (1 .. Len(chg)) /\ \A d \in D : chg[d].key = k
      BY <2>1, Zenon DEF EventsOf, CacheTypeOK
    <3>2. a \in Rows
      BY <2>4 DEF Settled
    <3> HIDE DEF k, D, a
    <3> QED
      BY <2>1, <2>2, <2>4, <3>1, <3>2, EventsSettle
  <2>6. n \in OutboxRows /\ SameRequest(ob[o], n) /\ n.st = "acknowledged"
    <3>1. ob[o] \in OutboxRows
      BY <2>1
    <3>2. n \in OutboxRows
      BY <3>1, OutboxRowType, Zenon
    <3> QED
      BY <3>1, <3>2 DEF OutboxRows, SameRequest
  <2> HIDE DEF r, n, D
  <2>7. \A p \in LocalOps : ob'[p] = IF p = o THEN n ELSE ob[p]
    BY <2>1, <2>3 DEF CacheTypeOK
  <2>8. \A j \in Keys : rec'[j] = IF j = k THEN r ELSE rec[j]
    BY <2>1, <2>3 DEF CacheTypeOK
  <2>9. ob[o].st \in Open
    BY <1>2 DEF Settles, InFlight, Open
  <2>10. OnlySettles
    <3>1. ASSUME NEW p \in LocalOps
          PROVE  SameRequest(ob[p], ob'[p]) /\ (ob'[p].st = "none" <=> ob[p].st = "none")
                 /\ (ob'[p].st \in Open => ob[p].st \in Open)
      BY <2>6, <2>7, <2>9 DEF SameRequest, Open
    <3> QED
      BY <3>1 DEF OnlySettles, SameRequest, Request
  <2>11. RowInv' /\ OpenOwns' /\ DirtyOwned'
    <3>1. \A p \in LocalOps : ob[p].key = k => ob'[p].st \notin Open
      <4>1. \A p \in LocalOps : ob[p].key = k /\ ob[p].st \in Open => p = o
        BY <2>1, <2>9 DEF CacheInv, OwnerUnique
      <4>2. "acknowledged" \notin Open
        BY DEF Open
      <4> QED
        BY <2>6, <2>7, <4>1, <4>2, SMTT(30)
    <3>2. ASSUME NEW j \in Keys
          PROVE  \/ /\ rec'[j] = rec[j]
                    /\ \A p \in LocalOps :
                         ob[p].key = j => (ob'[p].st \in Open <=> ob[p].st \in Open)
                 \/ /\ Settled(rec'[j], j)
                    /\ \A p \in LocalOps : ob[p].key = j => ob'[p].st \notin Open
      <4>1. CASE j = k
        BY <2>5, <2>8, <3>1, <4>1
      <4>2. CASE j # k
        BY <2>7, <2>8, <4>2
      <4> QED
        BY <4>1, <4>2
    <3> QED
      BY <2>10, <3>2, SettlingRows
  <2>12. OpsKept /\ OpInv' /\ OwnerUnique' /\ \A p \in LocalOps : Doomed(p) => Doomed(p)'
    BY <2>10, SettlingFrame
  <2>13. CacheTypeOK'
    <3>1. r \in Rows /\ chg' = chg
      BY <2>5, SMTT(30) DEF Settled, source
    <3> QED
      BY <2>1, <2>3, <2>6, <3>1, Zenon DEF CacheTypeOK
  <2>14. VerdictInv'
    <3>1. conf[o].st # "open"
      BY <1>2, <2>1 DEF CacheInv, VerdictInv, Settles, InFlight
    <3>2. srcOps' = srcOps /\ srcRec' = srcRec /\ conf' = conf
      BY <2>3 DEF source
    <3>3. VerdictInv
      BY <2>1 DEF CacheInv
    <3> QED
      BY <2>6, <2>7, <2>12, <3>1, <3>2, <3>3, SMTT(30) DEF VerdictInv
  <2> QED
    BY <2>11, <2>12, <2>13, <2>14 DEF CacheInv
<1> QED
  BY <1>1, <1>2

-----------------------------------------------------------------------------
(* Transactions that queue an operation.                                     *)

\* The row k passes to the new operation o: no other operation of k is open any
\* more, o carries the row's content and a request for an issued revision, and
\* everything else stays as it is.
Passes(k, o) ==
  /\ ob[o].st = "none" /\ ob'[o].st = "pending" /\ ob'[o].key = k
  /\ rec'[k].st = "pending" /\ rec'[k].val = ob'[o].val
  /\ rec'[k].del = (ob'[o].kind = "delete")
  /\ Request(o)' \in Requests /\ ob'[o].pre <= srcRec[k] /\ ob'[o].pre = rec'[k].srev
  /\ rec'[k].sctr # 0 => rec'[k].srev # 0
  /\ \A j \in Keys : j # k => rec'[j] = rec[j]
  /\ \A p \in LocalOps : p # o =>
       /\ SameRequest(ob[p], ob'[p])
       /\ ob'[p].st = ob[p].st \/ (ob[p].st = "conflict" /\ ob'[p].st = "resolved")
       /\ ob[p].key = k => ob'[p].st \notin Open
       /\ ob[p].key # k => ob'[p].st = ob[p].st

\* Queueing a new operation for a row, as put, remove and retry_local do, keeps
\* the ownership of rows and the fate of rejected operations.
LEMMA PassingRows ==
  ASSUME SyncInv, UNCHANGED source, NEW k \in Keys, NEW o \in LocalOps, Passes(k, o)
  PROVE  /\ RowInv' /\ OpInv' /\ OpenOwns' /\ OwnerUnique' /\ DirtyOwned' /\ OpsKept
         /\ \A p \in LocalOps : ob[p].st # "none" /\ Doomed(p) => Doomed(p)'
<1>1. /\ RowInv /\ OpInv /\ OpenOwns /\ OwnerUnique /\ DirtyOwned
      /\ \A p \in LocalOps : ob[p].st # "none" => ob[p].key \in Keys
  BY Parts DEF CacheInv
<1>2. srcOps' = srcOps /\ srcRec' = srcRec
  BY DEF source
<1>3. ASSUME NEW p \in LocalOps, p # o
      PROVE  /\ ob'[p].key = ob[p].key /\ ob'[p].kind = ob[p].kind /\ ob'[p].pre = ob[p].pre
             /\ ob'[p].val = ob[p].val /\ Request(p)' = Request(p)
             /\ (ob'[p].st = "none" <=> ob[p].st = "none")
             /\ ob'[p].st \in Open => ob'[p].st = ob[p].st /\ ob[p].key # k
  BY <1>3 DEF Passes, SameRequest, Request, Open
<1>4. RowInv'
  <2> SUFFICES ASSUME NEW j \in Keys
               PROVE  /\ rec'[j].st = "absent" => rec'[j].srev = 0 /\ rec'[j].sctr = 0
                      /\ rec'[j].st \in Editable \/ rec'[j].sctr # 0 => rec'[j].srev # 0
                      /\ rec'[j].srev <= srcRec[j]
                      /\ rec'[j].st \in Dirty /\ ~rec'[j].del => rec'[j].val # None
    BY <1>2 DEF RowInv
  <2>1. CASE j # k
    BY <1>1, <2>1 DEF RowInv, Passes
  <2>2. CASE j = k
    <3>1. ob'[o].kind # "delete" => ob'[o].val # None
      BY Zenon DEF Passes, Request, Requests
    <3> QED
      BY <2>2, <3>1, Zenon DEF Passes, Editable, Dirty
  <2> QED
    BY <2>1, <2>2
<1>5. OpInv'
  <2> SUFFICES ASSUME NEW p \in LocalOps
               PROVE  /\ ob'[p].st = "none" => srcOps[p].ctr = 0
                      /\ ob'[p].st # "none" => /\ Request(p)' \in Requests
                                               /\ ob'[p].pre <= srcRec[ob'[p].key]
                      /\ srcOps[p].ctr # 0 => srcOps[p].hash = Request(p)'
    BY <1>2 DEF OpInv
  <2>1. CASE p = o
    <3>1. srcOps[o].ctr = 0
      BY <1>1 DEF OpInv, Passes
    <3> QED
      BY <2>1, <3>1 DEF Passes
  <2>2. CASE p # o
    <3>1. /\ ob[p].st = "none" => srcOps[p].ctr = 0
          /\ ob[p].st # "none" => Request(p) \in Requests /\ ob[p].pre <= srcRec[ob[p].key]
          /\ srcOps[p].ctr # 0 => srcOps[p].hash = Request(p)
      BY <1>1 DEF OpInv
    <3> QED
      BY <1>3, <2>2, <3>1
  <2> QED
    BY <2>1, <2>2, Zenon
<1>6. OpenOwns'
  <2> SUFFICES ASSUME NEW p \in LocalOps, ob'[p].st \in Open
               PROVE  /\ rec'[ob'[p].key].st \in Dirty
                      /\ rec'[ob'[p].key].val = ob'[p].val
                      /\ rec'[ob'[p].key].del = (ob'[p].kind = "delete")
    BY DEF OpenOwns
  <2>1. CASE p = o
    BY <2>1, SMTT(30) DEF Passes, Dirty
  <2>2. CASE p # o
    <3>1. ob[p].st \in Open /\ ob[p].key # k /\ ob[p].st # "none"
      BY <1>3, <2>2, SMTT(30) DEF Open
    <3>2. ob[p].key \in Keys /\ rec'[ob[p].key] = rec[ob[p].key]
      BY <1>1, <3>1, SMTT(30) DEF Passes
    <3>3. /\ rec[ob[p].key].st \in Dirty /\ rec[ob[p].key].val = ob[p].val
          /\ rec[ob[p].key].del = (ob[p].kind = "delete")
      BY <1>1, <3>1 DEF OpenOwns
    <3>4. ob'[p].key = ob[p].key /\ ob'[p].kind = ob[p].kind /\ ob'[p].val = ob[p].val
      BY <1>3, <2>2
    <3> QED
      BY <3>2, <3>3, <3>4
  <2> QED
    BY <2>1, <2>2
<1>7. OwnerUnique'
  <2> SUFFICES ASSUME NEW p \in LocalOps, NEW q \in LocalOps, ob'[p].st \in Open,
                      ob'[q].st \in Open, ob'[p].key = ob'[q].key, p # q
               PROVE  FALSE
    BY DEF OwnerUnique
  <2>0. ob'[o].key = k
    BY DEF Passes
  <2>1. CASE p = o
    <3>1. ob[q].key # k /\ ob'[q].key = ob[q].key
      BY <1>3, <2>1
    <3> QED
      BY <2>0, <2>1, <3>1
  <2>2. CASE q = o
    <3>1. ob[p].key # k /\ ob'[p].key = ob[p].key
      BY <1>3, <2>2
    <3> QED
      BY <2>0, <2>2, <3>1
  <2>3. CASE p # o /\ q # o
    BY <1>1, <1>3, <2>3 DEF OwnerUnique
  <2> QED
    BY <2>1, <2>2, <2>3
<1>8. DirtyOwned'
  <2> SUFFICES ASSUME NEW j \in Keys, rec'[j].st \in Dirty
               PROVE  \E p \in LocalOps : ob'[p].st \in Open /\ ob'[p].key = j
    BY DEF DirtyOwned
  <2>1. CASE j = k
    BY <2>1 DEF Passes, Open
  <2>2. CASE j # k
    <3>1. PICK p \in LocalOps : ob[p].st \in Open /\ ob[p].key = j
      BY <1>1, <2>2, SMTT(30) DEF Passes, DirtyOwned
    <3>2. p # o
      BY <3>1 DEF Passes, Open
    <3>3. ob'[p].st = ob[p].st
      BY <2>2, <3>1, <3>2, SMTT(30) DEF Passes
    <3> QED
      BY <1>3, <3>1, <3>2, <3>3, SMTT(30)
  <2> QED
    BY <2>1, <2>2
<1>9. OpsKept /\ \A p \in LocalOps : ob[p].st # "none" /\ Doomed(p) => Doomed(p)'
  <2>1. \A p \in LocalOps : ob[p].st # "none" => p # o
    BY DEF Passes
  <2> QED
    BY <1>2, <1>3, <2>1 DEF OpsKept, Doomed
<1> QED
  BY <1>4, <1>5, <1>6, <1>7, <1>8, <1>9, SMTT(30)

\* put and remove, through the guard and enqueue triggers.
LEMMA EditCache ==
  ASSUME SyncInv, UNCHANGED source, NEW k \in Keys, NEW o \in LocalOps,
         put_new(k, o) \/ put(k, o) \/ remove(k, o)
  PROVE  CacheTypeOK' /\ CacheInv' /\ OpsKept
<1>1. /\ CacheTypeOK /\ CacheInv /\ rec[k] \in Rows /\ rec[k].srev \in Nat /\ rec[k].lrev + 1 \in Nat
      /\ rec[k].val \in Ops \cup {None} /\ o \in Ops /\ o # None
      /\ \A p \in LocalOps : ob[p].st \in Open => rec[ob[p].key].st \in Dirty
  BY Parts, LocalOpsAssumption, NoneAssumption, SMTT(30) DEF Rows
<1>2. PICK kind \in Kinds, v \in Ops \cup {None} :
        /\ Enqueue(k, o, kind, v) /\ rec[k].st \notin Dirty
        /\ (kind = "create") <=> (rec[k].srev = 0)
        /\ kind # "delete" => v # None
  <2>1. CASE put_new(k, o)
    BY <1>1, <2>1, SMTT(30) DEF put_new, CacheInv, RowInv, Kinds, Dirty
  <2>2. CASE put(k, o)
    BY <1>1, <2>2, SMTT(30) DEF put, CacheInv, RowInv, Kinds, Dirty, Editable
  <2>3. CASE remove(k, o)
    BY <1>1, <2>3 DEF remove, CacheInv, RowInv, Kinds, Dirty, Editable
  <2> QED
    BY <2>1, <2>2, <2>3
<1> DEFINE r == [rec[k] EXCEPT !.st = "pending", !.val = v, !.del = kind = "delete",
                               !.lrev = rec[k].lrev + 1]
           n == [NoOutboxRow EXCEPT !.st = "pending", !.key = k, !.kind = kind,
                                    !.pre = rec[k].srev, !.val = v, !.qlrev = rec[k].lrev + 1]
<1>3. /\ ob[o].st = "none" /\ rec' = [rec EXCEPT ![k] = r] /\ ob' = [ob EXCEPT ![o] = n]
      /\ cpt' = cpt /\ deferred' = deferred /\ conf' = conf
  BY <1>2 DEF Enqueue
<1>4. /\ r \in Rows /\ r.st = "pending" /\ r.val = v /\ r.del = (kind = "delete")
      /\ r.srev = rec[k].srev /\ r.sctr = rec[k].sctr
  <2>1. "pending" \in Editable \cup Dirty \cup {"absent"}
    BY DEF Dirty
  <2> QED
    BY <1>1, <2>1, Zenon DEF Rows
<1>5. /\ n \in OutboxRows /\ n.st = "pending" /\ n.key = k /\ n.kind = kind
      /\ n.pre = rec[k].srev /\ n.val = v
  <2>1. "pending" \in Open \cup {"none", "acknowledged", "resolved"}
    BY DEF Open
  <2> QED
    BY <1>1, <2>1, Zenon DEF OutboxRows, NoOutboxRow
<1> HIDE DEF r, n
<1>6. /\ \A p \in LocalOps : ob'[p] = IF p = o THEN n ELSE ob[p]
      /\ \A j \in Keys : rec'[j] = IF j = k THEN r ELSE rec[j]
  BY <1>1, <1>3 DEF CacheTypeOK
<1>7. Passes(k, o)
  <2>1. Request(o)' \in Requests
    <3>1. Request(o)' = [op |-> o, key |-> k, kind |-> kind, pre |-> rec[k].srev, val |-> v]
      BY <1>5, <1>6 DEF Request
    <3> DEFINE q == [op |-> o, key |-> k, kind |-> kind, pre |-> rec[k].srev, val |-> v]
    <3>2. /\ q \in [op : Ops, key : Keys, kind : Kinds, pre : Nat, val : Ops \cup {None}]
          /\ q.kind = kind /\ q.pre = rec[k].srev /\ q.val = v
      BY <1>1
    <3> HIDE DEF q
    <3>3. q \in Requests
      BY <1>2, <3>2 DEF Requests
    <3> QED
      BY <3>1, <3>3 DEF q
  <2>2. rec[k].srev <= srcRec[k] /\ (rec[k].sctr # 0 => rec[k].srev # 0)
    BY <1>1 DEF CacheInv, RowInv
  <2>3. ASSUME NEW p \in LocalOps, p # o
        PROVE  /\ SameRequest(ob[p], ob'[p]) /\ ob'[p].st = ob[p].st
               /\ ob[p].key = k => ob'[p].st \notin Open
    BY <1>1, <1>2, <1>6, <2>3, Zenon DEF SameRequest
  <2>4. ob'[o] = n /\ rec'[k] = r /\ \A j \in Keys : j # k => rec'[j] = rec[j]
    BY <1>6, Zenon
  <2>5. /\ ob[o].st = "none" /\ ob'[o].st = "pending" /\ ob'[o].key = k
        /\ rec'[k].st = "pending" /\ rec'[k].val = ob'[o].val
        /\ rec'[k].del = (ob'[o].kind = "delete")
        /\ ob'[o].pre <= srcRec[k] /\ ob'[o].pre = rec'[k].srev
        /\ rec'[k].sctr # 0 => rec'[k].srev # 0
    BY <1>3, <1>4, <1>5, <2>2, <2>4, Zenon
  <2> QED
    BY <2>1, <2>3, <2>4, <2>5, Zenon DEF Passes
<1>8. /\ RowInv' /\ OpInv' /\ OpenOwns' /\ OwnerUnique' /\ DirtyOwned' /\ OpsKept
      /\ \A p \in LocalOps : ob[p].st # "none" /\ Doomed(p) => Doomed(p)'
  BY <1>7, PassingRows, Zenon
<1>9. CacheTypeOK'
  BY <1>1, <1>3, <1>4, <1>5, Zenon DEF CacheTypeOK, source
<1>10. VerdictInv'
  <2>1. VerdictInv
    BY <1>1, Zenon DEF CacheInv
  <2>2. srcOps' = srcOps /\ srcRec' = srcRec
    BY DEF source
  <2> SUFFICES ASSUME NEW p \in LocalOps
               PROVE  /\ ob'[p].st = "acknowledged" => srcOps[p].ctr # 0
                      /\ ob'[p].st \in {"conflict", "resolved"} => Doomed(p)'
                      /\ conf[p].st = "open" =>
                           ob'[p].st = "conflict" /\ conf[p].ev <= srcRec[ob'[p].key]
    BY <1>3, <2>2, Zenon DEF VerdictInv
  <2>3. CASE p = o
    <3>1. ob'[p] = n
      BY <1>6, <2>3, Zenon
    <3>2. ob'[p].st = "pending"
      BY <1>5, <3>1, Zenon
    <3>3. conf[p].st # "open"
      BY <1>3, <2>1, <2>3 DEF VerdictInv
    <3> QED
      BY <3>2, <3>3
  <2>4. CASE p # o
    <3>1. ob'[p] = ob[p]
      BY <1>6, <2>4
    <3>2. ob[p].st \in {"conflict", "resolved"} => Doomed(p)'
      BY <1>8, <2>1 DEF VerdictInv
    <3> QED
      BY <2>1, <3>1, <3>2 DEF VerdictInv
  <2> QED
    BY <2>3, <2>4
<1> QED
  BY <1>8, <1>9, <1>10 DEF CacheInv

\* A transaction that changes nothing.
LEMMA IdleFed ==
  ASSUME SyncInv, TablesFed, UNCHANGED source, UNCHANGED cache
  PROVE  TablesFed' /\ Revised /\ VerdictsKept
<1>1. chg' = chg /\ Len(chg) \in Nat
  BY FeedTypes DEF source
<1>2. ChgGrows /\ Len(chg') \in Nat
  BY <1>1 DEF ChgGrows
<1>3. TablesFed'
  BY <1>2, FeedExtends
<1> QED
  BY <1>3 DEF Revised, VerdictsKept, cache

\* claim_outbox takes nothing from the feed.
LEMMA ClaimFed ==
  ASSUME SyncInv, TablesFed, UNCHANGED source, NEW o \in LocalOps \cup {None},
         NEW B \in SUBSET LocalOps, claim_outbox(o, B)
  PROVE  TablesFed' /\ Revised /\ VerdictsKept
<1>1. CacheInv' /\ OpsKept
  BY ClaimCache
<1>2. /\ B \subseteq {p \in LocalOps : Exhausted(p)} /\ (o # None => Claimable(o))
      /\ rec' = [k \in Keys |-> IF \E p \in B : ob[p].key = k THEN Restated(rec[k], "blocked")
                                ELSE rec[k]]
      /\ ob' = [p \in LocalOps |->
                  IF p \in B THEN [ob[p] EXCEPT !.st = "blocked", !.lease = "none"]
                  ELSE IF p = o THEN [ob[p] EXCEPT !.st = "claimed", !.lease = "live",
                                                   !.fence = ob[p].fence + 1]
                  ELSE ob[p]]
      /\ cpt' = cpt /\ deferred' = deferred /\ conf' = conf
  BY Zenon DEF claim_outbox, Restated
<1>3. "blocked" \in Editable \cup Dirty /\ "blocked" \in Dirty
  BY DEF Dirty
<1>4. ASSUME NEW k \in Keys
      PROVE  /\ rec'[k].val = rec[k].val /\ rec'[k].del = rec[k].del
             /\ \/ rec'[k] = rec[k]
                \/ /\ rec'[k].sctr = rec[k].sctr /\ rec'[k].srev = rec[k].srev
                   /\ rec'[k].st \in Dirty
  <2>1. rec[k] \in Rows
    BY FeedTypes, SMTT(30)
  <2>2. rec'[k] = rec[k] \/ rec'[k] = Restated(rec[k], "blocked")
    BY <1>2, Zenon
  <2> QED
    BY <1>3, <2>1, <2>2, RowRestated
<1>5. ASSUME NEW p \in LocalOps
      PROVE  ob'[p] = ob[p] \/ (ob[p].st \in {"pending", "unknown", "claimed"})
  <2>1. p \in B => Claimable(p)
    BY <1>2, Zenon DEF Exhausted
  <2>2. p = o => Claimable(p)
    BY <1>2, NoneAssumption, LocalOpsAssumption, Zenon
  <2>3. CASE p \in B \/ p = o
    BY <2>1, <2>2, <2>3, SMTT(30) DEF Claimable
  <2>4. CASE ~(p \in B \/ p = o)
    BY <1>2, <2>4, Zenon
  <2> QED
    BY <2>3, <2>4, SMTT(30)
<1>6. Evidence'
  BY <1>1, <1>2, EvidenceKept, Zenon DEF Evidence
<1>7. TablesFed'
  <2>1. \A p \in LocalOps : ob'[p].st \in Open =>
          ob[p].st \in Open \/ ob'[p].pre = rec'[ob'[p].key].srev
    BY <1>5 DEF Open
  <2> QED
    BY <1>1, <1>2, <1>4, <1>6, <2>1, FeedIdle, Zenon
<1> QED
  BY <1>4, <1>5, <1>7 DEF Revised, VerdictsKept

\* Nor do the passing of time, pauses and resumptions.
LEMMA TimeFed ==
  ASSUME SyncInv, TablesFed, UNCHANGED source,
         \/ \E o \in LocalOps : LeaseExpires(o) \/ Ages(o)
         \/ pause_binding \/ resume_binding
  PROVE  TablesFed' /\ Revised /\ VerdictsKept
<1>1. CacheInv' /\ OpsKept
  BY TimeCache
<1>2. rec' = rec /\ deferred' = deferred /\ conf' = conf /\ cpt'.last = cpt.last
  <2>1. cpt \in [seen : BOOLEAN, last : 0 .. Len(chg), status : {"new", "ready", "paused_auth"}]
    BY DEF SyncInv, TypeOK
  <2> QED
    BY <2>1 DEF LeaseExpires, Ages, pause_binding, resume_binding
<1>3. ASSUME NEW p \in LocalOps
      PROVE  ob'[p].st = ob[p].st
  <2>1. ob \in [LocalOps -> OutboxRows] /\ ob[p] \in OutboxRows
    BY DEF SyncInv, TypeOK
  <2> QED
    BY <2>1 DEF LeaseExpires, Ages, pause_binding, resume_binding, OutboxRows
<1>4. Evidence'
  BY <1>1, <1>2, EvidenceKept DEF Evidence
<1>5. TablesFed'
  BY <1>1, <1>2, <1>3, <1>4, FeedIdle
<1> QED
  BY <1>2, <1>3, <1>5 DEF Revised, VerdictsKept

\* put and remove queue an operation against the revision the row has.
LEMMA EditFed ==
  ASSUME SyncInv, TablesFed, UNCHANGED source, NEW k \in Keys, NEW o \in LocalOps,
         put_new(k, o) \/ put(k, o) \/ remove(k, o)
  PROVE  TablesFed' /\ Revised /\ VerdictsKept
<1>1. CacheInv' /\ OpsKept
  BY EditCache
<1>2. PICK kind, v : Enqueue(k, o, kind, v)
  BY DEF put_new, put, remove
<1> DEFINE r == [rec[k] EXCEPT !.st = "pending", !.val = v, !.del = kind = "delete",
                               !.lrev = rec[k].lrev + 1]
           n == [NoOutboxRow EXCEPT !.st = "pending", !.key = k, !.kind = kind,
                                    !.pre = rec[k].srev, !.val = v, !.qlrev = rec[k].lrev + 1]
<1>3. /\ ob[o].st = "none" /\ rec' = [rec EXCEPT ![k] = r] /\ ob' = [ob EXCEPT ![o] = n]
      /\ cpt' = cpt /\ deferred' = deferred /\ conf' = conf
  BY <1>2 DEF Enqueue
<1>4. /\ rec \in [Keys -> Rows] /\ ob \in [LocalOps -> OutboxRows] /\ rec[k] \in Rows
      /\ rec[k].lrev \in Nat
  BY FeedTypes DEF SyncInv, TypeOK
<1>5. /\ r.sctr = rec[k].sctr /\ r.srev = rec[k].srev /\ r.st = "pending"
      /\ r.lrev = rec[k].lrev + 1
  BY <1>4 DEF Rows
<1>6. n.st = "pending" /\ n.key = k /\ n.pre = rec[k].srev
  BY DEF NoOutboxRow
<1> HIDE DEF r, n
<1>7. \A j \in Keys : rec'[j] = IF j = k THEN r ELSE rec[j]
  BY <1>3, <1>4
<1>8. \A p \in LocalOps : ob'[p] = IF p = o THEN n ELSE ob[p]
  BY <1>3, <1>4
<1>9. Evidence'
  BY <1>1, <1>3, EvidenceKept, SMTT(30) DEF Evidence
<1>10. TablesFed'
  <2>1. \A j \in Keys : \/ rec'[j] = rec[j]
                        \/ /\ rec'[j].sctr = rec[j].sctr /\ rec'[j].srev = rec[j].srev
                           /\ rec'[j].st \in Dirty
    BY <1>5, <1>7, SMTT(30) DEF Dirty
  <2>2. \A p \in LocalOps : ob'[p].st \in Open =>
          ob[p].st \in Open \/ ob'[p].pre = rec'[ob'[p].key].srev
    BY <1>5, <1>6, <1>7, <1>8
  <2> QED
    BY <1>1, <1>3, <1>9, <2>1, <2>2, FeedIdle
<1>11. Revised
  <2>1. r.lrev > rec[k].lrev
    BY <1>4, <1>5
  <2> QED
    BY <1>7, <2>1 DEF Revised
<1> QED
  BY <1>3, <1>8, <1>10, <1>11 DEF VerdictsKept

\* fail_outbox keeps the row's place in the feed; a conflict it opens comes with
\* the evidence the worker has carried.
LEMMA FailFed ==
  ASSUME SyncInv, TablesFed, UNCHANGED source, NEW o \in LocalOps, NEW fence, NEW code,
         NEW ev \in Nat, ob[o].st # "none", fail_outbox(o, fence, code, ev),
         code = "revision_conflict" =>
           /\ Doomed(o) /\ ev <= srcRec[ob[o].key]
           /\ ob[o].pre < ev /\ chg[ev].key = ob[o].key
  PROVE  TablesFed' /\ Revised /\ VerdictsKept
<1> DEFINE target == CASE code = "revision_conflict" -> "conflict"
                       [] code \in BlockCodes        -> "blocked"
                       [] OTHER                      -> "unknown"
           k == ob[o].key
<1>1. CacheInv' /\ OpsKept
  BY FailCache
<1>2. CASE ~Settles(o, fence)
  BY <1>2, IdleFed DEF fail_outbox
<1>3. CASE Settles(o, fence)
  <2>1. /\ rec' = IF target = "unknown" THEN rec
                  ELSE [rec EXCEPT ![k].st = target, ![k].lrev = rec[k].lrev + 1]
        /\ ob' = [ob EXCEPT ![o].st = target, ![o].lease = "none"]
        /\ conf' = IF target # "conflict" THEN conf
                   ELSE [conf EXCEPT ![o] = [st |-> "open", ev |-> ev, fresh |-> FALSE]]
        /\ cpt' = IF code \in AuthCodes THEN [cpt EXCEPT !.status = "paused_auth"] ELSE cpt
        /\ deferred' = deferred
    BY <1>3, Zenon DEF fail_outbox
  <2>2. /\ target \in {"conflict", "blocked", "unknown"}
        /\ target = "conflict" => code = "revision_conflict"
    BY DEF BlockCodes
  <2> HIDE DEF target
  <2>3. /\ rec \in [Keys -> Rows] /\ ob \in [LocalOps -> OutboxRows] /\ k \in Keys
        /\ rec[k] \in Rows /\ ob[o] \in OutboxRows
        /\ conf \in [LocalOps -> [st : {"none", "open", "resolved"}, ev : 0 .. Len(chg),
                                  fresh : BOOLEAN]]
        /\ cpt \in [seen : BOOLEAN, last : 0 .. Len(chg),
                    status : {"new", "ready", "paused_auth"}]
    BY Parts, SMTT(30) DEF SyncInv, TypeOK
  <2>4. ASSUME NEW j \in Keys
        PROVE  /\ rec'[j].val = rec[j].val /\ rec'[j].del = rec[j].del
               /\ \/ rec'[j] = rec[j]
                  \/ /\ rec'[j].sctr = rec[j].sctr /\ rec'[j].srev = rec[j].srev
                     /\ rec'[j].st \in Dirty
    <3>1. CASE target = "unknown" \/ j # k
      BY <2>1, <2>3, <3>1, SMTT(30)
    <3>2. CASE target # "unknown" /\ j = k
      <4>1. target \in Dirty
        BY <2>2, <3>2 DEF Dirty
      <4>2. rec'[k] = Restated(rec[k], target)
        BY <2>1, <2>3, <3>2, Zenon DEF Restated
      <4>3. target \in Editable \cup Dirty
        BY <4>1
      <4> QED
        BY <2>3, <3>2, <4>1, <4>2, <4>3, RowRestated
    <3> QED
      BY <3>1, <3>2
  <2>5. \A p \in LocalOps : p # o => ob'[p] = ob[p]
    BY <2>1, <2>3
  <2>6. ob[o].st \in InFlight
    BY <1>3 DEF Settles
  <2>7. Evidence'
    <3> SUFFICES ASSUME NEW p \in LocalOps, conf'[p].st = "open"
                 PROVE  ob'[p].pre < conf'[p].ev /\ chg'[conf'[p].ev].key = ob'[p].key
      BY DEF Evidence
    <3>1. CASE target = "conflict" /\ p = o
      <4>1. conf'[o].ev = ev
        BY <2>1, <2>3, <3>1
      <4>2. ob'[o].pre = ob[o].pre /\ ob'[o].key = ob[o].key
        BY <1>1, Zenon DEF OpsKept, Request
      <4>3. chg' = chg
        BY DEF source
      <4> QED
        BY <2>2, <3>1, <4>1, <4>2, <4>3
    <3>2. CASE ~(target = "conflict" /\ p = o)
      <4>1. conf'[p] = conf[p]
        BY <2>1, <2>3, <3>2, SMTT(30)
      <4> QED
        BY <1>1, <4>1, EvidenceKept
    <3> QED
      BY <3>1, <3>2
  <2>8. TablesFed'
    <3>1. cpt'.last = cpt.last
      BY <2>1, <2>3
    <3>2. \A p \in LocalOps : ob'[p].st \in Open =>
            ob[p].st \in Open \/ ob'[p].pre = rec'[ob'[p].key].srev
      BY <2>5, <2>6 DEF InFlight, Open
    <3> QED
      BY <1>1, <2>1, <2>4, <2>7, <3>1, <3>2, FeedIdle, Zenon
  <2> QED
    BY <2>4, <2>5, <2>6, <2>8 DEF Revised, VerdictsKept, InFlight
<1> QED
  BY <1>2, <1>3

\* The outcome of an operation is later than anything its row had seen when the
\* operation was queued.
LEMMA OutcomeIsNew ==
  ASSUME SyncInv, TablesFed, NEW o \in LocalOps, srcOps[o].ctr # 0, ob[o].st \in Open
  PROVE  rec[ob[o].key].sctr < srcOps[o].ctr
<1> DEFINE c == srcOps[o].ctr
           k == ob[o].key
<1>1. /\ c \in 1 .. Len(chg) /\ chg[c].op = o /\ k \in Keys
      /\ srcOps[o].hash = Request(o) /\ CasChain
  BY OutcomeOfRow, SMTT(30) DEF SyncInv, SourceInv, CacheInv, OpInv
<1>2. srcOps[o].hash.pre < c
  <2>1. srcOps[chg[c].op].hash.pre < c
    BY <1>1, Zenon DEF CasChain
  <2> QED
    BY <1>1, <2>1, Zenon
<1>3. ob[o].pre < c
  <2>1. Request(o).pre = ob[o].pre
    BY DEF Request
  <2> QED
    BY <1>1, <1>2, <2>1, Zenon
<1>4. ob[o].pre = rec[k].srev /\ rec[k].sctr <= rec[k].srev
  BY <1>1 DEF TablesFed, OpenBase, RowFed
<1>5. rec[k].srev \in Nat /\ rec[k].sctr \in Nat /\ Len(chg) \in Nat
  BY <1>1, FeedTypes, SMTT(30)
<1> HIDE DEF c, k
<1> QED
  BY <1>1, <1>3, <1>4, <1>5 DEF c, k

\* A transaction that settles rows, once each row it leaves is known to reflect
\* the feed up to the checkpoint.
LEMMA SettleFed ==
  ASSUME SyncInv, TablesFed, UNCHANGED source, CacheInv', OpsKept,
         \A k \in Keys : RowFed(k, rec'[k]),
         \A c \in 1 .. cpt'.last : c <= rec'[chg[c].key].sctr \/ c \in deferred',
         \A c \in deferred' : c <= cpt'.last /\ rec'[chg[c].key].st \in Dirty,
         \A k \in Keys : rec'[k].st \in Dirty => rec'[k].srev = rec[k].srev,
         \A o \in LocalOps : ob'[o].st \in Open => ob[o].st \in Open,
         \A o \in LocalOps : conf'[o].st = "open" => conf[o].st = "open" /\ conf'[o].ev = conf[o].ev
  PROVE  TablesFed'
<1>1. chg' = chg
  BY DEF source
<1>2. \A k \in Keys : RowFed(k, rec[k])'
  BY <1>1 DEF RowFed
<1>3. NoEventLost'
  BY <1>1 DEF NoEventLost
<1>4. OpenBase'
  <2> SUFFICES ASSUME NEW o \in LocalOps, ob'[o].st \in Open
               PROVE  ob'[o].pre = rec'[ob'[o].key].srev
    BY DEF OpenBase
  <2>1. ob[o].st \in Open /\ ob[o].st # "none" /\ ob[o].key \in Keys
    BY Parts DEF Open
  <2>2. ob'[o].key = ob[o].key /\ ob'[o].pre = ob[o].pre
    BY <2>1, Zenon DEF OpsKept, Request
  <2>3. rec'[ob[o].key].st \in Dirty
    BY <2>2 DEF CacheInv, OpenOwns
  <2> QED
    BY <2>1, <2>2, <2>3 DEF TablesFed, OpenBase
<1>5. Evidence'
  BY EvidenceKept DEF Evidence
<1> QED
  BY <1>2, <1>3, <1>4, <1>5 DEF TablesFed

\* ack_outbox: the outcome is newer than the row, and the deferred events that are
\* newer still are applied after it.
LEMMA AckFed ==
  ASSUME SyncInv, TablesFed, UNCHANGED source, NEW o \in LocalOps, NEW fence, NEW c \in Nat,
         c # 0, srcOps[o].ctr = c, ack_outbox(o, fence, c)
  PROVE  TablesFed' /\ Revised /\ VerdictsKept
<1> DEFINE k == ob[o].key
           D == EventsOf(deferred, k)
           a == AckedRow(k, c)
           r == ApplyEvents(a, D)
<1>1. CASE ~Settles(o, fence)
  BY <1>1, IdleFed DEF ack_outbox
<1>2. CASE Settles(o, fence)
  <2>1. CacheInv' /\ CacheTypeOK' /\ OpsKept
    BY AckCache
  <2>2. /\ rec' = [rec EXCEPT ![k] = r] /\ deferred' = deferred \ D /\ cpt' = cpt /\ conf' = conf
        /\ ob' = [ob EXCEPT ![o].st = "acknowledged", ![o].lease = "none"]
    BY <1>2, Zenon DEF ack_outbox
  <2>3. ob[o].st \in InFlight /\ ob[o].st \in Open
    BY <1>2 DEF Settles, InFlight, Open
  <2>4. c \in 1 .. Len(chg) /\ chg[c].key = k /\ chg[c] \in Events /\ k \in Keys
    BY OutcomeOfRow
  <2>5. rec[k].sctr < c
    BY <2>3, OutcomeIsNew, SMTT(30)
  <2>6. /\ rec \in [Keys -> Rows] /\ ob \in [LocalOps -> OutboxRows] /\ ob[o] \in OutboxRows
        /\ SourceTypeOK /\ rec[k] \in Rows /\ rec[k].lrev \in Nat /\ rec[k].sctr \in Nat
        /\ Len(chg) \in Nat /\ cpt.last \in 0 .. Len(chg) /\ deferred \subseteq 1 .. Len(chg)
        /\ \A d \in 1 .. Len(chg) : chg[d].key \in Keys
    BY <2>4, FeedTypes, SMTT(30) DEF SyncInv, TypeOK
  <2>7. a \in Rows /\ a.sctr = c /\ a.lrev = rec[k].lrev + 1 /\ RowFed(k, a)
    <3>1. /\ a.st = CleanState(chg[c].del) /\ a.val = chg[c].val /\ a.sctr = c /\ a.srev = c
          /\ a.lrev = rec[k].lrev + 1
      BY DEF AckedRow
    <3>2. a \in Rows
      BY <2>4, <2>6 DEF AckedRow, Rows, Events, CleanState, Editable
    <3> HIDE DEF a, k
    <3>3. RowFed(k, a)
      BY <2>4, <3>1 DEF CleanState, RowFed
    <3> QED
      BY <3>1, <3>2, <3>3
  <2>8. D \in SUBSET (1 .. Len(chg)) /\ \A d \in D : chg[d].key = k
    BY <2>6, Zenon DEF EventsOf
  <2> HIDE DEF a, D, k
  <2>9. /\ r.sctr \in Nat /\ r.sctr >= c /\ \A d \in D : d <= r.sctr
        /\ RowFed(k, r) /\ (r = a \/ r.lrev > a.lrev)
    <3>1. SourceTypeOK /\ k \in Keys /\ a \in Rows
      BY <2>4, <2>6, <2>7, Zenon
    <3>2. /\ r.sctr \in Nat /\ r.sctr >= a.sctr /\ \A d \in D : d <= r.sctr
          /\ \/ r = a
             \/ RowFed(k, r) /\ r.lrev > a.lrev
      BY <2>8, <3>1, EventsFeed, Zenon
    <3> HIDE DEF r
    <3> QED
      BY <2>7, <3>2, Zenon
  <2>10. r.st \notin Dirty
    <3>1. a.st \in Editable
      BY DEF a, AckedRow, CleanState, Editable
    <3> QED
      BY <2>6, <2>7, <2>8, <3>1, ApplyEventsRow DEF Editable, Dirty
  <2> HIDE DEF r
  <2>11. \A j \in Keys : rec'[j] = IF j = k THEN r ELSE rec[j]
    BY <2>2, <2>6
  <2>12. \A p \in LocalOps : p # o => ob'[p] = ob[p]
    BY <2>2, <2>6
  <2>13. ASSUME NEW d \in 1 .. cpt.last
         PROVE  d <= rec'[chg[d].key].sctr \/ d \in deferred'
    <3>1. d \in 1 .. Len(chg) /\ chg[d].key \in Keys /\ d \in Nat
      BY <2>6
    <3>2. d <= rec[chg[d].key].sctr \/ d \in deferred
      BY DEF TablesFed, NoEventLost
    <3>3. CASE chg[d].key = k
      <4>1. CASE d \in deferred
        <5>1. d \in D
          BY <3>3, <4>1 DEF D, EventsOf
        <5> QED
          BY <2>9, <2>11, <3>1, <3>3, <5>1
      <4>2. CASE d <= rec[k].sctr
        BY <2>4, <2>5, <2>6, <2>9, <2>11, <3>1, <3>3, <4>2
      <4> QED
        BY <3>2, <3>3, <4>1, <4>2
    <3>4. CASE chg[d].key # k
      <4>1. d \notin D
        BY <2>8, <3>4
      <4> QED
        BY <2>2, <2>11, <3>1, <3>2, <3>4, <4>1
    <3> QED
      BY <3>3, <3>4
  <2>14. ASSUME NEW d \in deferred'
         PROVE  d <= cpt'.last /\ rec'[chg[d].key].st \in Dirty
    <3>1. d \in deferred /\ d \notin D
      BY <2>2
    <3>2. chg[d].key # k /\ chg[d].key \in Keys
      BY <2>6, <3>1 DEF D, EventsOf
    <3> QED
      BY <2>2, <2>11, <3>1, <3>2 DEF TablesFed, NoEventLost
  <2>15. TablesFed'
    <3>1. \A j \in Keys : RowFed(j, rec'[j])
      BY <2>9, <2>11 DEF TablesFed
    <3>2. \A j \in Keys : rec'[j].st \in Dirty => rec'[j].srev = rec[j].srev
      BY <2>10, <2>11
    <3>3. \A p \in LocalOps : ob'[p].st \in Open => ob[p].st \in Open
      BY <2>3, <2>12
    <3> QED
      BY <2>1, <2>2, <2>13, <2>14, <3>1, <3>2, <3>3, SettleFed, Zenon
  <2>16. Revised
    <3>1. r.lrev > rec[k].lrev
      <4>1. r \in Rows
        BY <2>6, <2>7, <2>8, ApplyEventsRow DEF r
      <4>2. r.lrev \in Nat
        BY <4>1 DEF Rows
      <4> QED
        BY <2>6, <2>7, <2>9, <4>2
    <3> QED
      BY <2>11, <3>1 DEF Revised
  <2> QED
    BY <2>3, <2>12, <2>15, <2>16 DEF VerdictsKept, InFlight
<1> QED
  BY <1>1, <1>2

=============================================================================
