---------------------------- MODULE SyncStoreProofs ----------------------------
(***************************************************************************)
(* The remaining transactions of the store: pages of changes, snapshots    *)
(* and conflict resolution, for SyncInv and then for FeedInv.              *)
(***************************************************************************)
EXTENDS SyncCacheProofs

\* An event of a page that acknowledges an operation is that operation's outcome.
LEMMA OwnEventOutcome ==
  ASSUME SyncInv, NEW new \in SUBSET (1 .. Len(chg)), NEW c \in OwnEvents(new)
  PROVE  /\ c \in new /\ chg[c].op \in LocalOps /\ srcOps[chg[c].op].ctr = c /\ c # 0
         /\ ob[chg[c].op].key = chg[c].key /\ ob[chg[c].op].st \in InFlight
<1>1. c \in new /\ chg[c].op \in LocalOps /\ ob[chg[c].op].st \in InFlight
  BY DEF OwnEvents
<1>2. c \in 1 .. Len(chg) /\ Len(chg) \in Nat
  BY <1>1, Parts
<1>3. srcOps[chg[c].op].ctr = c /\ c # 0
  BY <1>2 DEF SyncInv, SourceInv, TablesAgree
<1> QED
  BY <1>1, <1>3, OutcomeOfRow

\* What apply_changes makes of one row.
LEMMA PageRowSettles ==
  ASSUME SyncInv, NEW k \in Keys, NEW new \in SUBSET (1 .. Len(chg))
  PROVE  \/ PageRow(k, new, OwnEvents(new)) = rec[k]
              /\ (rec[k].st \in Dirty => EventsOf(OwnEvents(new), k) = {})
         \/ Settled(PageRow(k, new, OwnEvents(new)), k)
              /\ (rec[k].st \in Dirty => EventsOf(OwnEvents(new), k) # {})
<1> DEFINE own == OwnEvents(new)
<1>1. /\ SourceInv /\ SourceTypeOK /\ rec[k] \in Rows /\ RowInv /\ Len(chg) \in Nat
      /\ deferred \subseteq 1 .. Len(chg)
  BY Parts DEF SyncInv, SourceInv, CacheInv, CacheTypeOK
<1>2. own \subseteq new
  BY DEF OwnEvents
<1> HIDE DEF own
<1>3. CASE rec[k].st \notin Dirty
  <2>1. PageRow(k, new, own) = ApplyEvents(rec[k], EventsOf(new, k))
    BY <1>3 DEF PageRow
  <2>2. EventsOf(new, k) \in SUBSET (1 .. Len(chg)) /\ \A c \in EventsOf(new, k) : chg[c].key = k
    BY Zenon DEF EventsOf
  <2> QED
    BY <1>1, <1>3, <2>1, <2>2, EventsSettle DEF own
<1>4. CASE rec[k].st \in Dirty /\ EventsOf(own, k) = {}
  BY <1>4 DEF PageRow, own
<1>5. CASE rec[k].st \in Dirty /\ EventsOf(own, k) # {}
  <2> DEFINE E == EventsOf(own, k)
             c == Latest(E)
             r == [rec[k] EXCEPT !.st = "clean"]
             C == {d \in EventsOf(deferred \cup new, k) : d >= c}
             n == ApplyEvents(r, C)
  <2>1. PageRow(k, new, own) = n
    BY <1>5 DEF PageRow
  <2>2. C \in SUBSET (1 .. Len(chg)) /\ \A d \in C : chg[d].key = k
    BY <1>1, Zenon DEF EventsOf
  <2>3. c \in E
    <3>1. E \in SUBSET (0 .. Len(chg))
      <4>1. 1 .. Len(chg) \subseteq 0 .. Len(chg)
        BY <1>1
      <4> QED
        BY <1>2, <4>1, Zenon DEF EventsOf
    <3> QED
      BY <1>1, <1>5, <3>1, LatestIsLatest, Zenon
  <2>4. c \in 1 .. Len(chg) /\ c \in C
    <3> HIDE DEF c
    <3>1. c \in new /\ chg[c].key = k
      BY <1>2, <2>3 DEF EventsOf
    <3>2. c \in 1 .. Len(chg) /\ c >= c
      BY <1>1, <3>1
    <3>3. c \in EventsOf(deferred \cup new, k)
      BY <3>1 DEF EventsOf
    <3> QED
      BY <3>2, <3>3
  <2>5. /\ r \in Rows /\ r.st \in Editable /\ r.srev = rec[k].srev /\ r.sctr = rec[k].sctr
        /\ r.sctr \in Nat
    BY <1>1 DEF Rows, Editable
  <2> HIDE DEF c, C, r
  <2>6. CASE n # r
    BY <1>1, <1>5, <2>1, <2>2, <2>5, <2>6, EventsSettle, SMTT(30) DEF own
  <2>7. CASE n = r
    <3>1. r.srev # 0
      <4>1. CASE c > r.sctr
        BY <1>1, <2>2, <2>4, <2>5, <2>7, <4>1, ApplyEventsRow, Zenon
      <4>2. CASE ~(c > r.sctr)
        <5>1. r.sctr # 0
          BY <2>4, <2>5, <4>2
        <5> QED
          BY <1>1, <2>5, <5>1 DEF RowInv
      <4> QED
        BY <4>1, <4>2
    <3>2. r.srev <= srcRec[k]
      BY <1>1, <2>5 DEF RowInv
    <3> QED
      BY <1>5, <2>1, <2>5, <2>7, <3>1, <3>2 DEF Settled, own
  <2> QED
    BY <2>6, <2>7
<1> QED
  BY <1>3, <1>4, <1>5

\* apply_changes: a page and its checkpoint.
LEMMA ApplyChangesCache ==
  ASSUME SyncInv, UNCHANGED source, NEW next \in Nat, next <= Len(chg), apply_changes(next)
  PROVE  CacheTypeOK' /\ CacheInv' /\ OpsKept
<1> DEFINE new == cpt.last + 1 .. next
           own == OwnEvents(new)
<1>1. CASE next < cpt.last
  BY <1>1, StoreIdle DEF apply_changes
<1>2. CASE ~(next < cpt.last)
  <2>1. /\ CacheTypeOK /\ CacheInv /\ SourceInv /\ Len(chg) \in Nat /\ cpt.last \in Nat
        /\ \A j \in Keys : rec[j] \in Rows
        /\ \A p \in LocalOps : ob[p] \in OutboxRows
        /\ \A p \in LocalOps : ob[p].st # "none" => ob[p].key \in Keys
        /\ \A p \in LocalOps : ob[p].st \in Open => rec[ob[p].key].st \in Dirty
    BY Parts DEF SyncInv, CacheTypeOK
  <2>2. new \in SUBSET (1 .. Len(chg))
    BY <2>1
  <2>3. /\ rec' = [k \in Keys |-> PageRow(k, new, own)]
        /\ ob' = [o \in LocalOps |->
                    IF \E c \in own : chg[c].op = o
                    THEN [ob[o] EXCEPT !.st = "acknowledged", !.lease = "none"] ELSE ob[o]]
        /\ deferred' = Deferred(new, own)
        /\ cpt' = [seen |-> TRUE, last |-> next, status |-> "ready"]
        /\ conf' = [o \in LocalOps |-> [conf[o] EXCEPT !.fresh = conf[o].st # "none"]]
    BY <1>2, Zenon DEF apply_changes
  <2>4. /\ own \subseteq new
        /\ \A c \in own : /\ chg[c].op \in LocalOps /\ srcOps[chg[c].op].ctr = c /\ c # 0
                          /\ ob[chg[c].op].key = chg[c].key /\ ob[chg[c].op].st \in InFlight
    <3> HIDE DEF new
    <3> QED
      BY <2>2, OwnEventOutcome DEF OwnEvents
  <2>5. chg' = chg /\ srcOps' = srcOps /\ srcRec' = srcRec
    BY DEF source
  <2>6. \A k \in Keys :
          \/ rec'[k] = rec[k] /\ (rec[k].st \in Dirty => EventsOf(own, k) = {})
          \/ Settled(rec'[k], k) /\ (rec[k].st \in Dirty => EventsOf(own, k) # {})
    <3> HIDE DEF new
    <3> QED
      BY <2>2, <2>3, PageRowSettles, Zenon
  <2> HIDE DEF new, own
  <2>7. ASSUME NEW p \in LocalOps
        PROVE  /\ ob'[p] \in OutboxRows /\ SameRequest(ob[p], ob'[p])
               /\ \/ ob'[p].st = ob[p].st /\ ~\E c \in own : chg[c].op = p
                  \/ /\ ob'[p].st = "acknowledged" /\ ob[p].st \in InFlight /\ srcOps[p].ctr # 0
                     /\ EventsOf(own, ob[p].key) # {}
    <3>1. CASE \E c \in own : chg[c].op = p
      <4> DEFINE n == [ob[p] EXCEPT !.st = "acknowledged", !.lease = "none"]
      <4>1. PICK c \in own : chg[c].op = p
        BY <3>1
      <4>2. ob'[p] = n /\ ob[p] \in OutboxRows
        BY <2>1, <2>3, <3>1, Zenon
      <4>3. n \in OutboxRows
        BY <4>2, OutboxRowType, Zenon
      <4>4. SameRequest(ob[p], n) /\ n.st = "acknowledged"
        BY <4>2 DEF OutboxRows, SameRequest
      <4>5. c \in EventsOf(own, ob[p].key)
        BY <2>4, <4>1 DEF EventsOf
      <4>6. ob[p].st \in InFlight /\ srcOps[p].ctr # 0
        BY <2>4, <4>1
      <4> HIDE DEF n
      <4> QED
        BY <4>2, <4>3, <4>4, <4>5, <4>6
    <3>2. CASE ~\E c \in own : chg[c].op = p
      <4>1. ob'[p] = ob[p]
        BY <2>3, <3>2, Zenon
      <4> QED
        BY <2>1, <3>2, <4>1 DEF SameRequest
    <3> QED
      BY <3>1, <3>2
  <2>8. OnlySettles
    <3>1. ASSUME NEW p \in LocalOps
          PROVE  (ob'[p].st = "none" <=> ob[p].st = "none")
                 /\ (ob'[p].st \in Open => ob[p].st \in Open)
      BY <2>7 DEF Open, InFlight
    <3> QED
      BY <2>7, <3>1 DEF OnlySettles, SameRequest, Request
  <2>9. RowInv' /\ OpenOwns' /\ DirtyOwned'
    <3>1. ASSUME NEW k \in Keys
          PROVE  \/ /\ rec'[k] = rec[k]
                    /\ \A p \in LocalOps :
                         ob[p].key = k => (ob'[p].st \in Open <=> ob[p].st \in Open)
                 \/ /\ Settled(rec'[k], k)
                    /\ \A p \in LocalOps : ob[p].key = k => ob'[p].st \notin Open
      <4>1. CASE rec[k].st \notin Dirty
        <5>1. \A p \in LocalOps : ob[p].key = k => ob[p].st \notin Open /\ ob'[p].st \notin Open
          BY <2>1, <2>8, <4>1 DEF OnlySettles
        <5> QED
          BY <2>6, <5>1
      <4>2. CASE rec'[k] = rec[k] /\ EventsOf(own, k) = {}
        BY <2>7, <4>2
      <4>3. CASE Settled(rec'[k], k) /\ EventsOf(own, k) # {}
        <5>1. PICK c \in own : chg[c].key = k
          BY <4>3 DEF EventsOf
        <5> DEFINE o == chg[c].op
        <5>2. o \in LocalOps /\ ob[o].key = k /\ ob[o].st \in Open
          BY <2>4, <5>1 DEF Open, InFlight
        <5>3. ob'[o].st = "acknowledged"
          BY <2>7, <5>2
        <5>4. ASSUME NEW p \in LocalOps, ob[p].key = k PROVE ob'[p].st \notin Open
          <6>1. CASE p = o
            BY <5>3, <6>1 DEF Open
          <6>2. CASE p # o
            <7>1. ob[p].st \notin Open
              BY <2>1, <5>2, <5>4, <6>2 DEF CacheInv, OwnerUnique
            <7> QED
              BY <2>8, <7>1 DEF OnlySettles
          <6> QED
            BY <6>1, <6>2
        <5> QED
          BY <4>3, <5>4
      <4> QED
        BY <2>6, <4>1, <4>2, <4>3
    <3> QED
      BY <2>8, <3>1, SettlingRows
  <2>10. OpsKept /\ OpInv' /\ OwnerUnique' /\ \A p \in LocalOps : Doomed(p) => Doomed(p)'
    BY <2>8, SettlingFrame
  <2>11. CacheTypeOK'
    <3>1. rec' \in [Keys -> Rows]
      BY <2>1, <2>3, <2>6, Zenon DEF Settled
    <3>2. ob' \in [LocalOps -> OutboxRows]
      BY <2>3, <2>7, Zenon
    <3>3. deferred' \subseteq 1 .. Len(chg)
      BY <2>1, <2>2, <2>3, Zenon DEF Deferred, CacheTypeOK
    <3>4. conf' \in [LocalOps -> [st : {"none", "open", "resolved"}, ev : 0 .. Len(chg),
                                  fresh : BOOLEAN]]
      BY <2>1, <2>3, Zenon DEF CacheTypeOK
    <3>5. cpt' \in [seen : BOOLEAN, last : 0 .. Len(chg),
                    status : {"new", "ready", "paused_auth"}]
      <4>1. next \in 0 .. Len(chg)
        BY <2>1
      <4> QED
        BY <2>3, <4>1, Zenon
    <3> QED
      BY <2>5, <3>1, <3>2, <3>3, <3>4, <3>5 DEF CacheTypeOK
  <2>12. VerdictInv'
    <3> SUFFICES ASSUME NEW p \in LocalOps
                 PROVE  /\ ob'[p].st = "acknowledged" => srcOps[p].ctr # 0
                        /\ ob'[p].st \in {"conflict", "resolved"} => Doomed(p)'
                        /\ conf'[p].st = "open" =>
                             ob'[p].st = "conflict" /\ conf'[p].ev <= srcRec[ob'[p].key]
      BY <2>5 DEF VerdictInv
    <3>1. /\ ob[p].st = "acknowledged" => srcOps[p].ctr # 0
          /\ ob[p].st \in {"conflict", "resolved"} => Doomed(p)
          /\ conf[p].st = "open" => ob[p].st = "conflict" /\ conf[p].ev <= srcRec[ob[p].key]
      BY <2>1 DEF CacheInv, VerdictInv
    <3>2. conf'[p].st = conf[p].st /\ conf'[p].ev = conf[p].ev
      BY <2>1, <2>3, Zenon DEF CacheTypeOK
    <3> QED
      BY <2>7, <2>10, <3>1, <3>2 DEF SameRequest, InFlight
  <2> QED
    BY <2>9, <2>10, <2>11, <2>12 DEF CacheInv
<1> QED
  BY <1>1, <1>2

\* publish_snapshot: every row is settled before and after.
LEMMA PublishCache ==
  ASSUME SyncInv, UNCHANGED source, NEW seq \in Nat, seq <= Len(chg), NEW rows \in [Keys -> Nat],
         \A k \in Keys : rows[k] <= srcRec[k], publish_snapshot(seq, rows)
  PROVE  CacheTypeOK' /\ CacheInv' /\ OpsKept
<1>1. CASE cpt.last > seq \/ \E k \in Keys : rec[k].st \in Dirty
  BY <1>1, StoreIdle, Zenon DEF publish_snapshot
<1>2. CASE ~(cpt.last > seq \/ \E k \in Keys : rec[k].st \in Dirty)
  <2>1. /\ CacheTypeOK /\ CacheInv /\ SourceInv /\ Len(chg) \in Nat
        /\ \A k \in Keys : rec[k] \in Rows /\ srcRec[k] \in 0 .. Len(chg)
        /\ \A p \in LocalOps : ob[p].st # "none" => ob[p].key \in Keys
        /\ \A p \in LocalOps : ob[p].st \in Open => rec[ob[p].key].st \in Dirty
    BY Parts DEF SyncInv, SourceInv, SourceTypeOK
  <2>2. /\ rec' = [k \in Keys |->
                     IF rows[k] # 0 THEN ApplyEvents(rec[k], {rows[k]})
                     ELSE IF rec[k].st = "absent" \/ rec[k].del THEN rec[k]
                     ELSE [rec[k] EXCEPT !.val = None, !.del = TRUE, !.st = "tombstone",
                                         !.sctr = seq, !.lrev = rec[k].lrev + 1]]
        /\ cpt' = [seen |-> TRUE, last |-> seq, status |-> "ready"]
        /\ conf' = [o \in LocalOps |-> [conf[o] EXCEPT !.fresh = conf[o].st # "none"]]
        /\ ob' = ob /\ deferred' = deferred
    BY <1>2, Zenon DEF publish_snapshot
  <2>3. chg' = chg /\ srcOps' = srcOps /\ srcRec' = srcRec
    BY DEF source
  <2>4. \A p \in LocalOps : ob[p].st \notin Open
    BY <1>2, <2>1 DEF Open
  <2>5. OnlySettles
    BY <2>2, Zenon DEF OnlySettles, Request
  <2>6. ASSUME NEW k \in Keys
        PROVE  rec'[k] = rec[k] \/ Settled(rec'[k], k)
    <3>1. rec[k] \in Rows /\ rec[k].st \notin Dirty /\ rec[k].lrev + 1 \in Nat
      BY <1>2, <2>1 DEF Rows
    <3>2. CASE rows[k] # 0
      <4>1. rec'[k] = ApplyEvents(rec[k], {rows[k]})
        BY <2>2, <3>2, Zenon
      <4>2. rows[k] \in 1 .. Len(chg) /\ rows[k] <= srcRec[k]
        BY <2>1, <3>2
      <4>3. /\ ApplyEvents(rec[k], {rows[k]}) \in Rows
            /\ \/ ApplyEvents(rec[k], {rows[k]}) = rec[k]
               \/ /\ ApplyEvents(rec[k], {rows[k]}).srev = rows[k]
                  /\ ApplyEvents(rec[k], {rows[k]}).st \in Editable
        <5>1. {rows[k]} \in SUBSET (1 .. Len(chg)) /\ SourceTypeOK
          BY <2>1, <4>2 DEF SourceInv
        <5> QED
          BY <3>1, <5>1, ApplyEventsRow
      <4> QED
        BY <3>2, <4>1, <4>2, <4>3 DEF Settled
    <3>3. CASE rows[k] = 0 /\ (rec[k].st = "absent" \/ rec[k].del)
      BY <2>2, <3>3, Zenon
    <3>4. CASE rows[k] = 0 /\ ~(rec[k].st = "absent" \/ rec[k].del)
      <4> DEFINE t == [rec[k] EXCEPT !.val = None, !.del = TRUE, !.st = "tombstone",
                                     !.sctr = seq, !.lrev = rec[k].lrev + 1]
      <4>1. rec'[k] = t
        BY <2>2, <3>4, Zenon
      <4>2. t \in Rows /\ t.st \in Editable /\ t.srev = rec[k].srev
        BY <3>1, Zenon DEF Rows, Editable
      <4>3. rec[k].st \in Editable
        BY <3>1, <3>4 DEF Rows
      <4>4. rec[k].srev # 0 /\ rec[k].srev <= srcRec[k]
        BY <2>1, <4>3 DEF CacheInv, RowInv
      <4> HIDE DEF t
      <4> QED
        BY <4>1, <4>2, <4>4 DEF Settled
    <3> QED
      BY <3>2, <3>3, <3>4
  <2>7. RowInv' /\ OpenOwns' /\ DirtyOwned'
    BY <2>2, <2>4, <2>5, <2>6, SettlingRows, Zenon
  <2>8. OpsKept /\ OpInv' /\ OwnerUnique' /\ \A p \in LocalOps : Doomed(p) => Doomed(p)'
    BY <2>5, SettlingFrame
  <2>9. CacheTypeOK'
    <3>1. rec' \in [Keys -> Rows]
      BY <2>1, <2>2, <2>6, Zenon DEF Settled
    <3>2. conf' \in [LocalOps -> [st : {"none", "open", "resolved"}, ev : 0 .. Len(chg),
                                  fresh : BOOLEAN]]
      BY <2>1, <2>2, Zenon DEF CacheTypeOK
    <3>3. cpt' \in [seen : BOOLEAN, last : 0 .. Len(chg),
                    status : {"new", "ready", "paused_auth"}]
      <4>1. seq \in 0 .. Len(chg)
        BY <2>1
      <4> QED
        BY <2>2, <4>1, Zenon
    <3> QED
      BY <2>1, <2>2, <2>3, <3>1, <3>2, <3>3, Zenon DEF CacheTypeOK
  <2>10. VerdictInv'
    <3> SUFFICES ASSUME NEW p \in LocalOps
                 PROVE  /\ ob[p].st = "acknowledged" => srcOps[p].ctr # 0
                        /\ ob[p].st \in {"conflict", "resolved"} => Doomed(p)'
                        /\ conf'[p].st = "open" =>
                             ob[p].st = "conflict" /\ conf'[p].ev <= srcRec[ob[p].key]
      BY <2>2, <2>3, Zenon DEF VerdictInv
    <3>1. /\ ob[p].st = "acknowledged" => srcOps[p].ctr # 0
          /\ ob[p].st \in {"conflict", "resolved"} => Doomed(p)
          /\ conf[p].st = "open" => ob[p].st = "conflict" /\ conf[p].ev <= srcRec[ob[p].key]
      BY <2>1 DEF CacheInv, VerdictInv
    <3>2. conf'[p].st = conf[p].st /\ conf'[p].ev = conf[p].ev
      BY <2>1, <2>2, Zenon DEF CacheTypeOK
    <3> QED
      BY <2>8, <3>1, <3>2
  <2> QED
    BY <2>7, <2>8, <2>9, <2>10 DEF CacheInv
<1> QED
  BY <1>1, <1>2

\* resolve: the row takes the newest version the source has shown, or passes to
\* a new operation based on it.
LEMMA ResolveCache ==
  ASSUME SyncInv, UNCHANGED source, NEW o \in LocalOps, NEW p \in LocalOps \cup {None},
         resolve(o, p)
  PROVE  CacheTypeOK' /\ CacheInv' /\ OpsKept
<1> DEFINE k == ob[o].key
           D == EventsOf(deferred, k)
           L == Latest({conf[o].ev} \cup D)
           remote == [st |-> CleanState(chg[L].del), val |-> chg[L].val, del |-> chg[L].del,
                      srev |-> L, sctr |-> L, lrev |-> rec[k].lrev + 1]
           retried == [remote EXCEPT !.st = "pending", !.val = rec[k].val, !.del = rec[k].del,
                                     !.lrev = rec[k].lrev + 2]
           gone == [ob[o] EXCEPT !.st = "resolved"]
           n == [NoOutboxRow EXCEPT
                   !.st = "pending", !.key = k, !.kind = IF rec[k].del THEN "delete" ELSE "update",
                   !.pre = L, !.val = rec[k].val, !.qlrev = rec[k].lrev + 2]
<1>1. /\ CacheTypeOK /\ CacheInv /\ SourceInv /\ Len(chg) \in Nat /\ chg \in Seq(Events)
      /\ \A q \in LocalOps : ob[q] \in OutboxRows
      /\ \A j \in Keys : srcRec[j] \in Nat
  BY Parts, SMTT(30) DEF SyncInv
<1>2. /\ conf[o].st = "open" /\ L # 0 /\ (p # None => ob[p].st = "none")
      /\ deferred' = deferred \ D /\ conf' = [conf EXCEPT ![o].st = "resolved"] /\ cpt' = cpt
      /\ rec' = [rec EXCEPT ![k] = IF p = None THEN remote ELSE retried]
      /\ ob' = [q \in LocalOps |-> IF q = o THEN gone ELSE IF q = p THEN n ELSE ob[q]]
  BY DEF resolve
<1>3. ob[o].st = "conflict" /\ Doomed(o) /\ conf[o].ev <= srcRec[k] /\ conf[o].ev \in 0 .. Len(chg)
  BY <1>1, <1>2 DEF CacheInv, VerdictInv, CacheTypeOK
<1>4. k \in Keys /\ rec[k].st \in Dirty /\ rec[k] \in Rows
  BY <1>3, Parts DEF Open
<1>5. L \in 1 .. Len(chg) /\ L <= srcRec[k]
  <2>1. {conf[o].ev} \cup D \in SUBSET (0 .. Len(chg)) /\ D \subseteq 1 .. Len(chg)
    <3>1. deferred \subseteq 1 .. Len(chg) /\ 1 .. Len(chg) \subseteq 0 .. Len(chg)
      BY <1>1 DEF CacheTypeOK
    <3> QED
      BY <1>3, <3>1, Zenon DEF EventsOf
  <2>2. L \in {conf[o].ev} \cup D
    BY <1>1, <2>1, LatestIsLatest, Zenon
  <2>3. \A c \in D : c <= srcRec[k]
    BY <1>1, <2>1, SMTT(30) DEF EventsOf, SourceInv, TablesAgree
  <2> HIDE DEF L, D
  <2> QED
    BY <1>1, <1>2, <1>3, <2>1, <2>2, <2>3
<1> HIDE DEF L, D
<1>6. Settled(remote, k)
  <2>1. chg[L] \in Events /\ rec[k].lrev + 1 \in Nat
    BY <1>1, <1>4, <1>5, SMTT(30) DEF Rows
  <2> QED
    BY <1>5, <2>1, SMTT(30) DEF Settled, Rows, Events, CleanState, Editable
<1>7. /\ retried \in Rows /\ retried.st = "pending" /\ retried.val = rec[k].val
      /\ retried.del = rec[k].del /\ retried.srev = L
  <2>1. "pending" \in Editable \cup Dirty \cup {"absent"} /\ rec[k].lrev + 2 \in Nat
    BY <1>4, SMTT(30) DEF Dirty, Rows
  <2>2. remote \in Rows /\ remote.srev = L
    BY <1>6, SMTT(30) DEF Settled
  <2>3. rec[k].val \in Ops \cup {None} /\ rec[k].del \in BOOLEAN
    BY <1>4 DEF Rows
  <2> HIDE DEF remote
  <2> QED
    BY <2>1, <2>2, <2>3, Zenon DEF Rows
<1>8. gone \in OutboxRows /\ SameRequest(ob[o], gone) /\ gone.st = "resolved"
  <2>1. gone \in OutboxRows
    BY <1>1, OutboxRowType, Zenon
  <2>2. ob[o] \in OutboxRows
    BY <1>1
  <2> QED
    BY <2>1, <2>2 DEF OutboxRows, SameRequest
<1>9. /\ n \in OutboxRows /\ n.st = "pending" /\ n.key = k /\ n.pre = L /\ n.val = rec[k].val
      /\ n.kind = IF rec[k].del THEN "delete" ELSE "update"
  <2>1. /\ "pending" \in Open \cup {"none", "acknowledged", "resolved"}
        /\ rec[k].lrev + 2 \in Nat /\ rec[k].val \in Ops \cup {None} /\ L \in Nat
    BY <1>4, <1>5, SMTT(30) DEF Open, Rows
  <2> QED
    BY <1>4, <2>1, Zenon DEF OutboxRows, NoOutboxRow, Kinds
<1> HIDE DEF remote, retried, gone, n
<1>10. /\ \A q \in LocalOps : ob'[q] = IF q = o THEN gone ELSE IF q = p THEN n ELSE ob[q]
       /\ \A j \in Keys : rec'[j] = IF j = k THEN (IF p = None THEN remote ELSE retried)
                                             ELSE rec[j]
  BY <1>1, <1>2, SMTT(30) DEF CacheTypeOK
<1>11. \A q \in LocalOps : q # o /\ ob[q].key = k => ob[q].st \notin Open
  BY <1>1, <1>3 DEF CacheInv, OwnerUnique, Open
<1>12. CacheTypeOK'
  <2>1. rec' \in [Keys -> Rows]
    BY <1>1, <1>2, <1>6, <1>7, Zenon DEF CacheTypeOK, Settled
  <2>2. ob' \in [LocalOps -> OutboxRows]
    BY <1>1, <1>2, <1>8, <1>9
  <2>3. conf' \in [LocalOps -> [st : {"none", "open", "resolved"}, ev : 0 .. Len(chg),
                                fresh : BOOLEAN]]
    BY <1>1, <1>2, Zenon DEF CacheTypeOK
  <2>4. deferred' \subseteq 1 .. Len(chg) /\ chg' = chg
    BY <1>1, <1>2, SMTT(30) DEF CacheTypeOK, source
  <2> QED
    BY <1>1, <1>2, <2>1, <2>2, <2>3, <2>4, SMTT(30) DEF CacheTypeOK
<1>13. /\ RowInv' /\ OpInv' /\ OpenOwns' /\ OwnerUnique' /\ DirtyOwned' /\ OpsKept
       /\ \A q \in LocalOps : ob[q].st # "none" /\ Doomed(q) => Doomed(q)'
  <2>1. CASE p = None
    <3>1. \A q \in LocalOps : ob'[q] = IF q = o THEN gone ELSE ob[q]
      BY <1>10, <2>1, NoneAssumption, LocalOpsAssumption, SMTT(30)
    <3>2. OnlySettles
      <4>1. ASSUME NEW q \in LocalOps
            PROVE  SameRequest(ob[q], ob'[q]) /\ (ob'[q].st = "none" <=> ob[q].st = "none")
                   /\ (ob'[q].st \in Open => ob[q].st \in Open)
        BY <1>3, <1>8, <3>1, SMTT(30) DEF SameRequest, Open
      <4> QED
        BY <4>1, SMTT(30) DEF OnlySettles, SameRequest, Request
    <3>3. ASSUME NEW j \in Keys
          PROVE  \/ /\ rec'[j] = rec[j]
                    /\ \A q \in LocalOps :
                         ob[q].key = j => (ob'[q].st \in Open <=> ob[q].st \in Open)
                 \/ /\ Settled(rec'[j], j)
                    /\ \A q \in LocalOps : ob[q].key = j => ob'[q].st \notin Open
      <4>1. CASE j = k
        <5>1. gone.st \notin Open
          BY <1>8 DEF Open
        <5> QED
          BY <1>6, <1>10, <1>11, <2>1, <3>1, <4>1, <5>1, SMTT(30)
      <4>2. CASE j # k
        BY <1>10, <3>1, <4>2, SMTT(30)
      <4> QED
        BY <4>1, <4>2, SMTT(30)
    <3> QED
      BY <3>2, <3>3, SettlingRows, SettlingFrame, SMTT(30)
  <2>2. CASE p # None
    <3>1. p \in LocalOps /\ ob[p].st = "none" /\ p # o
      BY <1>2, <1>3, <2>2, SMTT(30)
    <3>2. Request(p)' \in Requests
      <4>1. Request(p)' = [op |-> p, key |-> k, kind |-> n.kind, pre |-> L, val |-> rec[k].val]
        BY <1>9, <1>10, <3>1, SMTT(30) DEF Request
      <4>2. ~rec[k].del => rec[k].val # None
        BY <1>1, <1>4, SMTT(30) DEF CacheInv, RowInv
      <4>3. p \in Ops /\ rec[k].val \in Ops \cup {None} /\ L \in Nat /\ n.kind \in Kinds
        BY <1>4, <1>5, <1>9, <3>1, LocalOpsAssumption, SMTT(30) DEF Rows, Kinds
      <4> QED
        BY <1>2, <1>4, <1>9, <4>1, <4>2, <4>3, SMTT(30) DEF Requests
    <3>3. rec[k].del = (n.kind = "delete")
      BY <1>4, <1>9, SMTT(30) DEF Rows
    <3>4. ASSUME NEW q \in LocalOps, q # p
          PROVE  /\ SameRequest(ob[q], ob'[q])
                 /\ ob'[q].st = ob[q].st \/ (ob[q].st = "conflict" /\ ob'[q].st = "resolved")
                 /\ ob[q].key = k => ob'[q].st \notin Open
                 /\ ob[q].key # k => ob'[q].st = ob[q].st
      <4>1. CASE q = o
        BY <1>3, <1>8, <1>10, <4>1, SMTT(30) DEF Open
      <4>2. CASE q # o
        BY <1>10, <1>11, <3>4, <4>2, SMTT(30) DEF SameRequest
      <4> QED
        BY <4>1, <4>2, SMTT(30)
    <3>5. Passes(k, p)
      BY <1>2, <1>4, <1>5, <1>7, <1>9, <1>10, <2>2, <3>1, <3>2, <3>3, <3>4, SMTT(30) DEF Passes
    <3> QED
      BY <1>4, <3>1, <3>5, PassingRows
  <2> QED
    BY <2>1, <2>2, SMTT(30)
<1>14. VerdictInv'
  <2> SUFFICES ASSUME NEW q \in LocalOps
               PROVE  /\ ob'[q].st = "acknowledged" => srcOps[q].ctr # 0
                      /\ ob'[q].st \in {"conflict", "resolved"} => Doomed(q)'
                      /\ conf'[q].st = "open" =>
                           ob'[q].st = "conflict" /\ conf'[q].ev <= srcRec[ob'[q].key]
    BY DEF VerdictInv, source
  <2>1. /\ ob[q].st = "acknowledged" => srcOps[q].ctr # 0
        /\ ob[q].st \in {"conflict", "resolved"} => Doomed(q)
        /\ conf[q].st = "open" => ob[q].st = "conflict" /\ conf[q].ev <= srcRec[ob[q].key]
    BY <1>1 DEF CacheInv, VerdictInv
  <2>2. q # o => conf'[q] = conf[q]
    BY <1>1, <1>2 DEF CacheTypeOK
  <2>3. conf'[o].st = "resolved"
    BY <1>1, <1>2 DEF CacheTypeOK
  <2>4. CASE q = o
    BY <1>3, <1>8, <1>10, <1>13, <2>3, <2>4, Zenon
  <2>5. CASE q # o /\ q = p
    BY <1>2, <1>9, <1>10, <2>1, <2>2, <2>5, NoneAssumption, LocalOpsAssumption, SMTT(30)
  <2>6. CASE q # o /\ q # p
    BY <1>10, <1>13, <2>1, <2>2, <2>6, SMTT(30)
  <2> QED
    BY <2>4, <2>5, <2>6, SMTT(30)
<1> QED
  BY <1>12, <1>13, <1>14, Zenon DEF CacheInv

\* What apply_changes makes of a row follows the feed to the end of the page,
\* unless the row stays dirty; then it stays as it is.
LEMMA PageRowFed ==
  ASSUME SyncInv, TablesFed, NEW k \in Keys, NEW next \in cpt.last .. Len(chg),
         NEW new, new = cpt.last + 1 .. next
  PROVE  LET n == PageRow(k, new, OwnEvents(new))
         IN  /\ RowFed(k, n) /\ n \in Rows
             /\ n = rec[k] \/ n.lrev > rec[k].lrev
                  \/ (n.val = rec[k].val /\ n.del = rec[k].del)
             /\ IF rec[k].st \in Dirty /\ EventsOf(OwnEvents(new), k) = {} THEN n = rec[k]
                ELSE n.st \notin Dirty
                     /\ \A c \in 1 .. next : chg[c].key = k => c <= n.sctr
<1> DEFINE own == OwnEvents(new)
           n == PageRow(k, new, own)
<1>1. /\ SourceTypeOK /\ rec[k] \in Rows /\ Len(chg) \in Nat /\ cpt.last \in 0 .. Len(chg)
      /\ rec[k].sctr \in Nat /\ rec[k].lrev \in Nat /\ deferred \subseteq 1 .. Len(chg)
      /\ RowFed(k, rec[k]) /\ next \in Nat /\ next <= Len(chg)
  BY FeedTypes DEF TablesFed
<1>2. new \in SUBSET (1 .. Len(chg)) /\ own \subseteq new
  BY <1>1 DEF OwnEvents
<1>3. \A c \in 1 .. next : c <= cpt.last \/ c \in new
  BY <1>1
<1>4. \A c \in 1 .. cpt.last : chg[c].key = k => c <= rec[k].sctr \/ c \in deferred
  BY SMTT(30) DEF TablesFed, NoEventLost
<1> HIDE DEF own
<1>5. CASE rec[k].st \notin Dirty
  <2> DEFINE C == EventsOf(new, k)
  <2>1. n = ApplyEvents(rec[k], C)
    BY <1>5 DEF PageRow
  <2>2. C \in SUBSET (1 .. Len(chg)) /\ \A c \in C : chg[c].key = k
    BY <1>2, Zenon DEF EventsOf
  <2>3. /\ n.sctr \in Nat /\ n.sctr >= rec[k].sctr /\ \A c \in C : c <= n.sctr
        /\ RowFed(k, n) /\ (n = rec[k] \/ n.lrev > rec[k].lrev)
    <3> HIDE DEF C, n
    <3> QED
      BY <1>1, <2>1, <2>2, EventsFeed, Zenon
  <2>4. n \in Rows /\ n.st \notin Dirty
    <3> HIDE DEF C, n
    <3> QED
      BY <1>1, <1>5, <2>1, <2>2, ApplyEventsRow DEF Editable, Dirty
  <2>5. ASSUME NEW c \in 1 .. next, chg[c].key = k
        PROVE  c <= n.sctr
    <3>1. CASE c \in new
      BY <2>3, <2>5, <3>1 DEF EventsOf
    <3>2. CASE c <= cpt.last
      <4>1. c \notin deferred
        BY <1>5, <2>5 DEF TablesFed, NoEventLost
      <4>2. c <= rec[k].sctr
        BY <1>1, <1>4, <2>5, <3>2, <4>1
      <4> HIDE DEF n
      <4> QED
        BY <1>1, <2>3, <4>2
    <3> QED
      BY <1>3, <3>1, <3>2
  <2> HIDE DEF n
  <2> QED
    BY <1>5, <2>3, <2>4, <2>5 DEF n, own
<1>6. CASE rec[k].st \in Dirty /\ EventsOf(own, k) = {}
  <2>1. n = rec[k]
    BY <1>6, SMTT(30) DEF PageRow
  <2> QED
    BY <1>1, <1>6, <2>1 DEF own
<1>7. CASE rec[k].st \in Dirty /\ EventsOf(own, k) # {}
  <2> DEFINE E == EventsOf(own, k)
             c == Latest(E)
             r == [rec[k] EXCEPT !.st = "clean"]
             C == {d \in EventsOf(deferred \cup new, k) : d >= c}
  <2>1. n = ApplyEvents(r, C)
    BY <1>7 DEF PageRow
  <2>2. C \in SUBSET (1 .. Len(chg)) /\ \A d \in C : chg[d].key = k
    BY <1>1, <1>2, Zenon DEF EventsOf
  <2>3. c \in E
    <3>1. E \in SUBSET (0 .. Len(chg))
      <4>1. 1 .. Len(chg) \subseteq 0 .. Len(chg)
        BY <1>1
      <4> QED
        BY <1>2, <4>1, Zenon DEF EventsOf
    <3> QED
      BY <1>1, <1>7, <3>1, LatestIsLatest, Zenon
  <2>4. /\ r \in Rows /\ r.sctr = rec[k].sctr /\ r.lrev = rec[k].lrev
        /\ r.val = rec[k].val /\ r.del = rec[k].del /\ r.st \in Editable
    BY <1>1, SMTT(30) DEF Rows, Editable
  <2> HIDE DEF c, r, n
  <2>5. /\ c \in own /\ c \in new /\ chg[c].key = k /\ c \in Nat
    BY <1>1, <1>2, <2>3 DEF EventsOf
  <2>6. rec[k].sctr < c
    <3> DEFINE o == chg[c].op
    <3>1. /\ o \in LocalOps /\ srcOps[o].ctr = c /\ c # 0 /\ ob[o].key = k
          /\ ob[o].st \in InFlight
      BY <1>2, <2>5, OwnEventOutcome, Zenon DEF own
    <3>2. ob[o].st \in Open
      BY <3>1 DEF InFlight, Open
    <3> QED
      BY <3>1, <3>2, OutcomeIsNew
  <2>7. c \in C
    BY <2>5 DEF EventsOf
  <2> HIDE DEF C
  <2>8. ~\A d \in C : ~(d > r.sctr)
    BY <1>1, <2>4, <2>5, <2>6, <2>7, SMTT(30)
  <2>9. /\ n.sctr \in Nat /\ n.sctr >= rec[k].sctr /\ \A d \in C : d <= n.sctr
        /\ RowFed(k, n) /\ n.lrev > rec[k].lrev
    BY <1>1, <2>1, <2>2, <2>4, <2>8, EventsFeed, SMTT(30)
  <2>10. n \in Rows /\ n.st \notin Dirty
    BY <1>1, <2>1, <2>2, <2>4, ApplyEventsRow, SMTT(30) DEF Editable, Dirty
  <2>11. ASSUME NEW d \in 1 .. next, chg[d].key = k
         PROVE  d <= n.sctr
    <3>1. c <= n.sctr
      BY <2>7, <2>9
    <3>2. CASE d \in new /\ d >= c
      <4>1. d \in C
        BY <2>11, <3>2 DEF C, EventsOf
      <4> QED
        BY <2>9, <4>1
    <3>3. CASE d <= cpt.last \/ ~(d >= c)
      <4>1. d <= c
        BY <1>1, <2>5, <3>3
      <4> QED
        BY <1>1, <2>5, <2>9, <3>1, <4>1
    <3> QED
      BY <1>3, <3>2, <3>3
  <2> QED
    BY <1>7, <2>9, <2>10, <2>11 DEF n, own
<1> QED
  BY <1>5, <1>6, <1>7

\* apply_changes: a page and its checkpoint.
LEMMA PageFed ==
  ASSUME SyncInv, TablesFed, UNCHANGED source, NEW next \in Nat, next <= Len(chg),
         apply_changes(next)
  PROVE  TablesFed' /\ Revised /\ VerdictsKept
<1> DEFINE new == cpt.last + 1 .. next
           own == OwnEvents(new)
<1>1. CASE next < cpt.last
  BY <1>1, IdleFed DEF apply_changes
<1>2. CASE ~(next < cpt.last)
  <2>1. CacheInv' /\ OpsKept
    BY ApplyChangesCache
  <2>2. /\ rec' = [k \in Keys |-> PageRow(k, new, own)]
        /\ ob' = [o \in LocalOps |->
                    IF \E c \in own : chg[c].op = o
                    THEN [ob[o] EXCEPT !.st = "acknowledged", !.lease = "none"] ELSE ob[o]]
        /\ deferred' = Deferred(new, own)
        /\ cpt' = [seen |-> TRUE, last |-> next, status |-> "ready"]
        /\ conf' = [o \in LocalOps |-> [conf[o] EXCEPT !.fresh = conf[o].st # "none"]]
    BY <1>2, Zenon DEF apply_changes
  <2>3. /\ Len(chg) \in Nat /\ cpt.last \in 0 .. Len(chg) /\ deferred \subseteq 1 .. Len(chg)
        /\ \A c \in 1 .. Len(chg) : chg[c].key \in Keys
        /\ \A k \in Keys : rec[k].lrev \in Nat
    BY FeedTypes
  <2>4. next \in cpt.last .. Len(chg) /\ new \in SUBSET (1 .. Len(chg))
    BY <1>2, <2>3
  <2>5. ASSUME NEW k \in Keys
        PROVE  /\ RowFed(k, rec'[k])
               /\ rec'[k] = rec[k] \/ rec'[k].lrev > rec[k].lrev
                    \/ (rec'[k].val = rec[k].val /\ rec'[k].del = rec[k].del)
               /\ IF rec[k].st \in Dirty /\ EventsOf(own, k) = {} THEN rec'[k] = rec[k]
                  ELSE rec'[k].st \notin Dirty
                       /\ \A c \in 1 .. next : chg[c].key = k => c <= rec'[k].sctr
    <3>1. rec'[k] = PageRow(k, new, OwnEvents(new))
      BY <2>2, Zenon
    <3> HIDE DEF new
    <3> QED
      BY <2>4, <3>1, PageRowFed DEF new
  <2> HIDE DEF own
  <2>6. ASSUME NEW p \in LocalOps
        PROVE  ob'[p] = ob[p] \/ ob[p].st \in InFlight
    <3>1. CASE \E c \in own : chg[c].op = p
      <4> HIDE DEF new
      <4> QED
        BY <2>4, <3>1, OwnEventOutcome DEF own
    <3>2. CASE ~\E c \in own : chg[c].op = p
      BY <2>2, <3>2, Zenon
    <3> QED
      BY <3>1, <3>2
  <2>7. cpt'.last = next
    BY <2>2, Zenon
  <2>8. ASSUME NEW c \in 1 .. next
        PROVE  c <= rec'[chg[c].key].sctr \/ c \in deferred'
    <3> DEFINE k == chg[c].key
    <3>1. k \in Keys /\ c \in 1 .. Len(chg)
      BY <2>3, <2>4
    <3>2. CASE rec[k].st \in Dirty /\ EventsOf(own, k) = {}
      <4>1. CASE c \in new
        BY <2>2, <3>2, <4>1, Zenon DEF Deferred
      <4>2. CASE c \in 1 .. cpt.last
        <5>1. c <= rec[k].sctr \/ c \in deferred
          BY <4>2 DEF TablesFed, NoEventLost
        <5>2. rec'[k] = rec[k]
          BY <2>5, <3>1, <3>2, SMTT(30)
        <5>3. c \in deferred => c \in deferred'
          BY <2>2, <3>2, Zenon DEF Deferred
        <5> QED
          BY <5>1, <5>2, <5>3
      <4> QED
        BY <2>3, <2>4, <4>1, <4>2, SMTT(30)
    <3>3. CASE ~(rec[k].st \in Dirty /\ EventsOf(own, k) = {})
      BY <2>5, <3>1, <3>3
    <3> QED
      BY <3>2, <3>3
  <2>9. ASSUME NEW c \in deferred'
        PROVE  c <= next /\ rec'[chg[c].key].st \in Dirty
    <3> DEFINE k == chg[c].key
    <3>1. \/ c \in deferred /\ EventsOf(own, k) = {}
          \/ c \in new /\ rec[k].st \in Dirty /\ EventsOf(own, k) = {}
      BY <2>2, Zenon DEF Deferred
    <3>2. c \in deferred => c <= cpt.last /\ rec[k].st \in Dirty
      BY DEF TablesFed, NoEventLost
    <3>3. c \in 1 .. Len(chg) /\ k \in Keys
      BY <2>3, <2>4, <3>1, Zenon
    <3>4. rec'[k] = rec[k] /\ rec[k].st \in Dirty
      BY <2>5, <3>1, <3>2, <3>3
    <3>5. c <= next
      <4>1. CASE c \in deferred
        BY <2>3, <2>4, <3>2, <3>3, <4>1
      <4>2. CASE c \in new
        BY <2>3, <2>4, <4>2, SMTT(30)
      <4> QED
        BY <3>1, <4>1, <4>2
    <3> QED
      BY <3>4, <3>5, SMTT(30)
  <2> HIDE DEF new
  <2>10. TablesFed'
    <3>1. \A k \in Keys : rec'[k].st \in Dirty => rec'[k].srev = rec[k].srev
      BY <2>5
    <3>2. \A p \in LocalOps : ob'[p].st \in Open => ob[p].st \in Open
      BY <2>6 DEF InFlight, Open
    <3>3. \A p \in LocalOps : conf'[p].st = conf[p].st /\ conf'[p].ev = conf[p].ev
      <4> SUFFICES ASSUME NEW p \in LocalOps
                   PROVE  conf'[p].st = conf[p].st /\ conf'[p].ev = conf[p].ev
        OBVIOUS
      <4>1. conf[p] \in [st : {"none", "open", "resolved"}, ev : 0 .. Len(chg), fresh : BOOLEAN]
        BY DEF SyncInv, TypeOK
      <4>2. conf'[p] = [conf[p] EXCEPT !.fresh = conf[p].st # "none"]
        BY <2>2, Zenon
      <4> QED
        BY <4>1, <4>2
    <3> QED
      BY <2>1, <2>5, <2>7, <2>8, <2>9, <3>1, <3>2, <3>3, SettleFed
  <2>11. Revised
    BY <2>5 DEF Revised
  <2> QED
    BY <2>6, <2>10, <2>11 DEF VerdictsKept, InFlight
<1> QED
  BY <1>1, <1>2

\* publish_snapshot: a row of the snapshot is its last event up to the boundary;
\* a row it does not list has had none, so the revision the row carries is newer.
LEMMA PublishFed ==
  ASSUME SyncInv, TablesFed, UNCHANGED source, NEW seq \in Nat, seq <= Len(chg),
         NEW rows \in [Keys -> Nat], \A k \in Keys : rows[k] <= srcRec[k],
         \A c \in 1 .. seq : c <= rows[chg[c].key],
         \A k \in Keys : rows[k] # 0 => chg[rows[k]].key = k, publish_snapshot(seq, rows)
  PROVE  TablesFed' /\ Revised /\ VerdictsKept
<1>1. CASE cpt.last > seq \/ \E k \in Keys : rec[k].st \in Dirty
  BY <1>1, IdleFed, Zenon DEF publish_snapshot
<1>2. CASE ~(cpt.last > seq \/ \E k \in Keys : rec[k].st \in Dirty)
  <2>1. CacheInv' /\ OpsKept
    BY PublishCache
  <2>2. /\ rec' = [k \in Keys |->
                     IF rows[k] # 0 THEN ApplyEvents(rec[k], {rows[k]})
                     ELSE IF rec[k].st = "absent" \/ rec[k].del THEN rec[k]
                     ELSE [rec[k] EXCEPT !.val = None, !.del = TRUE, !.st = "tombstone",
                                         !.sctr = seq, !.lrev = rec[k].lrev + 1]]
        /\ cpt' = [seen |-> TRUE, last |-> seq, status |-> "ready"]
        /\ conf' = [o \in LocalOps |-> [conf[o] EXCEPT !.fresh = conf[o].st # "none"]]
        /\ ob' = ob /\ deferred' = deferred
    BY <1>2, Zenon DEF publish_snapshot
  <2>3. /\ SourceTypeOK /\ Len(chg) \in Nat /\ deferred \subseteq 1 .. Len(chg)
        /\ \A c \in 1 .. Len(chg) : chg[c].key \in Keys
        /\ \A k \in Keys : /\ rec[k] \in Rows /\ rec[k].lrev \in Nat /\ rec[k].srev \in Nat
                           /\ srcRec[k] \in 0 .. Len(chg) /\ RowFed(k, rec[k])
                           /\ rec[k].srev <= srcRec[k]
    BY FeedTypes DEF TablesFed
  <2>4. deferred = {}
    <3>1. \A c \in deferred : chg[c].key \in Keys /\ rec[chg[c].key].st \in Dirty
      BY <2>3 DEF TablesFed, NoEventLost
    <3> QED
      BY <1>2, <3>1
  <2>5. ASSUME NEW k \in Keys
        PROVE  /\ RowFed(k, rec'[k]) /\ rec'[k].st \notin Dirty
               /\ rec'[k] = rec[k] \/ rec'[k].lrev > rec[k].lrev
               /\ rows[k] <= rec'[k].sctr \/ rows[k] = 0
    <3>1. rec[k] \in Rows /\ rec[k].st \notin Dirty /\ RowFed(k, rec[k])
      BY <1>2, <2>3
    <3>2. CASE rows[k] # 0
      <4> DEFINE n == ApplyEvents(rec[k], {rows[k]})
      <4>1. rec'[k] = n
        BY <2>2, <3>2, Zenon
      <4>2. {rows[k]} \in SUBSET (1 .. Len(chg)) /\ \A c \in {rows[k]} : chg[c].key = k
        <5>1. rows[k] \in Nat /\ rows[k] <= srcRec[k] /\ srcRec[k] \in 0 .. Len(chg)
          BY <2>3
        <5>2. rows[k] \in 1 .. Len(chg)
          BY <2>3, <3>2, <5>1, SMTT(30)
        <5> QED
          BY <3>2, <5>2
      <4>3. RowFed(k, n) /\ (n = rec[k] \/ n.lrev > rec[k].lrev) /\ rows[k] <= n.sctr
        <5> HIDE DEF n
        <5> QED
          BY <2>3, <3>1, <4>2, EventsFeed, SMTT(30) DEF n
      <4>4. n.st \notin Dirty
        BY <2>3, <3>1, <4>2, ApplyEventsRow, Zenon DEF Editable, Dirty
      <4> HIDE DEF n
      <4> QED
        BY <4>1, <4>3, <4>4
    <3>3. CASE rows[k] = 0 /\ (rec[k].st = "absent" \/ rec[k].del)
      <4>1. rec'[k] = rec[k]
        BY <2>2, <3>3, Zenon
      <4> QED
        BY <3>1, <3>3, <4>1
    <3>4. CASE rows[k] = 0 /\ ~(rec[k].st = "absent" \/ rec[k].del)
      <4> DEFINE t == [rec[k] EXCEPT !.val = None, !.del = TRUE, !.st = "tombstone",
                                     !.sctr = seq, !.lrev = rec[k].lrev + 1]
      <4>1. rec'[k] = t
        BY <2>2, <3>4, Zenon
      <4>2. /\ t.st = "tombstone" /\ t.srev = rec[k].srev /\ t.sctr = seq
            /\ t.lrev = rec[k].lrev + 1
        BY <3>1, Zenon DEF Rows
      <4>3. rec[k].st \in Editable
        BY <3>1, <3>4 DEF Rows
      <4>4. rec[k].srev # 0 /\ rec[k].srev \in 1 .. Len(chg) /\ chg[rec[k].srev].key = k
        <5>1. rec[k].srev # 0
          BY <4>3 DEF SyncInv, CacheInv, RowInv
        <5>2. rec[k].srev \in 1 .. Len(chg)
          BY <2>3, <5>1
        <5> QED
          BY <3>1, <5>1, <5>2 DEF RowFed
      <4>5. seq <= rec[k].srev
        BY <2>3, <3>4, <4>4
      <4> HIDE DEF t
      <4>6. RowFed(k, t)
        BY <4>2, <4>4, <4>5 DEF RowFed
      <4>7. t.lrev > rec[k].lrev /\ t.st \notin Dirty
        BY <2>3, <4>2, SMTT(30) DEF Dirty
      <4> QED
        BY <3>4, <4>1, <4>6, <4>7
    <3> QED
      BY <3>2, <3>3, <3>4
  <2>6. cpt'.last = seq
    BY <2>2, Zenon
  <2>7. ASSUME NEW c \in 1 .. seq
        PROVE  c <= rec'[chg[c].key].sctr
    <3> DEFINE k == chg[c].key
    <3>1. k \in Keys /\ c <= rows[k]
      BY <2>3
    <3>2. rows[k] <= rec'[k].sctr /\ rows[k] \in Nat /\ rows[k] # 0
      BY <2>5, <3>1
    <3>3. rec'[k].sctr \in Nat
      BY <3>1, PublishCache, SMTT(30) DEF CacheTypeOK, Rows
    <3> HIDE DEF k
    <3> QED
      BY <3>1, <3>2, <3>3 DEF k
  <2>8. TablesFed'
    <3>1. ASSUME NEW p \in LocalOps
          PROVE  conf'[p].st = conf[p].st /\ conf'[p].ev = conf[p].ev
      <4>1. conf[p] \in [st : {"none", "open", "resolved"}, ev : 0 .. Len(chg), fresh : BOOLEAN]
        BY DEF SyncInv, TypeOK
      <4>2. conf'[p] = [conf[p] EXCEPT !.fresh = conf[p].st # "none"]
        BY <2>2, Zenon
      <4> QED
        BY <4>1, <4>2
    <3> QED
      BY <2>1, <2>2, <2>4, <2>5, <2>6, <2>7, <3>1, SettleFed, Zenon
  <2>9. Revised
    BY <2>5 DEF Revised
  <2> QED
    BY <2>2, <2>8, <2>9, Zenon DEF VerdictsKept
<1> QED
  BY <1>1, <1>2

\* resolve: the newest of the evidence and the deferred events of the row is newer
\* than anything the row has seen.
LEMMA ResolveFed ==
  ASSUME SyncInv, TablesFed, UNCHANGED source, NEW o \in LocalOps,
         NEW p \in LocalOps \cup {None}, resolve(o, p)
  PROVE  TablesFed' /\ Revised /\ VerdictsKept
<1> DEFINE k == ob[o].key
           D == EventsOf(deferred, k)
           S == {conf[o].ev} \cup D
           L == Latest(S)
           remote == [st |-> CleanState(chg[L].del), val |-> chg[L].val, del |-> chg[L].del,
                      srev |-> L, sctr |-> L, lrev |-> rec[k].lrev + 1]
           retried == [remote EXCEPT !.st = "pending", !.val = rec[k].val, !.del = rec[k].del,
                                     !.lrev = rec[k].lrev + 2]
           r == IF p = None THEN remote ELSE retried
           n == [NoOutboxRow EXCEPT
                   !.st = "pending", !.key = k, !.kind = IF rec[k].del THEN "delete" ELSE "update",
                   !.pre = L, !.val = rec[k].val, !.qlrev = rec[k].lrev + 2]
<1>1. OpsKept
  BY ResolveCache
<1>2. /\ conf[o].st = "open" /\ (p # None => ob[p].st = "none")
      /\ deferred' = deferred \ D /\ conf' = [conf EXCEPT ![o].st = "resolved"] /\ cpt' = cpt
      /\ rec' = [rec EXCEPT ![k] = r]
      /\ ob' = [q \in LocalOps |-> IF q = o THEN [ob[q] EXCEPT !.st = "resolved"]
                                   ELSE IF q = p THEN n ELSE ob[q]]
  BY DEF resolve
<1>3. /\ rec \in [Keys -> Rows] /\ ob \in [LocalOps -> OutboxRows] /\ ob[o] \in OutboxRows
      /\ conf \in [LocalOps -> [st : {"none", "open", "resolved"}, ev : 0 .. Len(chg),
                                fresh : BOOLEAN]]
  BY SMTT(30) DEF SyncInv, TypeOK
<1>4. ob[o].st = "conflict" /\ ob[o].st \in Open /\ ob[o].st # "none" /\ k \in Keys
  BY <1>2, Parts DEF SyncInv, CacheInv, VerdictInv, Open
<1>5. ob[o].pre < conf[o].ev /\ chg[conf[o].ev].key = k
  BY <1>2 DEF TablesFed, Evidence
<1>6. /\ Len(chg) \in Nat /\ cpt.last \in 0 .. Len(chg) /\ deferred \subseteq 1 .. Len(chg)
      /\ conf[o].ev \in 0 .. Len(chg) /\ ob[o].pre \in Nat
      /\ \A c \in 1 .. Len(chg) : chg[c] \in Events /\ chg[c].key \in Keys
      /\ rec[k].lrev \in Nat /\ rec[k].sctr \in Nat /\ rec[k].srev \in Nat
  BY <1>4, FeedTypes
<1>7. S \in SUBSET (0 .. Len(chg)) /\ S # {} /\ \A c \in S : chg[c].key = k
  <2>1. D \subseteq 1 .. Len(chg) /\ 1 .. Len(chg) \subseteq 0 .. Len(chg)
    <3>1. D \subseteq deferred
      BY Zenon DEF EventsOf
    <3>2. deferred \subseteq 1 .. Len(chg) /\ Len(chg) \in Nat
      BY <1>6, Zenon
    <3>3. 1 .. Len(chg) \subseteq 0 .. Len(chg)
      BY <3>2
    <3> QED
      BY <3>1, <3>2, <3>3, Zenon
  <2>2. \A c \in D : chg[c].key = k
    BY DEF EventsOf
  <2> HIDE DEF D, k
  <2> QED
    BY <1>5, <1>6, <2>1, <2>2, Zenon
<1>8. L \in S /\ \A c \in S : c <= L
  <2> HIDE DEF S
  <2> QED
    BY <1>6, <1>7, LatestIsLatest, Zenon
<1>9. rec[k].sctr <= ob[o].pre
  BY <1>4 DEF TablesFed, OpenBase, RowFed
<1>10. L \in 1 .. Len(chg) /\ chg[L].key = k /\ rec[k].sctr <= L
  <2>1. conf[o].ev <= L /\ L \in 0 .. Len(chg) /\ chg[L].key = k
    BY <1>7, <1>8, Zenon
  <2> HIDE DEF L, k
  <2> QED
    BY <1>5, <1>6, <1>9, <2>1, SMTT(30)
<1> HIDE DEF L
<1>11. r.srev = L /\ r.sctr = L /\ RowFed(k, r) /\ r.lrev > rec[k].lrev
  <2>1. /\ remote.srev = L /\ remote.sctr = L /\ remote.lrev = rec[k].lrev + 1
        /\ remote.val = chg[L].val /\ remote.st = CleanState(chg[L].del)
    OBVIOUS
  <2>2. /\ retried.srev = L /\ retried.sctr = L /\ retried.st = "pending"
        /\ retried.lrev = rec[k].lrev + 2
    OBVIOUS
  <2> HIDE DEF remote, retried
  <2>3. L \in 1 .. Len(chg) /\ L \in Nat /\ L # 0 /\ chg[L].key = k /\ rec[k].lrev \in Nat
    BY <1>6, <1>10
  <2>4. RowFed(k, remote)
    BY <2>1, <2>3 DEF RowFed, CleanState
  <2>5. RowFed(k, retried)
    BY <2>2, <2>3 DEF RowFed
  <2>6. remote.lrev > rec[k].lrev /\ retried.lrev > rec[k].lrev
    BY <2>1, <2>2, <2>3
  <2> QED
    BY <2>1, <2>2, <2>4, <2>5, <2>6
<1>12. n.st = "pending" /\ n.key = k /\ n.pre = L
  BY DEF NoOutboxRow
<1> HIDE DEF r, n
<1>13. \A j \in Keys : rec'[j] = IF j = k THEN r ELSE rec[j]
  BY <1>2, <1>3
<1>14. ob'[o].st = "resolved" /\ p # o
  <2>1. ob'[o] = [ob[o] EXCEPT !.st = "resolved"]
    BY <1>2, Zenon
  <2>2. p # None => p # o
    BY <1>2, <1>4, Zenon
  <2>3. None # o
    BY NoneAssumption, LocalOpsAssumption
  <2> QED
    BY <1>3, <2>1, <2>2, <2>3 DEF OutboxRows
<1>15. \A q \in LocalOps : q # o => ob'[q] = IF q = p THEN n ELSE ob[q]
  BY <1>2
<1>16. chg' = chg
  BY DEF source
<1>17. NoEventLost'
  <2>1. ASSUME NEW c \in 1 .. cpt.last
        PROVE  c <= rec'[chg[c].key].sctr \/ c \in deferred'
    <3>1. c \in 1 .. Len(chg) /\ chg[c].key \in Keys
      BY <1>6
    <3>2. c <= rec[chg[c].key].sctr \/ c \in deferred
      BY DEF TablesFed, NoEventLost
    <3>3. CASE chg[c].key = k
      <4>1. CASE c \in deferred
        <5>1. c \in S
          BY <3>3, <4>1 DEF EventsOf
        <5> QED
          BY <1>8, <1>11, <1>13, <3>1, <3>3, <5>1
      <4>2. CASE c <= rec[k].sctr
        BY <1>6, <1>10, <1>11, <1>13, <3>1, <3>3, <4>2
      <4> QED
        BY <3>2, <3>3, <4>1, <4>2
    <3>4. CASE chg[c].key # k
      BY <1>2, <1>13, <3>1, <3>2, <3>4 DEF EventsOf
    <3> QED
      BY <3>3, <3>4
  <2>2. ASSUME NEW c \in deferred'
        PROVE  c <= cpt.last /\ rec'[chg[c].key].st \in Dirty
    <3>1. c \in deferred /\ chg[c].key # k /\ chg[c].key \in Keys
      BY <1>2, <1>6 DEF EventsOf
    <3> QED
      BY <1>13, <3>1 DEF TablesFed, NoEventLost
  <2> QED
    BY <1>2, <1>16, <2>1, <2>2 DEF NoEventLost
<1>18. OpenBase'
  <2> SUFFICES ASSUME NEW q \in LocalOps, ob'[q].st \in Open
               PROVE  ob'[q].pre = rec'[ob'[q].key].srev
    BY DEF OpenBase
  <2>1. q # o
    BY <1>14 DEF Open
  <2>2. CASE q = p
    BY <1>4, <1>11, <1>12, <1>13, <1>15, <2>1, <2>2
  <2>3. CASE q # p
    <3>1. ob'[q] = ob[q] /\ ob[q].st \in Open
      BY <1>15, <2>1, <2>3
    <3>2. ob[q].key # k /\ ob[q].key \in Keys
      BY <1>4, <2>1, <3>1, Parts DEF SyncInv, CacheInv, OwnerUnique, Open
    <3> QED
      BY <1>13, <3>1, <3>2 DEF TablesFed, OpenBase
  <2> QED
    BY <2>2, <2>3
<1>19. Evidence'
  <2>1. \A q \in LocalOps : conf'[q].st = "open" => conf[q].st = "open" /\ conf'[q].ev = conf[q].ev
    BY <1>2, <1>3
  <2> QED
    BY <1>1, <2>1, EvidenceKept DEF Evidence
<1>20. TablesFed'
  <2>1. \A j \in Keys : RowFed(j, rec[j])'
    BY <1>11, <1>13, <1>16 DEF TablesFed, RowFed
  <2> QED
    BY <1>17, <1>18, <1>19, <2>1 DEF TablesFed
<1>21. Revised
  BY <1>11, <1>13 DEF Revised
<1>22. VerdictsKept
  <2>1. \A q \in LocalOps : q = o \/ ob'[q] = ob[q] \/ ob[q].st = "none"
    BY <1>2, <1>15, NoneAssumption, LocalOpsAssumption
  <2> QED
    BY <1>4, <1>14, <2>1 DEF VerdictsKept
<1> QED
  BY <1>20, <1>21, <1>22

=============================================================================
