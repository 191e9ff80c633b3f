------------------------------- MODULE SyncProofs -------------------------------
(***************************************************************************)
(* Machine-checked proofs about Sync, for any number of workers, keys,     *)
(* operations and faults: an operation that the cache reports as           *)
(* acknowledged has had its effect, one that it reports as rejected never  *)
(* will, and an unsettled edit keeps its row.                              *)
(*                                                                         *)
(* None of the three is inductive alone.  A rejection is final because a   *)
(* revision never comes back: Doomed says that the source has moved past   *)
(* the revision a request was made for, so that no copy of the request,    *)
(* however late, can still pass the compare-and-set.  The invariant below  *)
(* carries that from the answer of the source through the worker's memory  *)
(* into the outbox.                                                        *)
(*                                                                         *)
(* FeedInv, at the end, adds what the tables know of the source's history: *)
(* which event each row reflects, and that the checkpoint passes none.     *)
(***************************************************************************)
EXTENDS Sync, FiniteSetTheorems, WellFoundedInduction, TLAPS

-----------------------------------------------------------------------------
(* The controlled source, for every set of keys and of operation ids.        *)
(* EffectOnce and CasChain are not inductive: that a committed operation is  *)
(* new, and that the row an update was compared with is the last event of    *)
(* its key, follow only from the agreement of the four tables.               *)

SourceInv == SourceTypeOK /\ TablesAgree /\ EffectOnce /\ CasChain

\* The empty tables of a new binding satisfy the invariant.
LEMMA SourceInitInv == SourceInit => SourceInv
BY DEF SourceInit, SourceInv, SourceTypeOK, TablesAgree, EffectOnce, CasChain, source

\* What the writes of a successful source_mutate leave behind.
LEMMA CommitFacts ==
  ASSUME SourceTypeOK, NEW q \in Requests, Commit(q)
  PROVE  /\ Len(chg') = Len(chg) + 1
         /\ Len(chg) \in Nat
         /\ \A c \in 1 .. Len(chg) : chg'[c] = chg[c]
         /\ chg'[Len(chg) + 1] = [key |-> q.key, del |-> q.kind = "delete", op |-> q.op,
                                  val |-> IF q.kind = "delete" THEN None ELSE q.val]
         /\ chg' \in Seq(Events)
<1> DEFINE e == [key |-> q.key, del |-> q.kind = "delete", op |-> q.op,
                 val |-> IF q.kind = "delete" THEN None ELSE q.val]
<1>1. e \in Events
  BY DEF Requests, Events
<1>2. chg \in Seq(Events) /\ chg' = Append(chg, e)
  BY DEF SourceTypeOK, Commit
<1> QED
  BY <1>1, <1>2

\* A successful source_mutate keeps every row counter within the log.
LEMMA CommitTypeOK ==
  ASSUME SourceTypeOK, NEW q \in Requests, Commit(q)
  PROVE  SourceTypeOK'
<1>1. /\ Len(chg') = Len(chg) + 1 /\ Len(chg) \in Nat /\ chg' \in Seq(Events)
  BY CommitFacts, Zenon
<1>2. srcRec' \in [Keys -> 0 .. Len(chg')]
  BY <1>1 DEF SourceTypeOK, Commit, Requests
<1>3. srcOps' \in [Ops -> [ctr : 0 .. Len(chg'), hash : Requests \cup {None}]]
  BY <1>1 DEF SourceTypeOK, Commit, Requests
<1>4. retained' \in 0 .. Len(chg')
  BY <1>1 DEF SourceTypeOK, Commit
<1> QED
  BY <1>1, <1>2, <1>3, <1>4 DEF SourceTypeOK

\* The tables still agree, each operation still has one event, and every event
\* is still chained to the version it replaced, after a successful source_mutate.
LEMMA CommitInv ==
  ASSUME SourceInv, NEW q \in Requests, srcOps[q.op].ctr = 0, CasHolds(q), Commit(q)
  PROVE  SourceInv'
<1> DEFINE n == Len(chg)
<1>0. SourceTypeOK /\ TablesAgree /\ EffectOnce /\ CasChain
  BY DEF SourceInv
<1>1. /\ Len(chg') = n + 1 /\ n \in Nat
      /\ \A c \in 1 .. n : chg'[c] = chg[c]
      /\ chg'[n + 1].key = q.key /\ chg'[n + 1].op = q.op
  <2>1. SourceTypeOK
    BY <1>0
  <2> HIDE DEF n
  <2>2. /\ Len(chg') = n + 1 /\ n \in Nat
        /\ \A c \in 1 .. n : chg'[c] = chg[c]
        /\ chg'[n + 1] = [key |-> q.key, del |-> q.kind = "delete", op |-> q.op,
                          val |-> IF q.kind = "delete" THEN None ELSE q.val]
    BY <2>1, CommitFacts, Zenon DEF n
  <2> QED
    BY <2>2
<1>2. /\ srcRec' = [srcRec EXCEPT ![q.key] = n + 1]
      /\ srcOps' = [srcOps EXCEPT ![q.op] = [ctr |-> n + 1, hash |-> q]]
  BY DEF Commit
<1>3. /\ q.key \in Keys /\ q.op \in Ops /\ q.pre \in Nat
      /\ q.kind = "create" <=> q.pre = 0
  BY DEF Requests
<1>4. /\ srcRec \in [Keys -> 0 .. n]
      /\ srcOps \in [Ops -> [ctr : 0 .. n, hash : Requests \cup {None}]]
      /\ \A c \in 1 .. n : chg[c].key \in Keys /\ chg[c].op \in Ops
  <2>1. chg \in Seq(Events) /\ \A e \in Events : e.key \in Keys /\ e.op \in Ops
    BY <1>0 DEF SourceTypeOK, Events
  <2>2. \A c \in 1 .. n : chg[c] \in Events
    BY <2>1
  <2> QED
    BY <1>0, <2>1, <2>2 DEF SourceTypeOK
<1>5. \A c \in 1 .. n : chg[c].op # q.op
  BY <1>0, <1>3, <1>4 DEF TablesAgree
<1>6. SourceTypeOK'
  BY <1>0, CommitTypeOK
<1>7. TablesAgree'
  <2> HIDE DEF n
  <2>1. /\ \A k \in Keys : srcRec'[k] = IF k = q.key THEN n + 1 ELSE srcRec[k]
        /\ \A o \in Ops : srcOps'[o].ctr = IF o = q.op THEN n + 1 ELSE srcOps[o].ctr
        /\ \A k \in Keys : srcRec[k] \in 0 .. n
        /\ \A o \in Ops : srcOps[o].ctr \in 0 .. n
    BY <1>2, <1>3, <1>4
  <2>2. \A o \in Ops : srcOps'[o].ctr # 0 => chg'[srcOps'[o].ctr].op = o
    BY <1>0, <1>1, <1>3, <2>1 DEF TablesAgree
  <2>3. \A c \in 1 .. Len(chg') : srcOps'[chg'[c].op].ctr = c
    BY <1>0, <1>1, <1>3, <1>4, <1>5, <2>1 DEF TablesAgree, n
  <2>4. \A k \in Keys : srcRec'[k] # 0 => chg'[srcRec'[k]].key = k
    BY <1>0, <1>1, <1>3, <2>1 DEF TablesAgree
  <2>5. \A c \in 1 .. Len(chg') : c <= srcRec'[chg'[c].key]
    BY <1>0, <1>1, <1>3, <1>4, <2>1, SMTT(30) DEF TablesAgree, n
  <2> QED
    BY <2>2, <2>3, <2>4, <2>5 DEF TablesAgree
<1>8. EffectOnce'
  BY <1>0, <1>1, <1>5 DEF EffectOnce
<1>9. CasChain'
  <2> SUFFICES ASSUME NEW c \in 1 .. Len(chg')
               PROVE  LET r == srcOps'[chg'[c].op].hash
                      IN  /\ r \in Requests /\ r.key = chg'[c].key /\ r.pre < c
                          /\ r.pre # 0 => chg'[r.pre].key = r.key
                          /\ \A d \in r.pre + 1 .. c - 1 : chg'[d].key # r.key
    BY DEF CasChain
  <2>1. CASE c \in 1 .. n
    <3> DEFINE r == srcOps[chg[c].op].hash
    <3>1. r \in Requests /\ r.pre \in Nat /\ r.pre < c
      BY <1>0, <2>1 DEF CasChain, Requests
    <3>2. srcOps'[chg'[c].op].hash = r
      BY <1>1, <1>2, <1>4, <1>5, <2>1, SMTT(30)
    <3>3. /\ r.key = chg[c].key
          /\ r.pre # 0 => chg[r.pre].key = r.key
          /\ \A d \in r.pre + 1 .. c - 1 : chg[d].key # r.key
      BY <1>0, <2>1 DEF CasChain
    <3> HIDE DEF r, n
    <3>4. \A d \in r.pre + 1 .. c - 1 : chg'[d] = chg[d]
      BY <1>1, <2>1, <3>1
    <3>5. r.pre # 0 => chg'[r.pre] = chg[r.pre]
      BY <1>1, <2>1, <3>1
    <3>6. chg'[c] = chg[c]
      BY <1>1, <2>1
    <3> QED
      BY <3>1, <3>2, <3>3, <3>4, <3>5, <3>6, SMTT(30)
  <2>2. CASE c = n + 1
    <3>1. srcOps'[chg'[c].op].hash = q
      BY <1>1, <1>2, <1>3, <1>4, <2>2
    <3>2. q.pre = srcRec[q.key]
      BY <1>3, <1>4 DEF CasHolds
    <3>3. \A d \in 1 .. n : chg[d].key = q.key => d <= q.pre
      BY <1>0, <3>2 DEF TablesAgree
    <3>4. q.pre # 0 => q.pre \in 1 .. n /\ chg[q.pre].key = q.key
      BY <1>0, <1>3, <1>4, <3>2 DEF TablesAgree
    <3> HIDE DEF n
    <3>5. q.key = chg'[c].key /\ q.pre \in 0 .. n /\ q.pre < c
      BY <1>1, <1>3, <2>2, <3>4
    <3>6. q.pre # 0 => chg'[q.pre].key = q.key
      BY <1>1, <3>4
    <3>7. \A d \in q.pre + 1 .. c - 1 : chg'[d].key # q.key
      BY <1>1, <1>3, <2>2, <3>3, <3>5
    <3> QED
      BY <3>1, <3>5, <3>6, <3>7
  <2>3. c \in 1 .. n \/ c = n + 1
    <3> HIDE DEF n
    <3> QED
      BY <1>1
  <2> QED
    BY <2>1, <2>2, <2>3, Zenon
<1> QED
  BY <1>6, <1>7, <1>8, <1>9 DEF SourceInv

\* Every step of the source preserves the invariant.
LEMMA SourceNextInv == SourceInv /\ [SourceNext]_source => SourceInv'
<1> SUFFICES ASSUME SourceInv, [SourceNext]_source
             PROVE  SourceInv'
  OBVIOUS
<1>1. ASSUME NEW o \in Ops, NEW k \in Keys, NEW kind \in Kinds, NEW pre \in 0 .. Len(chg),
             Mutate(o, k, kind, pre, o)
      PROVE  SourceInv'
  <2> DEFINE q == [op |-> o, key |-> k, kind |-> kind, pre |-> pre, val |-> o]
  <2>1. q \in Requests /\ source_mutate(q)
    BY <1>1 DEF Mutate
  <2>2. CASE srcOps[q.op].ctr = 0 /\ CasHolds(q)
    <3>1. Commit(q)
      BY <2>1, <2>2, SMTT(30) DEF source_mutate
    <3> HIDE DEF q
    <3> QED
      BY <2>1, <2>2, <3>1, CommitInv
  <2>3. CASE ~(srcOps[q.op].ctr = 0 /\ CasHolds(q))
    <3>1. UNCHANGED source
      BY <2>1, <2>3 DEF source_mutate
    <3> QED
      BY <3>1, Zenon DEF source, SourceInv, SourceTypeOK, TablesAgree, EffectOnce, CasChain
  <2> QED
    BY <2>2, <2>3
<1>2. ASSUME NEW r \in 1 .. Len(chg), Prune(r)
      PROVE  SourceInv'
  <2>1. chg' = chg /\ srcRec' = srcRec /\ srcOps' = srcOps /\ retained' = r
    BY <1>2, Zenon DEF Prune
  <2>2. Len(chg) \in Nat /\ r \in 0 .. Len(chg)
    BY DEF SourceInv, SourceTypeOK
  <2>3. SourceTypeOK'
    BY <2>1, <2>2, Zenon DEF SourceInv, SourceTypeOK
  <2>4. TablesAgree' /\ EffectOnce' /\ CasChain'
    BY <2>1, Zenon DEF SourceInv, TablesAgree, EffectOnce, CasChain
  <2> QED
    BY <2>3, <2>4, Zenon DEF SourceInv
<1>3. CASE UNCHANGED source
  BY <1>3 DEF source, SourceInv, SourceTypeOK, TablesAgree, EffectOnce, CasChain
<1> QED
  BY <1>1, <1>2, <1>3 DEF SourceNext

\* The source is type correct, a mutation has one effect however often it is
\* delivered, and no mutation overwrites a version its author had not named.
THEOREM SourceSafe == SourceSpec => [](SourceTypeOK /\ EffectOnce /\ CasChain)
<1>1. SourceInv => SourceTypeOK /\ EffectOnce /\ CasChain
  BY DEF SourceInv
<1> QED
  BY <1>1, SourceInitInv, SourceNextInv, PTL DEF SourceSpec

-----------------------------------------------------------------------------
(* What the cache and the workers know of the source *)

\* Operation o has not been applied, and its compare-and-set can never hold.
Doomed(o) == srcOps[o].ctr = 0 /\ ob[o].pre < srcRec[ob[o].key]

\* A row names no revision the source has not issued for it; a settled row
\* names one; an unsettled edit that is not a deletion has a payload.
RowInv ==
  \A k \in Keys :
    /\ rec[k].st = "absent" => rec[k].srev = 0 /\ rec[k].sctr = 0
    /\ rec[k].st \in Editable \/ rec[k].sctr # 0 => rec[k].srev # 0
    /\ rec[k].srev <= srcRec[k]
    /\ rec[k].st \in Dirty /\ ~rec[k].del => rec[k].val # None

\* An outbox row is a valid request for an issued revision, and the only
\* request the source knows under its operation id.
OpInv ==
  \A o \in LocalOps :
    /\ ob[o].st = "none" => srcOps[o].ctr = 0
    /\ ob[o].st # "none" => Request(o) \in Requests /\ ob[o].pre <= srcRec[ob[o].key]
    /\ srcOps[o].ctr # 0 => srcOps[o].hash = Request(o)

\* IntentKept in pieces: each open operation owns its dirty row, alone, and each
\* dirty row is owned.
OpenOwns ==
  \A o \in LocalOps : ob[o].st \in Open =>
    /\ rec[ob[o].key].st \in Dirty
    /\ rec[ob[o].key].val = ob[o].val
    /\ rec[ob[o].key].del = (ob[o].kind = "delete")
OwnerUnique ==
  \A o, p \in LocalOps : ob[o].st \in Open /\ ob[p].st \in Open /\ ob[o].key = ob[p].key => o = p
DirtyOwned ==
  \A k \in Keys : rec[k].st \in Dirty => \E o \in LocalOps : ob[o].st \in Open /\ ob[o].key = k

\* The verdict the cache has recorded is the verdict of the source.
VerdictInv ==
  \A o \in LocalOps :
    /\ ob[o].st = "acknowledged" => srcOps[o].ctr # 0
    /\ ob[o].st \in {"conflict", "resolved"} => Doomed(o)
    /\ conf[o].st = "open" => ob[o].st = "conflict" /\ conf[o].ev <= srcRec[ob[o].key]

\* What a worker in state r remembers between two calls is still true when it
\* uses it.
Knows(r) ==
  /\ r.pc \in {"lookup", "mutate", "wait", "ack", "fail"} =>
       r.op \in LocalOps /\ ob[r.op].st # "none"
  /\ r.pc = "ack" => r.ctr # 0 /\ srcOps[r.op].ctr = r.ctr
  /\ r.pc = "fail" /\ r.code = "revision_conflict" =>
       Doomed(r.op) /\ r.ctr <= srcRec[ob[r.op].key]
  /\ r.pc \in {"changes", "apply", "publish"} => r.ctr <= Len(chg)
  /\ r.pc = "publish" => \A k \in Keys : r.rows[k] <= srcRec[k]

WorkInv == /\ \A w \in Procs : Knows(wk[w])
           /\ \A m \in inflight : ob[m.op].st # "none"

CacheInv == RowInv /\ OpInv /\ OpenOwns /\ OwnerUnique /\ DirtyOwned /\ VerdictInv

SyncInv == SourceInv /\ TypeOK /\ CacheInv /\ WorkInv

-----------------------------------------------------------------------------
(* Sets of counters and the rows that events make.                           *)

\* A non-empty set of counters below a bound has a latest element.
LEMMA LatestIsLatest ==
  ASSUME NEW n \in Nat, NEW C \in SUBSET (0 .. n), C # {}
  PROVE  Latest(C) \in C /\ \A c \in C : c <= Latest(C)
<1> DEFINE T == {n - c : c \in C}
<1>1. T \subseteq Nat /\ T # {}
  <2>1. \A c \in C : n - c \in Nat
    OBVIOUS
  <2> QED
    BY <2>1, Zenon
<1>2. PICK x \in T : \A y \in T : ~(<<y, x>> \in OpToRel(<, Nat))
  BY <1>1, WFMin, NatLessThanWellFounded, Zenon
<1>3. ASSUME NEW y \in T
      PROVE  x <= y
  <2>1. x \in Nat /\ y \in Nat
    BY <1>1
  <2>2. y < x => <<y, x>> \in OpToRel(<, Nat)
    BY <2>1 DEF OpToRel
  <2>3. ~(y < x)
    BY <1>2, <2>2, Zenon
  <2> QED
    BY <2>1, <2>3
<1>4. PICK m \in C : x = n - m
  OBVIOUS
<1>5. ASSUME NEW c \in C
      PROVE  c <= m
  <2>1. n - c \in T
    OBVIOUS
  <2> HIDE DEF T
  <2>2. n - m <= n - c
    BY <1>3, <1>4, <2>1
  <2>3. c \in Nat /\ m \in Nat
    BY <1>4
  <2> QED
    BY <2>2, <2>3
<1> QED
  BY <1>5, Zenon DEF Latest

\* Events either leave a row alone or replace it by the newest of them, which is
\* newer than the row; a row that has not seen one of them is replaced.
LEMMA ApplyEventsRow ==
  ASSUME SourceTypeOK, NEW r \in Rows, NEW C \in SUBSET (1 .. Len(chg))
  PROVE  /\ ApplyEvents(r, C) \in Rows
         /\ \/ ApplyEvents(r, C) = r
            \/ \E m \in C : /\ m > r.sctr
                            /\ ApplyEvents(r, C).srev = m /\ ApplyEvents(r, C).sctr = m
                            /\ ApplyEvents(r, C).st \in Editable
         /\ (\E c \in C : c > r.sctr) => ApplyEvents(r, C).srev # 0
                                         /\ ApplyEvents(r, C).st \in Editable
<1> DEFINE new == {c \in C : c > r.sctr}
<1>0. Len(chg) \in Nat /\ chg \in Seq(Events)
  BY DEF SourceTypeOK
<1>1. CASE new = {}
  BY <1>1 DEF ApplyEvents
<1>2. CASE new # {}
  <2> DEFINE m == Latest(new)
             v == [st |-> CleanState(chg[m].del), val |-> chg[m].val, del |-> chg[m].del,
                   srev |-> m, sctr |-> m, lrev |-> r.lrev + Cardinality(new)]
  <2>1. new \in SUBSET (0 .. Len(chg))
    <3>1. 1 .. Len(chg) \subseteq 0 .. Len(chg)
      BY <1>0
    <3> QED
      BY <3>1, Zenon
  <2>2. m \in new
    BY <1>0, <1>2, <2>1, LatestIsLatest, Zenon
  <2>3. Cardinality(new) \in Nat
    <3>1. IsFiniteSet(0 .. Len(chg))
      BY <1>0, FS_Interval
    <3>2. IsFiniteSet(new)
      BY <2>1, <3>1, FS_Subset
    <3> QED
      BY <3>2, FS_CardinalityType
  <2>4. m \in C /\ m > r.sctr /\ m \in 1 .. Len(chg)
    BY <2>2, Zenon
  <2>5. ApplyEvents(r, C) = v
    BY <1>2 DEF ApplyEvents
  <2> HIDE DEF new, m
  <2>6. chg[m] \in Events /\ m \in Nat /\ m # 0
    BY <1>0, <2>4
  <2>7. v.st \in Editable /\ v \in Rows
    BY <2>3, <2>6 DEF Events, Rows, Editable, CleanState
  <2> QED
    BY <2>4, <2>5, <2>6, <2>7
<1> QED
  BY <1>1, <1>2

-----------------------------------------------------------------------------
(* Frames: what a step on one side leaves true on the other.                 *)

\* A new binding satisfies the invariant.
LEMMA InitSync == Init => SyncInv
<1> SUFFICES ASSUME Init PROVE SyncInv
  OBVIOUS
<1>1. SourceInv
  BY SourceInitInv DEF Init
<1>2. SourceTypeOK /\ chg = <<>> /\ Len(chg) = 0
  BY <1>1 DEF SourceInv, Init, SourceInit
<1>3. TypeOK
  BY <1>2, SyncAssumption
     DEF Init, SourceInit, CacheInit, TypeOK, Rows, OutboxRows, WorkStates, NoRow, NoOutboxRow,
         NoWork, Editable, Dirty, Open, Steps, Codes
<1>4. CacheInv
  <2>1. /\ \A k \in Keys : rec[k] = NoRow /\ srcRec[k] = 0
        /\ \A o \in LocalOps : /\ ob[o].st = "none" /\ conf[o].st = "none"
                               /\ srcOps[o].ctr = 0
    BY LocalOpsAssumption DEF Init, SourceInit, CacheInit, NoOutboxRow
  <2>2. RowInv /\ DirtyOwned
    BY <2>1 DEF RowInv, DirtyOwned, NoRow, Editable, Dirty
  <2>3. OpInv /\ VerdictInv
    BY <2>1 DEF OpInv, VerdictInv
  <2>4. OpenOwns /\ OwnerUnique
    BY <2>1 DEF OpenOwns, OwnerUnique, Open
  <2> QED
    BY <2>2, <2>3, <2>4 DEF CacheInv
<1>5. WorkInv
  BY DEF Init, WorkInv, Knows, NoWork
<1> QED
  BY <1>1, <1>3, <1>4, <1>5 DEF SyncInv

\* A step of worker w that calls neither the store nor a writing source function
\* only has to leave w in a state that is well-formed and known to be true.
LEMMA WorkStep ==
  ASSUME SyncInv, NEW w \in Procs, NEW r \in WorkStates, Knows(r), Goto(w, r),
         UNCHANGED <<source, cache>>, inflight' \subseteq Mutations,
         \A m \in inflight' : ob[m.op].st # "none", faults' \in 0 .. MaxFaults
  PROVE  SyncInv'
<1>1. SourceInv' /\ SourceTypeOK'
  BY Zenon DEF SyncInv, SourceInv, SourceTypeOK, TablesAgree, EffectOnce, CasChain, source
<1>2. CacheInv'
  BY DEF SyncInv, CacheInv, RowInv, OpInv, OpenOwns, OwnerUnique, DirtyOwned, VerdictInv, Doomed,
         Request, source, cache
<1>3. wk' \in [Procs -> WorkStates] /\ \A v \in Procs : wk'[v] = IF v = w THEN r ELSE wk[v]
  BY DEF SyncInv, TypeOK, Goto
<1>4. TypeOK'
  BY <1>1, <1>3 DEF SyncInv, TypeOK, source, cache
<1>5. WorkInv'
  <2>1. \A v \in Procs : Knows(wk[v])
    BY DEF SyncInv, WorkInv
  <2>2. ASSUME NEW v \in Procs
        PROVE  Knows(wk[v])'
    <3>1. CASE v = w
      BY <1>3, <3>1, SMTT(30) DEF Knows, Doomed, source, cache
    <3>2. CASE v # w
      BY <1>3, <2>1, <3>2 DEF Knows, Doomed, source, cache
    <3> QED
      BY <3>1, <3>2
  <2>3. \A m \in inflight' : ob'[m.op].st # "none"
    BY DEF cache
  <2> QED
    BY <2>2, <2>3 DEF WorkInv
<1> QED
  BY <1>1, <1>2, <1>4, <1>5 DEF SyncInv

\* The source has moved forward: counters only grow and outcomes are kept.
SourceGrows == /\ Len(chg) <= Len(chg')
               /\ \A k \in Keys : srcRec[k] <= srcRec'[k]
               /\ \A o \in Ops : srcOps[o].ctr # 0 => srcOps'[o] = srcOps[o]

\* Queued operations stay queued under the same immutable request.
OpsKept == \A o \in LocalOps : ob[o].st # "none" => ob'[o].st # "none" /\ Request(o)' = Request(o)

\* Operations that cannot succeed any more stay so.
DoomedKept == \A o \in LocalOps : ob[o].st # "none" /\ Doomed(o) => Doomed(o)'

\* What workers know survives every step of the source and of the cache.
LEMMA KnowsKept ==
  ASSUME SyncInv, SourceTypeOK', SourceGrows, OpsKept, DoomedKept, NEW w \in Procs,
         wk'[w] = wk[w]
  PROVE  Knows(wk[w])'
<1> DEFINE r == wk[w]
<1>1. r \in WorkStates /\ Knows(r) /\ wk'[w] = r
  BY DEF SyncInv, WorkInv, TypeOK
<1>2. /\ Len(chg) \in Nat /\ Len(chg') \in Nat
      /\ \A k \in Keys : srcRec[k] \in Nat /\ srcRec'[k] \in Nat
  BY DEF SyncInv, SourceInv, SourceTypeOK
<1>3. r.ctr \in Nat /\ r.rows \in [Keys -> Nat]
  BY <1>1 DEF WorkStates
<1>4. ASSUME r.op \in LocalOps, ob[r.op].st # "none"
      PROVE  /\ ob'[r.op].st # "none" /\ ob'[r.op].key = ob[r.op].key
             /\ ob[r.op].key \in Keys
  BY <1>4, Zenon DEF SyncInv, CacheInv, OpInv, OpsKept, Request, Requests
<1> HIDE DEF r
<1>5. r.pc \in {"lookup", "mutate", "wait", "ack", "fail"} =>
        r.op \in LocalOps /\ ob'[r.op].st # "none"
  BY <1>1, <1>4 DEF Knows
<1>6. r.pc = "ack" => r.ctr # 0 /\ srcOps'[r.op].ctr = r.ctr
  BY <1>1, LocalOpsAssumption DEF Knows, SourceGrows
<1>7. r.pc = "fail" /\ r.code = "revision_conflict" =>
        /\ srcOps'[r.op].ctr = 0 /\ ob'[r.op].pre < srcRec'[ob'[r.op].key]
        /\ r.ctr <= srcRec'[ob'[r.op].key]
  <2> SUFFICES ASSUME r.pc = "fail", r.code = "revision_conflict"
               PROVE  /\ srcOps'[r.op].ctr = 0 /\ ob'[r.op].pre < srcRec'[ob'[r.op].key]
                      /\ r.ctr <= srcRec'[ob'[r.op].key]
    OBVIOUS
  <2>1. /\ r.op \in LocalOps /\ ob[r.op].st # "none" /\ Doomed(r.op)
        /\ r.ctr <= srcRec[ob[r.op].key]
    BY <1>1 DEF Knows
  <2>2. srcOps'[r.op].ctr = 0 /\ ob'[r.op].pre < srcRec'[ob'[r.op].key]
    BY <2>1 DEF DoomedKept, Doomed
  <2>3. r.ctr <= srcRec'[ob'[r.op].key]
    BY <1>2, <1>3, <1>4, <2>1 DEF SourceGrows
  <2> QED
    BY <2>2, <2>3
<1>8. r.pc \in {"changes", "apply", "publish"} => r.ctr <= Len(chg')
  BY <1>1, <1>2, <1>3 DEF Knows, SourceGrows
<1>9. r.pc = "publish" => \A k \in Keys : r.rows[k] <= srcRec'[k]
  BY <1>1, <1>2, <1>3 DEF Knows, SourceGrows
<1> QED
  BY <1>1, <1>5, <1>6, <1>7, <1>8, <1>9 DEF Knows, Doomed

-----------------------------------------------------------------------------
(* Steps of the source.                                                      *)

\* The part of TypeOK that is about the cache.
CacheTypeOK ==
  /\ rec \in [Keys -> Rows]
  /\ ob \in [LocalOps -> OutboxRows]
  /\ cpt \in [seen : BOOLEAN, last : 0 .. Len(chg), status : {"new", "ready", "paused_auth"}]
  /\ deferred \subseteq 1 .. Len(chg)
  /\ conf \in [LocalOps -> [st : {"none", "open", "resolved"}, ev : 0 .. Len(chg),
                            fresh : BOOLEAN]]

\* An operation of this cache that the source has just applied was queued here.
NewEffectsQueued ==
  \A o \in LocalOps : srcOps[o].ctr = 0 /\ srcOps'[o].ctr # 0 =>
    ob[o].st # "none" /\ srcOps'[o].hash = Request(o)

\* The cache's invariant survives when only the source moves forward.
LEMMA SourceStep ==
  ASSUME SyncInv, SourceInv', UNCHANGED cache, SourceGrows, DoomedKept, NewEffectsQueued
  PROVE  CacheTypeOK' /\ CacheInv' /\ OpsKept
<1>1. /\ Len(chg) \in Nat /\ Len(chg') \in Nat /\ Len(chg) <= Len(chg')
      /\ \A k \in Keys : srcRec[k] \in Nat /\ srcRec'[k] \in Nat /\ srcRec[k] <= srcRec'[k]
  BY DEF SyncInv, SourceInv, SourceTypeOK, SourceGrows
<1>2. rec' = rec /\ ob' = ob /\ cpt' = cpt /\ deferred' = deferred /\ conf' = conf
  BY DEF cache
<1>3. OpsKept
  BY <1>2 DEF OpsKept, Request
<1>4. CacheTypeOK'
  BY <1>1, <1>2 DEF SyncInv, TypeOK, CacheTypeOK
<1>5. /\ RowInv /\ OpInv /\ VerdictInv /\ OpenOwns /\ OwnerUnique /\ DirtyOwned
      /\ rec \in [Keys -> Rows] /\ ob \in [LocalOps -> OutboxRows]
      /\ conf \in [LocalOps -> [st : {"none", "open", "resolved"}, ev : 0 .. Len(chg),
                                fresh : BOOLEAN]]
  BY DEF SyncInv, CacheInv, TypeOK
<1>6. RowInv'
  <2> SUFFICES ASSUME NEW k \in Keys
               PROVE  /\ rec[k].st = "absent" => rec[k].srev = 0 /\ rec[k].sctr = 0
                      /\ rec[k].st \in Editable \/ rec[k].sctr # 0 => rec[k].srev # 0
                      /\ rec[k].srev <= srcRec'[k]
                      /\ rec[k].st \in Dirty /\ ~rec[k].del => rec[k].val # None
    BY <1>2 DEF RowInv
  <2>1. rec[k].srev \in Nat /\ rec[k].srev <= srcRec[k]
    BY <1>5 DEF RowInv, Rows
  <2>2. rec[k].srev <= srcRec'[k]
    BY <1>1, <2>1
  <2> QED
    BY <1>5, <2>2 DEF RowInv
<1>7. OpenOwns' /\ OwnerUnique' /\ DirtyOwned'
  BY <1>2, <1>5 DEF OpenOwns, OwnerUnique, DirtyOwned
<1>8. \A o \in LocalOps : ob[o].st # "none" => ob[o].key \in Keys /\ ob[o].pre \in Nat
  BY <1>5, Zenon DEF OpInv, Request, Requests
<1>9. OpInv'
  <2> SUFFICES ASSUME NEW o \in LocalOps
               PROVE  /\ ob[o].st = "none" => srcOps'[o].ctr = 0
                      /\ ob[o].st # "none" => /\ Request(o) \in Requests
                                              /\ ob[o].pre <= srcRec'[ob[o].key]
                      /\ srcOps'[o].ctr # 0 => srcOps'[o].hash = Request(o)
    BY <1>2 DEF OpInv, Request
  <2>1. /\ ob[o].st = "none" => srcOps[o].ctr = 0
        /\ ob[o].st # "none" => Request(o) \in Requests /\ ob[o].pre <= srcRec[ob[o].key]
        /\ srcOps[o].ctr # 0 => srcOps[o].hash = Request(o)
    BY <1>5 DEF OpInv
  <2>2. srcOps[o].ctr # 0 => srcOps'[o] = srcOps[o]
    BY LocalOpsAssumption DEF SourceGrows
  <2>3. srcOps[o].ctr = 0 /\ srcOps'[o].ctr # 0 =>
          ob[o].st # "none" /\ srcOps'[o].hash = Request(o)
    BY DEF NewEffectsQueued
  <2> QED
    BY <1>1, <1>8, <2>1, <2>2, <2>3, SMTT(30)
<1>10. VerdictInv'
  <2> SUFFICES ASSUME NEW o \in LocalOps
               PROVE  /\ ob[o].st = "acknowledged" => srcOps'[o].ctr # 0
                      /\ ob[o].st \in {"conflict", "resolved"} => Doomed(o)'
                      /\ conf[o].st = "open" =>
                           ob[o].st = "conflict" /\ conf[o].ev <= srcRec'[ob[o].key]
    BY <1>2 DEF VerdictInv
  <2>1. /\ ob[o].st = "acknowledged" => srcOps[o].ctr # 0
        /\ ob[o].st \in {"conflict", "resolved"} => Doomed(o)
        /\ conf[o].st = "open" => ob[o].st = "conflict" /\ conf[o].ev <= srcRec[ob[o].key]
    BY <1>5 DEF VerdictInv
  <2>2. srcOps[o].ctr # 0 => srcOps'[o] = srcOps[o]
    BY LocalOpsAssumption DEF SourceGrows
  <2>3. conf[o].ev \in Nat
    BY <1>1, <1>5
  <2>4. ob[o].st \in {"conflict", "resolved"} => Doomed(o)'
    BY <2>1 DEF DoomedKept
  <2> QED
    BY <1>1, <1>8, <2>1, <2>2, <2>3, <2>4, SMTT(30)
<1> QED
  BY <1>3, <1>4, <1>6, <1>7, <1>9, <1>10 DEF CacheInv

\* A successful source_mutate moves the source forward and dooms nothing that
\* was alive: its own operation passed the compare-and-set.
LEMMA CommitStep ==
  ASSUME SyncInv, NEW q \in Requests, srcOps[q.op].ctr = 0, CasHolds(q), Commit(q),
         UNCHANGED cache,
         q.op \in LocalOps => ob[q.op].st # "none" /\ q = Request(q.op)
  PROVE  SourceInv' /\ SourceGrows /\ DoomedKept /\ NewEffectsQueued
<1>1. SourceInv /\ SourceTypeOK
  BY DEF SyncInv, SourceInv
<1>2. SourceInv'
  BY <1>1, CommitInv
<1>3. Len(chg') = Len(chg) + 1 /\ Len(chg) \in Nat
  BY <1>1, CommitFacts, Zenon
<1>4. /\ q.op \in Ops /\ q.key \in Keys
      /\ \A k \in Keys : srcRec'[k] = IF k = q.key THEN Len(chg) + 1 ELSE srcRec[k]
      /\ \A k \in Keys : srcRec[k] \in 0 .. Len(chg)
      /\ \A o \in Ops : srcOps'[o] = IF o = q.op THEN [ctr |-> Len(chg) + 1, hash |-> q]
                                                 ELSE srcOps[o]
  BY <1>1 DEF SourceTypeOK, Commit, Requests
<1>5. SourceGrows
  BY <1>3, <1>4, SMTT(30) DEF SourceGrows
<1>6. NewEffectsQueued
  BY <1>4, LocalOpsAssumption DEF NewEffectsQueued
<1>7. DoomedKept
  <2> SUFFICES ASSUME NEW o \in LocalOps, ob[o].st # "none", Doomed(o)
               PROVE  Doomed(o)'
    BY DEF DoomedKept
  <2>1. ob' = ob /\ o \in Ops
    BY LocalOpsAssumption, SMTT(30) DEF cache
  <2>2. ob[o].key \in Keys /\ ob[o].pre \in Nat /\ Request(o) \in Requests
    BY SMTT(30) DEF SyncInv, CacheInv, OpInv, Request, Requests
  <2>3. o # q.op
    <3>1. SUFFICES ASSUME o = q.op PROVE FALSE
      OBVIOUS
    <3>2. q = Request(o)
      BY <3>1
    <3>3. q.key = ob[o].key /\ q.pre = ob[o].pre /\ (q.kind = "create" <=> q.pre = 0)
      BY <3>2 DEF Request, Requests
    <3>4. ob[o].pre < srcRec[ob[o].key]
      BY DEF Doomed
    <3>5. q.pre = srcRec[q.key] /\ srcRec[q.key] \in 0 .. Len(chg)
      BY <1>4, <3>3, Zenon DEF CasHolds
    <3> QED
      BY <1>3, <3>3, <3>4, <3>5
  <2>4. srcOps'[o].ctr = 0
    BY <1>4, <2>1, <2>3 DEF Doomed
  <2>5. ob[o].pre < srcRec'[ob[o].key]
    BY <1>3, <1>4, <2>2 DEF Doomed
  <2> QED
    BY <2>1, <2>4, <2>5 DEF Doomed
<1> QED
  BY <1>2, <1>5, <1>6, <1>7

\* The invariant of the next state from that of its parts: the source has moved
\* forward, the cache is consistent, and each worker's memory is old or checked.
LEMMA Assemble ==
  ASSUME SyncInv, SourceInv', SourceGrows, DoomedKept, CacheTypeOK', CacheInv', OpsKept,
         wk' \in [Procs -> WorkStates], \A v \in Procs : wk'[v] = wk[v] \/ Knows(wk[v])',
         inflight' \subseteq inflight, faults' \in 0 .. MaxFaults
  PROVE  SyncInv'
<1>1. SourceTypeOK'
  BY DEF SourceInv
<1>2. TypeOK'
  BY <1>1 DEF TypeOK, CacheTypeOK, SyncInv
<1>3. ASSUME NEW v \in Procs
      PROVE  Knows(wk[v])'
  BY <1>1, KnowsKept
<1>4. \A m \in inflight' : ob'[m.op].st # "none"
  BY DEF SyncInv, WorkInv, TypeOK, Mutations, OpsKept
<1> QED
  BY <1>2, <1>3, <1>4 DEF SyncInv, WorkInv

\* The same for a step of the source alone.
LEMMA SourceMoves ==
  ASSUME SyncInv, SourceInv', UNCHANGED cache, SourceGrows, DoomedKept, NewEffectsQueued,
         wk' \in [Procs -> WorkStates], \A v \in Procs : wk'[v] = wk[v] \/ Knows(wk[v])',
         inflight' \subseteq inflight, faults' \in 0 .. MaxFaults
  PROVE  SyncInv'
<1>1. CacheTypeOK' /\ CacheInv' /\ OpsKept
  BY SourceStep
<1> QED
  BY <1>1, Assemble

\* An unchanged source has trivially moved forward.
LEMMA SourceIdle ==
  ASSUME SyncInv, UNCHANGED source, UNCHANGED cache
  PROVE  SourceInv' /\ SourceGrows /\ DoomedKept /\ NewEffectsQueued
<1>1. SourceInv' /\ SourceInv
  BY Zenon DEF SyncInv, SourceInv, SourceTypeOK, TablesAgree, EffectOnce, CasChain, source
<1>2. Len(chg) \in Nat /\ \A k \in Keys : srcRec[k] \in Nat
  BY <1>1 DEF SourceInv, SourceTypeOK
<1>3. SourceGrows
  BY <1>2 DEF SourceGrows, source
<1>4. DoomedKept /\ NewEffectsQueued
  BY DEF DoomedKept, NewEffectsQueued, Doomed, source, cache
<1> QED
  BY <1>1, <1>3, <1>4

\* The fields a worker's step sets keep its state well-formed.
LEMMA WorkStateType ==
  ASSUME NEW r \in WorkStates, NEW p \in Steps, NEW e \in Codes, NEW c \in Nat
  PROVE  /\ [r EXCEPT !.pc = p] \in WorkStates
         /\ [r EXCEPT !.pc = p, !.ctr = c] \in WorkStates
         /\ [r EXCEPT !.pc = p, !.code = e] \in WorkStates
         /\ [r EXCEPT !.pc = p, !.code = e, !.ctr = c] \in WorkStates
BY Zenon DEF WorkStates

\* source_mutate executes an in-flight request, and whoever still waits for it
\* learns the truth.
LEMMA ServeInv ==
  ASSUME SyncInv, NEW m \in inflight, Serve(m)
  PROVE  SyncInv'
<1> DEFINE q == Request(m.op)
           w == m.w
<1>1. /\ m \in Mutations /\ w \in Procs /\ m.op \in LocalOps /\ m.op \in Ops
      /\ ob[m.op].st # "none"
  BY LocalOpsAssumption, SMTT(30) DEF SyncInv, TypeOK, WorkInv, Mutations
<1>2. /\ q \in Requests /\ q.op = m.op /\ q.key = ob[m.op].key /\ q.pre = ob[m.op].pre
      /\ q.pre <= srcRec[q.key] /\ q.key \in Keys /\ q.pre \in Nat
      /\ (q.kind = "create" <=> q.pre = 0)
  BY <1>1 DEF SyncInv, CacheInv, OpInv, Request, Requests
<1>3. /\ inflight' \subseteq inflight /\ UNCHANGED cache /\ UNCHANGED faults
      /\ source_mutate(q)
  BY DEF Serve
<1> HIDE DEF q
<1>4. SourceInv' /\ SourceGrows /\ DoomedKept /\ NewEffectsQueued
  <2>1. CASE srcOps[q.op].ctr = 0 /\ CasHolds(q)
    <3>1. Commit(q)
      BY <1>3, <2>1 DEF source_mutate
    <3>2. q.op \in LocalOps => ob[q.op].st # "none" /\ q = Request(q.op)
      BY <1>1, <1>2 DEF q
    <3> QED
      BY <1>2, <1>3, <2>1, <3>1, <3>2, CommitStep
  <2>2. CASE ~(srcOps[q.op].ctr = 0 /\ CasHolds(q))
    <3>1. UNCHANGED source
      BY <1>3, <2>2 DEF source_mutate
    <3> QED
      BY <1>3, <3>1, SourceIdle
  <2> QED
    BY <2>1, <2>2, SMTT(30)
<1>5. CASE ~Awaited(m)
  <2>1. wk' = wk
    BY <1>5 DEF Serve
  <2> QED
    BY <1>3, <1>4, <2>1, SourceMoves DEF SyncInv, TypeOK
<1>6. CASE Awaited(m)
  <2> DEFINE okState == [wk[w] EXCEPT !.pc = "ack", !.ctr = MutateOutcome(q)]
             noState == [wk[w] EXCEPT !.pc = "fail", !.code = MutateAnswer(q), !.ctr = srcRec[q.key]]
  <2>1. /\ wk \in [Procs -> WorkStates] /\ wk[w] \in WorkStates /\ wk[w].op = m.op
        /\ wk' = [wk EXCEPT ![w] = IF MutateAnswer(q) = "ok" THEN okState ELSE noState]
    BY <1>1, <1>6 DEF Serve, Awaited, Goto, SyncInv, TypeOK, q
  <2>2. /\ MutateAnswer(q) \in {"ok", "idempotency_mismatch", "revision_conflict"}
        /\ MutateAnswer(q) = "revision_conflict" => srcOps[q.op].ctr = 0 /\ ~CasHolds(q)
        /\ MutateAnswer(q) = "ok" => srcOps[q.op].ctr # 0 \/ (srcOps[q.op].ctr = 0 /\ CasHolds(q))
    BY DEF MutateAnswer
  <2>3. /\ Len(chg) \in Nat /\ srcRec[q.key] \in Nat /\ srcOps[q.op].ctr \in Nat
        /\ MutateOutcome(q) \in Nat
    BY <1>1, <1>2 DEF SyncInv, SourceInv, SourceTypeOK, MutateOutcome
  <2> HIDE DEF w
  <2>4. okState \in WorkStates /\ (MutateAnswer(q) # "ok" => noState \in WorkStates)
    <3>1. "ack" \in Steps /\ "fail" \in Steps /\ MutateAnswer(q) \in Codes \cup {"ok"}
      BY <2>2 DEF Steps, PushSteps, Codes
    <3> QED
      BY <2>1, <2>3, <3>1, WorkStateType, Zenon DEF Codes
  <2>5. wk' \in [Procs -> WorkStates] /\ \A v \in Procs : v # w => wk'[v] = wk[v]
    BY <2>1, <2>4, Zenon
  <2>6. Knows(wk[w])'
    <3>1. ob'[m.op].st # "none" /\ ob' = ob
      BY <1>1, <1>3 DEF cache
    <3>2. CASE MutateAnswer(q) = "ok"
      <4>1. wk'[w] = okState
        BY <1>1, <2>1, <3>2
      <4>2. okState.pc = "ack" /\ okState.op = m.op /\ okState.ctr = MutateOutcome(q)
        BY <2>1 DEF WorkStates
      <4>3. MutateOutcome(q) # 0 /\ srcOps'[m.op].ctr = MutateOutcome(q)
        <5>1. CASE srcOps[q.op].ctr # 0
          BY <1>1, <1>2, <1>4, <5>1 DEF MutateOutcome, SourceGrows
        <5>2. CASE srcOps[q.op].ctr = 0 /\ CasHolds(q)
          <6>1. Commit(q)
            BY <1>3, <5>2 DEF source_mutate
          <6>2. srcOps'[m.op] = [ctr |-> Len(chg) + 1, hash |-> q]
            BY <1>1, <1>2, <6>1, SMTT(30) DEF Commit, SyncInv, SourceInv, SourceTypeOK
          <6> QED
            BY <2>3, <5>2, <6>2, SMTT(30) DEF MutateOutcome
        <5> QED
          BY <2>2, <3>2, <5>1, <5>2, SMTT(30)
      <4> HIDE DEF okState
      <4> QED
        BY <1>1, <3>1, <4>1, <4>2, <4>3 DEF Knows
    <3>3. CASE MutateAnswer(q) # "ok"
      <4>1. wk'[w] = noState
        BY <1>1, <2>1, <3>3
      <4>2. /\ noState.pc = "fail" /\ noState.op = m.op /\ noState.code = MutateAnswer(q)
            /\ noState.ctr = srcRec[q.key]
        BY <2>1 DEF WorkStates
      <4>3. MutateAnswer(q) = "revision_conflict" =>
              /\ srcOps'[m.op].ctr = 0 /\ ob[m.op].pre < srcRec'[ob[m.op].key]
              /\ srcRec[q.key] <= srcRec'[ob[m.op].key]
        <5> SUFFICES ASSUME srcOps[q.op].ctr = 0, ~CasHolds(q)
                     PROVE  /\ srcOps'[m.op].ctr = 0 /\ ob[m.op].pre < srcRec'[ob[m.op].key]
                            /\ srcRec[q.key] <= srcRec'[ob[m.op].key]
          BY <2>2
        <5>1. srcOps' = srcOps /\ srcRec' = srcRec
          BY <1>3 DEF source_mutate, source
        <5> QED
          BY <1>2, <2>3, <5>1 DEF CasHolds
      <4> HIDE DEF noState
      <4> QED
        BY <1>1, <3>1, <4>1, <4>2, <4>3 DEF Knows, Doomed
    <3> QED
      BY <3>2, <3>3
  <2> QED
    BY <1>3, <1>4, <2>5, <2>6, SourceMoves DEF SyncInv, TypeOK
<1> QED
  BY <1>5, <1>6

\* Another writer's mutation, and retention at the source.
LEMMA OtherWriteInv ==
  ASSUME SyncInv, NEW o \in Ops, NEW k \in Keys, NEW kind \in Kinds, OtherWrite(o, k, kind)
  PROVE  SyncInv'
<1> DEFINE q == [op |-> o, key |-> k, kind |-> kind, pre |-> srcRec[k], val |-> o]
<1>1. /\ q \in Requests /\ source_mutate(q) /\ o \notin LocalOps
      /\ UNCHANGED cache /\ wk' = wk /\ inflight' = inflight /\ faults' = faults /\ q.op = o
  BY SMTT(30) DEF OtherWrite, Mutate, work
<1> HIDE DEF q
<1>2. SourceInv' /\ SourceGrows /\ DoomedKept /\ NewEffectsQueued
  <2>1. CASE srcOps[q.op].ctr = 0 /\ CasHolds(q)
    <3>1. Commit(q)
      BY <1>1, <2>1 DEF source_mutate
    <3> QED
      BY <1>1, <2>1, <3>1, CommitStep
  <2>2. CASE ~(srcOps[q.op].ctr = 0 /\ CasHolds(q))
    <3>1. UNCHANGED source
      BY <1>1, <2>2 DEF source_mutate
    <3> QED
      BY <1>1, <3>1, SourceIdle
  <2> QED
    BY <2>1, <2>2, SMTT(30)
<1> QED
  BY <1>1, <1>2, SourceMoves, SMTT(30) DEF SyncInv, TypeOK

\* A fault stays within its budget.
LEMMA FaultType == ASSUME SyncInv, Fault PROVE faults' \in 0 .. MaxFaults
BY SyncAssumption DEF SyncInv, TypeOK, Fault

\* Pruning the change feed moves the boundary of source_changes and nothing that
\* the invariant speaks of.
LEMMA RetentionInv ==
  ASSUME SyncInv, NEW r \in 1 .. Len(chg), Retention(r)
  PROVE  SyncInv'
<1>1. /\ UNCHANGED cache /\ wk' = wk /\ inflight' = inflight
      /\ faults' \in 0 .. MaxFaults
      /\ chg' = chg /\ srcRec' = srcRec /\ srcOps' = srcOps /\ retained' = r
  BY FaultType DEF Retention, Prune, work
<1>2. Len(chg) \in Nat /\ \A k \in Keys : srcRec[k] \in Nat
  BY DEF SyncInv, SourceInv, SourceTypeOK
<1>3. SourceInv'
  <2>1. SourceTypeOK /\ TablesAgree /\ EffectOnce /\ CasChain
    BY DEF SyncInv, SourceInv
  <2>2. SourceTypeOK'
    BY <1>1, <1>2, <2>1 DEF SourceTypeOK
  <2>3. TablesAgree' /\ EffectOnce' /\ CasChain'
    BY <1>1, <2>1, Zenon DEF TablesAgree, EffectOnce, CasChain
  <2> QED
    BY <2>2, <2>3 DEF SourceInv
<1>4. SourceGrows
  BY <1>1, <1>2 DEF SourceGrows
<1>5. DoomedKept /\ NewEffectsQueued
  BY <1>1 DEF DoomedKept, NewEffectsQueued, Doomed, cache
<1> QED
  BY <1>1, <1>3, <1>4, <1>5, SourceMoves DEF SyncInv, TypeOK

-----------------------------------------------------------------------------
(* Steps of a worker that only read.                                         *)

\* A worker that starts over knows nothing that could be wrong.
LEMMA FreshWork ==
  ASSUME NEW p \in Steps, p \notin {"lookup", "mutate", "wait", "ack", "fail",
                                    "changes", "apply", "publish"},
         NEW e \in Codes, NEW c \in Nat
  PROVE  /\ NoWork \in WorkStates /\ Knows(NoWork)
         /\ [NoWork EXCEPT !.pc = p] \in WorkStates /\ Knows([NoWork EXCEPT !.pc = p])
         /\ [NoWork EXCEPT !.pc = p, !.code = e] \in WorkStates
         /\ Knows([NoWork EXCEPT !.pc = p, !.code = e])
         /\ [NoWork EXCEPT !.pc = p, !.ctr = c] \in WorkStates
         /\ Knows([NoWork EXCEPT !.pc = p, !.ctr = c])
<1>1. NoWork \in WorkStates
  BY DEF NoWork, WorkStates, Steps, Codes
<1> QED
  BY <1>1, WorkStateType, Zenon DEF NoWork, Knows

\* Steps that forget what the worker knew: the start of a poll or a snapshot, a
\* failed read, a crash.
LEMMA RestartInv ==
  ASSUME SyncInv, NEW w \in Procs,
         \/ Poll(w) \/ Snapshot(w) \/ Crash(w)
         \/ \E code \in FaultCodes : CapabilitiesFail(w, code) \/ PullFail(w, code)
  PROVE  SyncInv'
<1> DEFINE P == {"idle", "caps", "pull", "snapshot", "pushPause", "pullPause"}
<1>1. \E p \in P, e \in Codes : \/ Goto(w, [NoWork EXCEPT !.pc = p])
                                \/ Goto(w, [NoWork EXCEPT !.pc = p, !.code = e])
                                \/ Goto(w, NoWork)
  <2>1. \A code \in FaultCodes : code \in Codes
    BY SyncAssumption DEF Codes
  <2>2. "none" \in Codes
    BY DEF Codes
  <2>3. CASE Poll(w) \/ Snapshot(w) \/ Crash(w)
    BY <2>2, <2>3, Zenon DEF Poll, Snapshot, Crash
  <2>4. ASSUME NEW code \in FaultCodes, CapabilitiesFail(w, code) \/ PullFail(w, code)
        PROVE  \E p \in P, e \in Codes : \/ Goto(w, [NoWork EXCEPT !.pc = p])
                                         \/ Goto(w, [NoWork EXCEPT !.pc = p, !.code = e])
                                         \/ Goto(w, NoWork)
    BY <2>1, <2>4, Zenon DEF CapabilitiesFail, PullFail, PushDone
  <2> QED
    BY <2>3, <2>4, Zenon
<1>2. UNCHANGED <<source, cache>> /\ inflight' = inflight /\ faults' \in 0 .. MaxFaults
  BY FaultType, Zenon DEF Poll, Snapshot, Crash, CapabilitiesFail, PullFail, SyncInv, TypeOK
<1>3. inflight' \subseteq Mutations /\ \A m \in inflight' : ob[m.op].st # "none"
  BY <1>2 DEF SyncInv, TypeOK, WorkInv
<1>4. PICK p \in P, e \in Codes : \/ Goto(w, [NoWork EXCEPT !.pc = p])
                                  \/ Goto(w, [NoWork EXCEPT !.pc = p, !.code = e])
                                  \/ Goto(w, NoWork)
  BY <1>1, Zenon
<1>5. p \in Steps /\ p \notin {"lookup", "mutate", "wait", "ack", "fail",
                               "changes", "apply", "publish"}
  BY DEF Steps, PushSteps, PullSteps
<1>6. /\ NoWork \in WorkStates /\ Knows(NoWork)
      /\ [NoWork EXCEPT !.pc = p] \in WorkStates /\ Knows([NoWork EXCEPT !.pc = p])
      /\ [NoWork EXCEPT !.pc = p, !.code = e] \in WorkStates
      /\ Knows([NoWork EXCEPT !.pc = p, !.code = e])
  BY <1>5, FreshWork, Zenon
<1> QED
  BY <1>2, <1>3, <1>4, <1>6, WorkStep

\* sync/operation: what the source remembers of an operation is final.
LEMMA LookupInv ==
  ASSUME SyncInv, NEW w \in Procs, Lookup(w) \/ \E code \in FaultCodes : LookupFail(w, code)
  PROVE  SyncInv'
<1> DEFINE r == wk[w]
           o == r.op
<1>1. r \in WorkStates /\ Knows(r) /\ r.pc = "lookup" /\ o \in LocalOps /\ ob[o].st # "none"
  BY Zenon DEF SyncInv, TypeOK, WorkInv, Knows, Lookup, LookupFail, At
<1>2. srcOps[o].ctr \in Nat
  BY <1>1, LocalOpsAssumption DEF SyncInv, SourceInv, SourceTypeOK
<1>3. /\ {"ack", "fail", "mutate"} \subseteq Steps /\ "blocked" \in Codes
      /\ FaultCodes \subseteq Codes /\ "revision_conflict" \notin FaultCodes
  BY SyncAssumption DEF Steps, PushSteps, Codes
<1>4. UNCHANGED <<source, cache>> /\ inflight' = inflight /\ faults' \in 0 .. MaxFaults
  BY FaultType, Zenon DEF Lookup, LookupFail, SyncInv, TypeOK
<1>5. inflight' \subseteq Mutations /\ \A m \in inflight' : ob[m.op].st # "none"
  BY <1>4 DEF SyncInv, TypeOK, WorkInv
<1>6. \/ srcOps[o].ctr # 0 /\ Goto(w, [r EXCEPT !.pc = "ack", !.ctr = srcOps[o].ctr])
      \/ Goto(w, [r EXCEPT !.pc = "mutate"])
      \/ \E e \in FaultCodes \cup {"blocked"} : Goto(w, [r EXCEPT !.pc = "fail", !.code = e])
  BY Zenon DEF Lookup, LookupFail
<1> HIDE DEF r
<1>7. CASE srcOps[o].ctr # 0 /\ Goto(w, [r EXCEPT !.pc = "ack", !.ctr = srcOps[o].ctr])
  <2> DEFINE n == [r EXCEPT !.pc = "ack", !.ctr = srcOps[o].ctr]
  <2>1. n \in WorkStates
    BY <1>1, <1>2, <1>3, WorkStateType, Zenon DEF Codes
  <2>2. n.pc = "ack" /\ n.ctr = srcOps[o].ctr /\ n.op = o
    BY <1>1 DEF WorkStates
  <2> HIDE DEF n
  <2>3. Knows(n)
    BY <1>1, <1>7, <2>2 DEF Knows
  <2> QED
    BY <1>4, <1>5, <1>7, <2>1, <2>3, WorkStep DEF n
<1>8. CASE Goto(w, [r EXCEPT !.pc = "mutate"])
  <2> DEFINE n == [r EXCEPT !.pc = "mutate"]
  <2>1. n \in WorkStates
    BY <1>1, <1>2, <1>3, WorkStateType, Zenon DEF Codes
  <2>2. n.pc = "mutate" /\ n.op = o
    BY <1>1 DEF WorkStates
  <2> HIDE DEF n
  <2>3. Knows(n)
    BY <1>1, <2>2 DEF Knows
  <2> QED
    BY <1>4, <1>5, <1>8, <2>1, <2>3, WorkStep DEF n
<1>9. ASSUME NEW e \in FaultCodes \cup {"blocked"}, Goto(w, [r EXCEPT !.pc = "fail", !.code = e])
      PROVE  SyncInv'
  <2> DEFINE n == [r EXCEPT !.pc = "fail", !.code = e]
  <2>1. n \in WorkStates
    BY <1>1, <1>2, <1>3, WorkStateType, Zenon
  <2>2. n.pc = "fail" /\ n.op = o /\ n.code # "revision_conflict"
    BY <1>1, <1>3 DEF WorkStates
  <2> HIDE DEF n
  <2>3. Knows(n)
    BY <1>1, <2>2 DEF Knows
  <2> QED
    BY <1>4, <1>5, <1>9, <2>1, <2>3, WorkStep DEF n
<1> QED
  BY <1>6, <1>7, <1>8, <1>9, Zenon

\* The request leaves, is lost or refused, or is given up: the worker waits for
\* or reports an operation that stays queued.
LEMMA RequestInv ==
  ASSUME SyncInv, NEW w \in Procs,
         \/ Send(w) \/ Timeout(w)
         \/ \E m \in inflight : m.w = w /\ \E refused \in BOOLEAN : LoseRequest(m, refused)
  PROVE  SyncInv'
<1> DEFINE r == wk[w]
           Queued == r.op \in LocalOps /\ ob[r.op].st # "none"
<1>1. r \in WorkStates /\ Knows(r) /\ wk \in [Procs -> WorkStates]
  BY SMTT(30) DEF SyncInv, TypeOK, WorkInv
<1>2. r.pc \in {"mutate", "wait"} => Queued
  BY <1>1 DEF Knows
<1>3. /\ {"wait", "fail"} \subseteq Steps
      /\ {"none", "unknown", "permission_denied"} \subseteq Codes
  BY DEF Steps, PushSteps, Codes
<1>4. /\ UNCHANGED <<source, cache>> /\ faults' \in 0 .. MaxFaults
      /\ inflight' \subseteq inflight
           \cup (IF Send(w) THEN {[w |-> w, op |-> r.op, fence |-> r.fence]} ELSE {})
  BY FaultType, Zenon DEF Send, Timeout, LoseRequest, SyncInv, TypeOK
<1>5. Send(w) => Queued /\ [w |-> w, op |-> r.op, fence |-> r.fence] \in Mutations
  <2>1. Send(w) => Queued
    BY <1>2 DEF Send, At
  <2>2. r.fence \in Nat
    BY <1>1 DEF WorkStates
  <2> QED
    BY <2>1, <2>2 DEF Mutations
<1>6. inflight' \subseteq Mutations /\ \A m \in inflight' : ob[m.op].st # "none"
  <2>1. inflight \subseteq Mutations /\ \A m \in inflight : ob[m.op].st # "none"
    BY DEF SyncInv, TypeOK, WorkInv
  <2> QED
    BY <1>4, <1>5, <2>1
<1>7. \/ Goto(w, r)
      \/ Queued /\ \E e \in {"unknown", "permission_denied"} :
           Goto(w, [r EXCEPT !.pc = "fail", !.code = e])
      \/ Queued /\ Goto(w, [r EXCEPT !.pc = "wait"])
  <2>1. CASE Send(w)
    BY <1>5, <2>1 DEF Send
  <2>2. CASE Timeout(w)
    BY <1>2, <2>2 DEF Timeout, At
  <2>3. ASSUME NEW m \in inflight, m.w = w, NEW refused \in BOOLEAN, LoseRequest(m, refused)
        PROVE  \/ Goto(w, r)
               \/ Queued /\ Goto(w, [r EXCEPT !.pc = "fail", !.code = "permission_denied"])
    BY <1>1, <1>2, <2>3, Zenon DEF LoseRequest, Goto, Awaited, At
  <2> QED
    BY <2>1, <2>2, <2>3
<1> HIDE DEF r
<1>8. CASE Goto(w, r)
  BY <1>1, <1>4, <1>6, <1>8, WorkStep
<1>9. ASSUME Queued, NEW e \in {"unknown", "permission_denied"},
             Goto(w, [r EXCEPT !.pc = "fail", !.code = e])
      PROVE  SyncInv'
  <2> DEFINE n == [r EXCEPT !.pc = "fail", !.code = e]
  <2>1. n \in WorkStates
    BY <1>1, <1>3, WorkStateType, Zenon
  <2>2. n.pc = "fail" /\ n.op = r.op /\ n.code # "revision_conflict"
    BY <1>1 DEF WorkStates
  <2> HIDE DEF n
  <2>3. Knows(n)
    BY <1>9, <2>2 DEF Knows
  <2> QED
    BY <1>4, <1>6, <1>9, <2>1, <2>3, WorkStep DEF n
<1>10. ASSUME Queued, Goto(w, [r EXCEPT !.pc = "wait"])
       PROVE  SyncInv'
  <2> DEFINE n == [r EXCEPT !.pc = "wait"]
  <2>1. n \in WorkStates
    BY <1>1, <1>3, WorkStateType, Zenon
  <2>2. n.pc = "wait" /\ n.op = r.op
    BY <1>1 DEF WorkStates
  <2> HIDE DEF n
  <2>3. Knows(n)
    BY <1>10, <2>2 DEF Knows
  <2> QED
    BY <1>4, <1>6, <1>10, <2>1, <2>3, WorkStep DEF n
<1> QED
  BY <1>7, <1>8, <1>9, <1>10

\* Reading the checkpoint, a page of changes or a snapshot: the counters a
\* worker takes from them have been issued.
LEMMA ReadInv ==
  ASSUME SyncInv, NEW w \in Procs, Pull(w) \/ Changes(w) \/ SnapshotPage(w)
  PROVE  SyncInv'
<1>1. UNCHANGED <<source, cache>> /\ inflight' = inflight /\ faults' \in 0 .. MaxFaults
  BY DEF Pull, Changes, SnapshotPage, SyncInv, TypeOK
<1>2. inflight' \subseteq Mutations /\ \A m \in inflight' : ob[m.op].st # "none"
  BY <1>1 DEF SyncInv, TypeOK, WorkInv
<1>3. /\ wk[w] \in WorkStates /\ Knows(wk[w]) /\ wk[w].ctr \in Nat /\ PageLimit \in Nat
      /\ Len(chg) \in Nat /\ cpt.last \in 0 .. Len(chg) /\ srcRec \in [Keys -> 0 .. Len(chg)]
  BY SyncAssumption DEF SyncInv, TypeOK, WorkInv, SourceTypeOK, WorkStates
<1>4. /\ {"pullPause", "changes", "snapshot", "apply", "publish", "pull"} \subseteq Steps
      /\ "none" \in Codes
  BY DEF Steps, PullSteps, Codes
<1>5. NoWork \in WorkStates /\ Knows(NoWork)
  BY <1>4, FreshWork, Zenon
<1>6. ASSUME NEW p \in {"pullPause", "changes", "snapshot", "apply"}, NEW c \in Nat,
             c <= Len(chg), Goto(w, [NoWork EXCEPT !.pc = p, !.ctr = c])
      PROVE  SyncInv'
  <2> DEFINE n == [NoWork EXCEPT !.pc = p, !.ctr = c]
  <2>1. n \in WorkStates
    BY <1>4, <1>5, WorkStateType, Zenon
  <2>2. n.pc = p /\ n.ctr = c
    BY DEF NoWork
  <2> HIDE DEF n
  <2>3. Knows(n)
    BY <1>6, <2>2 DEF Knows
  <2> QED
    BY <1>1, <1>2, <1>6, <2>1, <2>3, WorkStep DEF n
<1>7. CASE Pull(w)
  <2>1. cpt.last \in Nat /\ cpt.last <= Len(chg)
    BY <1>3
  <2> QED
    BY <1>6, <1>7, <2>1, Zenon DEF Pull
<1>8. CASE Changes(w)
  <2>1. wk[w].ctr <= Len(chg)
    BY <1>3, <1>8 DEF Knows, Changes, At
  <2>2. PageEnd(wk[w].ctr, PageLimit) \in Nat /\ PageEnd(wk[w].ctr, PageLimit) <= Len(chg)
    BY <1>3, <2>1 DEF PageEnd
  <2>3. CASE CursorRetained(wk[w].ctr)
    BY <1>6, <1>8, <2>2, <2>3, Zenon DEF Changes
  <2>4. CASE ~CursorRetained(wk[w].ctr)
    BY <1>1, <1>2, <1>5, <1>8, <2>4, WorkStep DEF Changes
  <2> QED
    BY <2>3, <2>4
<1>9. CASE SnapshotPage(w)
  <2> DEFINE n == [NoWork EXCEPT !.pc = "publish", !.ctr = Len(chg), !.rows = srcRec]
  <2>1. n \in WorkStates
    <3>1. srcRec \in [Keys -> Nat]
      BY <1>3
    <3> QED
      BY <1>3, <1>4, <1>5, <3>1, Zenon DEF WorkStates
  <2>2. n.pc = "publish" /\ n.ctr = Len(chg) /\ n.rows = srcRec
    BY SMTT(30) DEF NoWork
  <2> HIDE DEF n
  <2>3. Knows(n)
    BY <1>3, <2>2 DEF Knows
  <2> QED
    BY <1>1, <1>2, <1>9, <2>1, <2>3, WorkStep DEF n, SnapshotPage
<1> QED
  BY <1>7, <1>8, <1>9

\* Types and parts of the invariant in one place.
LEMMA Parts ==
  ASSUME SyncInv
  PROVE  /\ CacheTypeOK /\ CacheInv
         /\ Len(chg) \in Nat /\ chg \in Seq(Events)
         /\ wk \in [Procs -> WorkStates] /\ faults \in 0 .. MaxFaults
         /\ \A k \in Keys : rec[k] \in Rows /\ srcRec[k] \in Nat
         /\ \A o \in LocalOps : ob[o] \in OutboxRows
         /\ \A o \in LocalOps : ob[o].st # "none" => ob[o].key \in Keys
         /\ \A o \in LocalOps : ob[o].st \in Open => rec[ob[o].key].st \in Dirty
<1>1. CacheTypeOK /\ CacheInv /\ wk \in [Procs -> WorkStates] /\ faults \in 0 .. MaxFaults
  BY DEF SyncInv, TypeOK, CacheTypeOK
<1>2. /\ Len(chg) \in Nat /\ chg \in Seq(Events)
      /\ \A k \in Keys : srcRec[k] \in Nat
  BY DEF SyncInv, SourceInv, SourceTypeOK
<1>3. \A o \in LocalOps : ob[o].st # "none" => ob[o].key \in Keys
  BY <1>1, Zenon DEF CacheInv, OpInv, Request, Requests
<1> QED
  BY <1>1, <1>2, <1>3 DEF CacheTypeOK, CacheInv, OpenOwns

-----------------------------------------------------------------------------
(* The feed: what the rows, the deferred events and the checkpoint know of   *)
(* the source's history.                                                     *)

\* Row r of key k was left by an event of k, and reflects none that is newer;
\* a clean row is that event.
RowFed(k, r) ==
  /\ r.sctr <= r.srev
  /\ r.srev # 0 => chg[r.srev].key = k
  /\ r.st = "clean" => /\ r.sctr \in 1 .. Len(chg) /\ r.srev = r.sctr
                       /\ chg[r.sctr].val = r.val /\ ~chg[r.sctr].del

\* An open operation was queued against the revision its row still has.
OpenBase == \A o \in LocalOps : ob[o].st \in Open => ob[o].pre = rec[ob[o].key].srev

\* The evidence of an open conflict is a later event of the operation's row.
Evidence ==
  \A o \in LocalOps : conf[o].st = "open" =>
    ob[o].pre < conf[o].ev /\ chg[conf[o].ev].key = ob[o].key

TablesFed == (\A k \in Keys : RowFed(k, rec[k])) /\ NoEventLost /\ OpenBase /\ Evidence

\* A worker's snapshot has, for every row, the last event up to its boundary, and
\* the evidence of a refusal is a later event of the refused operation's row.
Remembers(r) ==
  /\ r.pc = "publish" =>
       /\ \A c \in 1 .. r.ctr : c <= r.rows[chg[c].key]
       /\ \A k \in Keys : r.rows[k] # 0 => chg[r.rows[k]].key = k
  /\ r.pc = "fail" /\ r.code = "revision_conflict" =>
       ob[r.op].pre < r.ctr /\ chg[r.ctr].key = ob[r.op].key

FeedInv == TablesFed /\ \A w \in Procs : Remembers(wk[w])

\* The feed is only ever extended.
ChgGrows == Len(chg) <= Len(chg') /\ \A c \in 1 .. Len(chg) : chg'[c] = chg[c]

\* The empty tables of a new binding follow the empty feed.
LEMMA InitFeed == Init => FeedInv
<1> SUFFICES ASSUME Init PROVE FeedInv
  OBVIOUS
<1>1. /\ \A k \in Keys : rec[k] = NoRow
      /\ \A o \in LocalOps : ob[o].st = "none" /\ conf[o].st = "none"
      /\ cpt.last = 0 /\ deferred = {} /\ \A w \in Procs : wk[w] = NoWork
  BY DEF Init, CacheInit, NoOutboxRow
<1>2. \A k \in Keys : RowFed(k, rec[k])
  BY <1>1 DEF RowFed, NoRow
<1>3. NoEventLost /\ OpenBase /\ Evidence
  BY <1>1 DEF NoEventLost, OpenBase, Evidence, Open
<1>4. \A w \in Procs : Remembers(wk[w])
  <2>1. NoWork.pc = "idle"
    BY DEF NoWork
  <2> QED
    BY <1>1, <2>1 DEF Remembers
<1> QED
  BY <1>2, <1>3, <1>4 DEF FeedInv, TablesFed

\* What a row becomes when events of its key are applied to it: it reflects all
\* of them, and new content comes with a new local revision.
LEMMA EventsFeed ==
  ASSUME SourceTypeOK, NEW k \in Keys, NEW r \in Rows, NEW C \in SUBSET (1 .. Len(chg)),
         \A c \in C : chg[c].key = k
  PROVE  /\ ApplyEvents(r, C).sctr \in Nat /\ ApplyEvents(r, C).sctr >= r.sctr
         /\ \A c \in C : c <= ApplyEvents(r, C).sctr
         /\ \/ ApplyEvents(r, C) = r /\ \A c \in C : ~(c > r.sctr)
            \/ RowFed(k, ApplyEvents(r, C)) /\ ApplyEvents(r, C).lrev > r.lrev
<1> DEFINE new == {c \in C : c > r.sctr}
           n == ApplyEvents(r, C)
<1>0. Len(chg) \in Nat /\ chg \in Seq(Events) /\ r.sctr \in Nat /\ r.lrev \in Nat
  BY DEF SourceTypeOK, Rows
<1>1. CASE new = {}
  <2>1. n = r
    BY <1>1 DEF ApplyEvents
  <2>2. \A c \in C : ~(c > r.sctr)
    BY <1>1
  <2> HIDE DEF n
  <2>3. \A c \in C : c <= r.sctr
    BY <1>0, <2>2
  <2> QED
    BY <1>0, <2>1, <2>2, <2>3 DEF n
<1>2. CASE new # {}
  <2> DEFINE m == Latest(new)
             v == [st |-> CleanState(chg[m].del), val |-> chg[m].val, del |-> chg[m].del,
                   srev |-> m, sctr |-> m, lrev |-> r.lrev + Cardinality(new)]
  <2>1. new \in SUBSET (0 .. Len(chg))
    <3>1. 1 .. Len(chg) \subseteq 0 .. Len(chg)
      BY <1>0
    <3> QED
      BY <3>1, Zenon
  <2>2. m \in new /\ \A c \in new : c <= m
    BY <1>0, <1>2, <2>1, LatestIsLatest, Zenon
  <2>3. Cardinality(new) \in Nat /\ Cardinality(new) # 0
    <3>1. IsFiniteSet(0 .. Len(chg))
      BY <1>0, FS_Interval
    <3>2. IsFiniteSet(new)
      BY <2>1, <3>1, FS_Subset
    <3> QED
      BY <1>2, <3>2, FS_CardinalityType, FS_EmptySet, Zenon
  <2>4. m \in C /\ m > r.sctr /\ m \in 1 .. Len(chg) /\ chg[m].key = k
    BY <2>2, Zenon
  <2>5. n = v
    BY <1>2 DEF ApplyEvents
  <2>6. \A c \in C : c <= m
    <3> SUFFICES ASSUME NEW c \in C PROVE c <= m
      OBVIOUS
    <3>1. CASE c \in new
      BY <2>2, <3>1, Zenon
    <3>2. CASE ~(c > r.sctr)
      <4> HIDE DEF m
      <4> QED
        BY <1>0, <2>4, <3>2
    <3> QED
      BY <3>1, <3>2, Zenon
  <2> HIDE DEF new, m, n
  <2>7. /\ n.sctr = m /\ n.srev = m /\ n.val = chg[m].val /\ n.st = CleanState(chg[m].del)
        /\ n.lrev = r.lrev + Cardinality(new)
    BY <2>5
  <2>8. RowFed(k, n)
    BY <1>0, <2>4, <2>7 DEF RowFed, CleanState
  <2>9. n.lrev > r.lrev /\ n.sctr >= r.sctr /\ n.sctr \in Nat
    BY <1>0, <2>3, <2>4, <2>7
  <2> QED
    BY <2>6, <2>7, <2>8, <2>9 DEF n
<1> QED
  BY <1>1, <1>2

-----------------------------------------------------------------------------
(* Frames.                                                                   *)

\* Types of the counters.
LEMMA FeedTypes ==
  ASSUME SyncInv
  PROVE  /\ SourceTypeOK /\ Len(chg) \in Nat /\ cpt.last \in 0 .. Len(chg)
         /\ deferred \subseteq 1 .. Len(chg)
         /\ \A c \in 1 .. Len(chg) : chg[c] \in Events /\ chg[c].key \in Keys
         /\ \A k \in Keys : /\ rec[k] \in Rows /\ rec[k].sctr \in Nat /\ rec[k].srev \in Nat
                            /\ rec[k].lrev \in Nat /\ srcRec[k] \in 0 .. Len(chg)
                            /\ rec[k].srev <= srcRec[k]
         /\ \A o \in LocalOps : ob[o].pre \in Nat /\ conf[o].ev \in 0 .. Len(chg)
<1>1. /\ SourceTypeOK /\ Len(chg) \in Nat /\ cpt.last \in 0 .. Len(chg) /\ chg \in Seq(Events)
      /\ deferred \subseteq 1 .. Len(chg) /\ \A k \in Keys : rec[k] \in Rows
      /\ \A k \in Keys : srcRec[k] \in 0 .. Len(chg)
      /\ \A o \in LocalOps : ob[o] \in OutboxRows /\ conf[o].ev \in 0 .. Len(chg)
  BY DEF SyncInv, TypeOK, SourceTypeOK
<1>2. \A c \in 1 .. Len(chg) : chg[c] \in Events
  BY <1>1
<1>3. \A c \in 1 .. Len(chg) : chg[c].key \in Keys
  BY <1>2 DEF Events
<1>4. \A k \in Keys : /\ rec[k].sctr \in Nat /\ rec[k].srev \in Nat /\ rec[k].lrev \in Nat
                     /\ rec[k].srev <= srcRec[k]
  BY <1>1, SMTT(30) DEF Rows, SyncInv, CacheInv, RowInv
<1> QED
  BY <1>1, <1>2, <1>3, <1>4 DEF OutboxRows

\* What a worker remembers of the feed survives every step of the others.
LEMMA RemembersKept ==
  ASSUME SyncInv, ChgGrows, OpsKept, NEW w \in Procs, wk'[w] = wk[w], Remembers(wk[w])
  PROVE  Remembers(wk[w])'
<1> DEFINE r == wk[w]
<1>1. r \in WorkStates /\ Knows(r) /\ wk'[w] = r
  BY DEF SyncInv, WorkInv, TypeOK
<1>2. /\ Len(chg) \in Nat /\ srcRec \in [Keys -> 0 .. Len(chg)] /\ chg \in Seq(Events)
      /\ r.ctr \in Nat /\ r.rows \in [Keys -> Nat]
  BY <1>1 DEF SyncInv, SourceInv, SourceTypeOK, WorkStates
<1> HIDE DEF r
<1>3. ASSUME r.pc = "publish"
      PROVE  /\ \A c \in 1 .. r.ctr : c <= r.rows[chg'[c].key]
             /\ \A k \in Keys : r.rows[k] # 0 => chg'[r.rows[k]].key = k
  <2>1. /\ r.ctr <= Len(chg) /\ \A k \in Keys : r.rows[k] <= srcRec[k]
        /\ \A c \in 1 .. r.ctr : c <= r.rows[chg[c].key]
        /\ \A k \in Keys : r.rows[k] # 0 => chg[r.rows[k]].key = k
    BY <1>1, <1>3 DEF Knows, Remembers, r
  <2>2. \A c \in 1 .. r.ctr : chg'[c] = chg[c]
    BY <1>2, <2>1 DEF ChgGrows
  <2>3. \A k \in Keys : r.rows[k] # 0 => chg'[r.rows[k]] = chg[r.rows[k]]
    BY <1>2, <2>1, SMTT(30) DEF ChgGrows
  <2> QED
    BY <2>1, <2>2, <2>3, Zenon
<1>4. ASSUME r.pc = "fail", r.code = "revision_conflict"
      PROVE  ob'[r.op].pre < r.ctr /\ chg'[r.ctr].key = ob'[r.op].key
  <2>1. /\ r.op \in LocalOps /\ ob[r.op].st # "none" /\ r.ctr <= srcRec[ob[r.op].key]
        /\ ob[r.op].pre < r.ctr /\ chg[r.ctr].key = ob[r.op].key
    BY <1>1, <1>4, Zenon DEF Knows, Remembers, r
  <2>2. ob[r.op].key \in Keys /\ ob[r.op].pre \in Nat
    BY <2>1, Parts, SMTT(30) DEF OutboxRows
  <2>3. r.ctr \in 1 .. Len(chg)
    <3>1. /\ srcRec[ob[r.op].key] \in 0 .. Len(chg) /\ r.ctr <= srcRec[ob[r.op].key]
          /\ ob[r.op].pre < r.ctr /\ ob[r.op].pre \in Nat /\ r.ctr \in Nat /\ Len(chg) \in Nat
      BY <1>2, <2>1, <2>2, Zenon
    <3> QED
      BY <3>1
  <2>4. ob'[r.op].pre = ob[r.op].pre /\ ob'[r.op].key = ob[r.op].key
    BY <2>1, Zenon DEF OpsKept, Request
  <2> QED
    BY <2>1, <2>3, <2>4 DEF ChgGrows
<1> QED
  BY <1>1, <1>3, <1>4 DEF Remembers

\* The invariant of the next state: the tables follow the feed, and each worker's
\* memory is old or checked.
LEMMA FeedStep ==
  ASSUME SyncInv, FeedInv, ChgGrows, OpsKept, TablesFed',
         \A w \in Procs : wk'[w] = wk[w] \/ Remembers(wk[w])'
  PROVE  FeedInv'
BY RemembersKept DEF FeedInv

\* Rows, queue and conflicts stay true of a feed that is extended.
LEMMA FeedExtends ==
  ASSUME SyncInv, TablesFed, ChgGrows, Len(chg') \in Nat, UNCHANGED cache
  PROVE  TablesFed' /\ OpsKept
<1>1. rec' = rec /\ ob' = ob /\ cpt' = cpt /\ deferred' = deferred /\ conf' = conf
  BY DEF cache
<1>2. /\ Len(chg) \in Nat /\ cpt.last \in 0 .. Len(chg) /\ deferred \subseteq 1 .. Len(chg)
      /\ \A o \in LocalOps : ob[o].pre \in Nat /\ conf[o].ev \in 0 .. Len(chg)
  BY FeedTypes
<1>3. OpsKept
  BY <1>1, SMTT(30) DEF OpsKept, Request
<1>4. ASSUME NEW k \in Keys
      PROVE  RowFed(k, rec[k])'
  <2>1. /\ rec[k].srev \in Nat /\ rec[k].sctr \in Nat /\ rec[k].srev <= srcRec[k]
        /\ srcRec[k] \in 0 .. Len(chg) /\ RowFed(k, rec[k])
    BY FeedTypes DEF TablesFed
  <2>2. rec[k].srev # 0 => rec[k].srev \in 1 .. Len(chg)
    BY <1>2, <2>1
  <2> QED
    BY <1>1, <1>2, <2>1, <2>2 DEF RowFed, ChgGrows
<1>5. NoEventLost'
  <2>1. \A c \in 1 .. cpt.last : chg'[c] = chg[c]
    BY <1>2 DEF ChgGrows
  <2>2. \A c \in deferred : chg'[c] = chg[c]
    BY <1>2 DEF ChgGrows
  <2> QED
    BY <1>1, <2>1, <2>2 DEF TablesFed, NoEventLost
<1>6. OpenBase'
  BY <1>1 DEF TablesFed, OpenBase
<1>7. Evidence'
  <2> SUFFICES ASSUME NEW o \in LocalOps, conf[o].st = "open"
               PROVE  ob[o].pre < conf[o].ev /\ chg'[conf[o].ev].key = ob[o].key
    BY <1>1 DEF Evidence
  <2>1. ob[o].pre < conf[o].ev /\ chg[conf[o].ev].key = ob[o].key /\ ob[o].pre \in Nat
    BY <1>2 DEF TablesFed, Evidence
  <2>2. conf[o].ev \in 1 .. Len(chg)
    BY <1>2, <2>1
  <2> QED
    BY <2>1, <2>2 DEF ChgGrows
<1> QED
  BY <1>3, <1>4, <1>5, <1>6, <1>7 DEF TablesFed

\* A transaction that leaves the feed and what rows have taken from it alone.
LEMMA FeedIdle ==
  ASSUME SyncInv, TablesFed, UNCHANGED source, CacheInv', OpsKept,
         deferred' = deferred, cpt'.last = cpt.last,
         \A k \in Keys : \/ rec'[k] = rec[k]
                         \/ /\ rec'[k].sctr = rec[k].sctr /\ rec'[k].srev = rec[k].srev
                            /\ rec'[k].st \in Dirty,
         \A o \in LocalOps : ob'[o].st \in Open =>
           ob[o].st \in Open \/ ob'[o].pre = rec'[ob'[o].key].srev,
         Evidence'
  PROVE  TablesFed'
<1>1. chg' = chg
  BY DEF source
<1>2. /\ TablesFed /\ NoEventLost /\ OpenBase /\ deferred \subseteq 1 .. Len(chg)
      /\ Len(chg) \in Nat /\ cpt.last \in 0 .. Len(chg)
  BY FeedTypes, SMTT(30) DEF TablesFed
<1>3. ASSUME NEW k \in Keys
      PROVE  RowFed(k, rec[k])'
  BY <1>1, <1>2 DEF TablesFed, RowFed, Dirty
<1>4. \A c \in 1 .. Len(chg) : chg[c].key \in Keys
  BY FeedTypes
<1>5. NoEventLost'
  <2>1. ASSUME NEW c \in 1 .. cpt.last
        PROVE  c <= rec'[chg[c].key].sctr \/ c \in deferred
    <3>1. chg[c].key \in Keys /\ (c <= rec[chg[c].key].sctr \/ c \in deferred)
      BY <1>2, <1>4 DEF NoEventLost
    <3> QED
      BY <3>1
  <2>2. ASSUME NEW c \in deferred
        PROVE  c <= cpt.last /\ rec'[chg[c].key].st \in Dirty
    BY <1>2, <1>4 DEF NoEventLost
  <2> QED
    BY <1>1, <2>1, <2>2 DEF NoEventLost
<1>6. OpenBase'
  <2> SUFFICES ASSUME NEW o \in LocalOps, ob'[o].st \in Open, ob[o].st \in Open
               PROVE  ob'[o].pre = rec'[ob'[o].key].srev
    BY DEF OpenBase
  <2>1. ob[o].st # "none" /\ ob[o].key \in Keys
    BY Parts DEF Open
  <2>2. ob'[o].key = ob[o].key /\ ob'[o].pre = ob[o].pre
    BY <2>1, Zenon DEF OpsKept, Request
  <2> QED
    BY <1>2, <2>1, <2>2 DEF OpenBase
<1> QED
  BY <1>3, <1>5, <1>6 DEF TablesFed

\* Conflicts that are not opened by the step keep their evidence.
LEMMA EvidenceKept ==
  ASSUME SyncInv, TablesFed, UNCHANGED source, OpsKept, NEW o \in LocalOps,
         conf[o].st = "open", conf'[o].ev = conf[o].ev
  PROVE  ob'[o].pre < conf'[o].ev /\ chg'[conf'[o].ev].key = ob'[o].key
<1>1. ob[o].st # "none"
  BY DEF SyncInv, CacheInv, VerdictInv
<1>2. ob'[o].key = ob[o].key /\ ob'[o].pre = ob[o].pre
  BY <1>1, Zenon DEF OpsKept, Request
<1> QED
  BY <1>2 DEF TablesFed, Evidence, source

-----------------------------------------------------------------------------
(* The transactions of the store.                                            *)

\* New content of a row comes with a new local revision.
Revised == \A k \in Keys : <<rec'[k].val, rec'[k].del>> # <<rec[k].val, rec[k].del>>
                             => rec'[k].lrev > rec[k].lrev

\* Settled operations stay settled, and a conflict is left by resolve only.
VerdictsKept ==
  \A o \in LocalOps :
    /\ ob[o].st \in {"acknowledged", "blocked", "resolved"} => ob'[o].st = ob[o].st
    /\ ob[o].st = "conflict" => ob'[o].st \in {"conflict", "resolved"}

=============================================================================
