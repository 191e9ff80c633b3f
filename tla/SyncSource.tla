------------------------------ MODULE SyncSource ------------------------------
(***************************************************************************)
(* The controlled PostgreSQL source of a synchronization binding           *)
(* (priv/sql/noizu_mcp_sync.sql, the source_ functions), reached through   *)
(* Noizu.MCP.Sync.RevisionedDataset.                                       *)
(*                                                                         *)
(* Every function of the source is one short transaction that locks the    *)
(* binding's source_heads row first, so each is one atomic step here.      *)
(* The four tables are written by one statement list from one `result`     *)
(* object, which is why a row is represented by the number of the change   *)
(* event that wrote it:                                                    *)
(*   chg         source_changes: chg[c] is the event with counter c;       *)
(*               source_heads.counter is Len(chg);                         *)
(*   srcRec[k]   source_records: the counter of k's row, 0 when k has no   *)
(*               row; payload, revision and deleted are those of the event;*)
(*   srcOps[o]   source_operations: the counter of the remembered outcome, *)
(*               0 when o is unknown, and the request that was hashed;     *)
(*   retained    source_heads.retained_after.                              *)
(* A revision is a fresh random UUID per event: the event's counter stands *)
(* for it, and 0 stands for "absent" (no revision).  A payload is named by *)
(* the operation that first carried it.                                    *)
(***************************************************************************)
EXTENDS Integers, Sequences, FiniteSets

CONSTANTS Keys,    \* resource keys of the binding
          Ops,     \* operation ids
          None     \* SQL NULL: no payload, no key, no request

ASSUME NoneAssumption == None \notin Keys /\ None \notin Ops

VARIABLES chg, srcRec, srcOps, retained

source == <<chg, srcRec, srcOps, retained>>

Kinds == {"create", "update", "delete"}

\* The bodies of sync/mutate that pass validation: a create carries
\* {"absent":true}, an update or a delete a non-empty revision.
Requests == {q \in [op : Ops, key : Keys, kind : Kinds, pre : Nat, val : Ops \cup {None}] :
               /\ (q.kind = "create") <=> (q.pre = 0)
               /\ q.kind # "delete" => q.val # None}

Events == [key : Keys, val : Ops \cup {None}, del : BOOLEAN, op : Ops]

SourceInit == /\ chg = <<>>
              /\ srcRec = [k \in Keys |-> 0]
              /\ srcOps = [o \in Ops |-> [ctr |-> 0, hash |-> None]]
              /\ retained = 0

-----------------------------------------------------------------------------

\* Mutant: any present row satisfies an update or a delete.
CasHoldsAnyRevision(q) == IF q.kind = "create" THEN srcRec[q.key] = 0
                                               ELSE srcRec[q.key] # 0

\* The compare-and-set of source_mutate: a create needs that no row exists
\* (a tombstone is a row), every other kind the row's current revision.
CasHolds(q) == IF q.kind = "create" THEN srcRec[q.key] = 0
                                    ELSE srcRec[q.key] # 0 /\ srcRec[q.key] = q.pre

\* Mutant: the compare-and-set is decided before the remembered outcome.
MutateAnswerCasFirst(q) == IF CasHolds(q) THEN "ok" ELSE "revision_conflict"

\* How source_mutate answers request q: "ok" with the outcome (the remembered
\* one when the operation id is known with the same request hash).
MutateAnswer(q) ==
  CASE srcOps[q.op].ctr # 0 /\ srcOps[q.op].hash # q -> "idempotency_mismatch"
    [] srcOps[q.op].ctr # 0 /\ srcOps[q.op].hash = q -> "ok"
    [] srcOps[q.op].ctr = 0 /\ CasHolds(q)           -> "ok"
    [] OTHER                                         -> "revision_conflict"

\* The counter of the outcome that an "ok" answer carries.
MutateOutcome(q) == IF srcOps[q.op].ctr # 0 THEN srcOps[q.op].ctr ELSE Len(chg) + 1

\* Mutant: the outcome is not remembered with the row and the change event.
CommitForgetful(q) ==
  /\ chg' = Append(chg, [key |-> q.key, del |-> q.kind = "delete", op |-> q.op,
                         val |-> IF q.kind = "delete" THEN None ELSE q.val])
  /\ srcRec' = [srcRec EXCEPT ![q.key] = Len(chg) + 1]
  /\ UNCHANGED <<srcOps, retained>>

\* Mutant: the row is stamped with a counter the log has not reached.
CommitAhead(q) ==
  /\ chg' = Append(chg, [key |-> q.key, del |-> q.kind = "delete", op |-> q.op,
                         val |-> IF q.kind = "delete" THEN None ELSE q.val])
  /\ srcRec' = [srcRec EXCEPT ![q.key] = Len(chg) + 2]
  /\ srcOps' = [srcOps EXCEPT ![q.op] = [ctr |-> Len(chg) + 1, hash |-> q]]
  /\ UNCHANGED retained

\* The writes of a successful source_mutate: head, row, change event and
\* remembered outcome in one transaction.
Commit(q) ==
  /\ chg' = Append(chg, [key |-> q.key, del |-> q.kind = "delete", op |-> q.op,
                         val |-> IF q.kind = "delete" THEN None ELSE q.val])
  /\ srcRec' = [srcRec EXCEPT ![q.key] = Len(chg) + 1]
  /\ srcOps' = [srcOps EXCEPT ![q.op] = [ctr |-> Len(chg) + 1, hash |-> q]]
  /\ UNCHANGED retained

\* source_mutate: a known operation id is answered without a second effect,
\* whatever its hash; an unknown one is applied exactly when its CAS holds.
source_mutate(q) ==
  IF srcOps[q.op].ctr = 0 /\ CasHolds(q) THEN Commit(q) ELSE UNCHANGED source

\* Mutant: a page stops short of the newest event.
PageEndExclusive(cursor, limit) ==
  IF cursor + limit < Len(chg) THEN cursor + limit
  ELSE IF cursor < Len(chg) THEN Len(chg) - 1 ELSE cursor

\* source_changes: a cursor behind the retention boundary is refused, a page
\* ends at most `limit` events further on.
CursorRetained(cursor) == cursor >= retained
PageEnd(cursor, limit) == IF cursor + limit < Len(chg) THEN cursor + limit ELSE Len(chg)

\* Retention: the host deletes change events up to r and moves the boundary.
Prune(r) == /\ r \in retained + 1 .. Len(chg)
            /\ retained' = r
            /\ UNCHANGED <<chg, srcRec, srcOps>>

-----------------------------------------------------------------------------

\* One mutation request: clients know only revisions that were issued, and may
\* repeat, delay or rephrase a request under an operation id.
Mutate(o, k, kind, pre, v) ==
  LET q == [op |-> o, key |-> k, kind |-> kind, pre |-> pre, val |-> v]
  IN  q \in Requests /\ source_mutate(q)

SourceNext ==
  \/ \E o \in Ops, k \in Keys, kind \in Kinds, pre \in 0 .. Len(chg) : Mutate(o, k, kind, pre, o)
  \/ \E r \in 1 .. Len(chg) : Prune(r)

SourceSpec == SourceInit /\ [][SourceNext]_source

-----------------------------------------------------------------------------

SourceTypeOK ==
  /\ chg \in Seq(Events)
  /\ srcRec \in [Keys -> 0 .. Len(chg)]
  /\ srcOps \in [Ops -> [ctr : 0 .. Len(chg), hash : Requests \cup {None}]]
  /\ retained \in 0 .. Len(chg)

\* An operation id has at most one effect: however often and in whatever
\* wording a mutation is delivered, it produces one change event.
EffectOnce == \A c, d \in 1 .. Len(chg) : chg[c].op = chg[d].op => c = d

\* No lost update: the mutation behind every change event was decided against
\* the version of its row that the event replaced; a create against no version.
CasChain ==
  \A c \in 1 .. Len(chg) :
    LET q == srcOps[chg[c].op].hash
    IN  /\ q \in Requests /\ q.key = chg[c].key /\ q.pre < c
        /\ q.pre # 0 => chg[q.pre].key = q.key
        /\ \A d \in q.pre + 1 .. c - 1 : chg[d].key # q.key

\* The remembered outcome of an operation is the event it produced, and the row
\* of a key is the last event of that key: the tables of the source agree.
TablesAgree ==
  /\ \A o \in Ops : srcOps[o].ctr # 0 => chg[srcOps[o].ctr].op = o
  /\ \A c \in 1 .. Len(chg) : srcOps[chg[c].op].ctr = c
  /\ \A k \in Keys : srcRec[k] # 0 => chg[srcRec[k]].key = k
  /\ \A c \in 1 .. Len(chg) : c <= srcRec[chg[c].key]

=============================================================================
