--------------------------- MODULE PgInsertProofs ---------------------------
(***************************************************************************)
(* Proofs about PgInsert, for every LOG_CAP, every set of statements, tool *)
(* definitions and results: the call log is the newest part of what was    *)
(* completed, and the audit table holds what committed transactions owed   *)
(* it.  Neither is inductive alone.  The log needs that the history is a   *)
(* sequence; the audit table needs that the rows waiting in the open       *)
(* transaction are the rows owed, and that none wait outside of one.       *)
(* RowsInv adds the rows of the statement that runs: which were called and *)
(* what they returned.                                                     *)
(***************************************************************************)
EXTENDS PgInsert, SequenceTheorems, TLAPS

\* A sequence of whatever elements.
IsSeq(s) == Len(s) \in Nat /\ s = [i \in 1 .. Len(s) |-> s[i]]

InsertInv ==
    /\ DOMAIN wire = {"done", "owed", "kept"}
    /\ DOMAIN txn = {"state", "pending"}
    /\ IsSeq(wire.done)
    /\ LogIsRecent
    /\ AuditExact
    /\ txn.pending = wire.owed
    /\ txn.state = "none" => wire.owed = <<>>
    /\ "stage" \in DOMAIN stmt
    /\ stmt.stage # "idle" => txn.state = "open"

-----------------------------------------------------------------------------
\* A sequence over a set is a sequence.
LEMMA SeqIsSeq ==
    ASSUME NEW S, NEW s \in Seq(S)
    PROVE  IsSeq(s)
BY LenProperties DEF IsSeq

\* Appending to a sequence of any elements.
LEMMA AppendIsSeq ==
    ASSUME NEW s, IsSeq(s), NEW e
    PROVE  /\ IsSeq(Append(s, e))
           /\ Len(Append(s, e)) = Len(s) + 1
           /\ \A i \in 1 .. Len(s) : Append(s, e)[i] = s[i]
           /\ Append(s, e)[Len(s) + 1] = e
<1> DEFINE S == {s[i] : i \in 1 .. Len(s)} \cup {e}
<1>1. s \in Seq(S)
  <2>1. \A i \in 1 .. Len(s) : s[i] \in S
    OBVIOUS
  <2>2. [i \in 1 .. Len(s) |-> s[i]] \in [1 .. Len(s) -> S]
    BY <2>1
  <2> HIDE DEF S
  <2> QED
    BY <2>2 DEF IsSeq
<1>2. e \in S
  OBVIOUS
<1> HIDE DEF S
<1>3. Append(s, e) \in Seq(S)
  BY <1>1, <1>2, AppendProperties
<1>4. IsSeq(Append(s, e))
  BY <1>3, SeqIsSeq, Zenon
<1> QED
  BY <1>1, <1>2, <1>4, AppendProperties

\* Two sequences of the same length with the same elements are equal.
LEMMA SameElements ==
    ASSUME NEW s, NEW t, IsSeq(s), IsSeq(t), Len(s) = Len(t),
           \A i \in 1 .. Len(s) : s[i] = t[i]
    PROVE  s = t
BY DEF IsSeq

\* A stretch of a sequence of any elements.
LEMMA SubSeqIsSeq ==
    ASSUME NEW s, IsSeq(s), NEW m \in Nat \ {0}, NEW n \in Nat, m <= n + 1, n <= Len(s)
    PROVE  /\ IsSeq(SubSeq(s, m, n))
           /\ Len(SubSeq(s, m, n)) = n - m + 1
           /\ \A i \in 1 .. (n - m + 1) : SubSeq(s, m, n)[i] = s[m + i - 1]
<1> DEFINE S == {s[i] : i \in 1 .. Len(s)}
<1>1. \A i \in m .. n : s[i] \in S
  <2>1. Len(s) \in Nat
    BY DEF IsSeq
  <2>2. \A i \in m .. n : i \in 1 .. Len(s)
    BY <2>1
  <2> QED
    BY <2>2, Zenon
<1> HIDE DEF S
<1>2. m \in Int /\ n \in Int /\ (IF m <= n THEN n - m + 1 ELSE 0) = n - m + 1
  OBVIOUS
<1>3. /\ SubSeq(s, m, n) \in Seq(S)
      /\ Len(SubSeq(s, m, n)) = IF m <= n THEN n - m + 1 ELSE 0
      /\ \A i \in 1 .. (n - m + 1) : SubSeq(s, m, n)[i] = s[m + i - 1]
  BY <1>1, <1>2, SubSeqProperties
<1>4. IsSeq(SubSeq(s, m, n))
  BY <1>3, SeqIsSeq, Zenon
<1> QED
  BY <1>2, <1>3, <1>4, Zenon

\* Tail is the stretch from the second element on.
LEMMA TailIsSeq ==
    ASSUME NEW s, IsSeq(s), Len(s) > 0
    PROVE  /\ IsSeq(Tail(s))
           /\ Len(Tail(s)) = Len(s) - 1
           /\ \A i \in 1 .. (Len(s) - 1) : Tail(s)[i] = s[i + 1]
<1> DEFINE S == {s[i] : i \in 1 .. Len(s)}
<1>1. s \in Seq(S)
  <2>1. [i \in 1 .. Len(s) |-> s[i]] \in [1 .. Len(s) -> S]
    OBVIOUS
  <2> HIDE DEF S
  <2> QED
    BY <2>1 DEF IsSeq
<1> HIDE DEF S
<1>2. s # <<>> /\ Len(s) \in Nat
  BY <1>1 DEF IsSeq
<1>3. Tail(s) \in Seq(S)
  BY <1>1, <1>2, HeadTailProperties
<1>4. IsSeq(Tail(s))
  BY <1>3, SeqIsSeq, Zenon
<1> QED
  BY <1>1, <1>2, <1>4, HeadTailProperties

\* record keeps a log that holds the newest entries at the newest entries: the
\* one step of the ring buffer.
LEMMA RecordKeepsRecent ==
    ASSUME NEW done, IsSeq(done), NEW rec
    PROVE  record(Recent(done, LOG_CAP), rec) = Recent(Append(done, rec), LOG_CAP)
<1> DEFINE L == Len(done)
           old == Recent(done, LOG_CAP)
           longer == Append(done, rec)
<1>0. L \in Nat /\ LOG_CAP \in Nat /\ LOG_CAP > 0
  BY LogCapAssumption DEF IsSeq
<1>1. /\ IsSeq(longer) /\ Len(longer) = L + 1
      /\ \A i \in 1 .. L : longer[i] = done[i]
      /\ longer[L + 1] = rec
  BY AppendIsSeq
<1>2. CASE L <= LOG_CAP
  <2>1. old = done
    BY <1>2 DEF Recent
  <2>2. CASE L + 1 <= LOG_CAP
    BY <1>0, <1>1, <2>1, <2>2 DEF record, Recent
  <2>3. CASE L = LOG_CAP
    <3> DEFINE t == Tail(longer)
               r == SubSeq(longer, 2, L + 1)
    <3>1. IsSeq(t) /\ Len(t) = L /\ \A i \in 1 .. L : t[i] = longer[i + 1]
      <4> HIDE DEF longer
      <4> QED
        BY <1>0, <1>1, TailIsSeq
    <3>2. IsSeq(r) /\ Len(r) = L /\ \A i \in 1 .. L : r[i] = longer[i + 1]
      <4>1. IsSeq(SubSeq(longer, 2, L + 1)) /\ Len(SubSeq(longer, 2, L + 1)) = (L + 1) - 2 + 1
            /\ \A i \in 1 .. ((L + 1) - 2 + 1) : SubSeq(longer, 2, L + 1)[i] = longer[2 + i - 1]
        <5> HIDE DEF longer
        <5>1. 2 \in Nat \ {0} /\ L + 1 \in Nat /\ 2 <= (L + 1) + 1 /\ L + 1 <= Len(longer)
          BY <1>0, <1>1, <2>3
        <5> QED
          BY <1>1, <5>1, SubSeqIsSeq
      <4> QED
        BY <1>0, <4>1
    <3>3. t = r
      <4> HIDE DEF t, r
      <4> QED
        BY <3>1, <3>2, SameElements
    <3>4. record(old, rec) = t
      BY <1>0, <1>1, <2>1, <2>3 DEF record
    <3>5. Recent(longer, LOG_CAP) = r
      BY <1>0, <1>1, <2>3 DEF Recent
    <3> QED
      BY <3>3, <3>4, <3>5
  <2> QED
    BY <1>0, <1>2, <2>2, <2>3
<1>3. CASE L > LOG_CAP
  <2> DEFINE N == LOG_CAP
             r == SubSeq(longer, L + 1 - N + 1, L + 1)
             more == Append(old, rec)
             t == Tail(more)
  <2>1. old = SubSeq(done, L - N + 1, L)
    BY <1>0, <1>3 DEF Recent
  <2>2. IsSeq(old) /\ Len(old) = N /\ \A i \in 1 .. N : old[i] = done[L - N + i]
    <3>1. L - N + 1 \in Nat \ {0} /\ L - N + 1 <= L + 1 /\ L <= Len(done)
      BY <1>0, <1>3
    <3>2. /\ IsSeq(SubSeq(done, L - N + 1, L))
          /\ Len(SubSeq(done, L - N + 1, L)) = L - (L - N + 1) + 1
          /\ \A i \in 1 .. (L - (L - N + 1) + 1) :
               SubSeq(done, L - N + 1, L)[i] = done[(L - N + 1) + i - 1]
      BY <1>0, <3>1, SubSeqIsSeq
    <3>3. L - (L - N + 1) + 1 = N /\ \A i \in 1 .. N : (L - N + 1) + i - 1 = L - N + i
      BY <1>0
    <3> HIDE DEF old
    <3> QED
      BY <2>1, <3>2, <3>3, Zenon
  <2>3. /\ IsSeq(more) /\ Len(more) = N + 1
        /\ \A i \in 1 .. N : more[i] = old[i]
        /\ more[N + 1] = rec
    <3> HIDE DEF old
    <3> QED
      BY <2>2, AppendIsSeq
  <2>4. IsSeq(t) /\ Len(t) = N /\ \A i \in 1 .. N : t[i] = more[i + 1]
    <3> HIDE DEF more
    <3> QED
      BY <1>0, <2>3, TailIsSeq
  <2>5. IsSeq(r) /\ Len(r) = N /\ \A i \in 1 .. N : r[i] = longer[L - N + i + 1]
    <3>1. L + 1 - N + 1 \in Nat \ {0} /\ L + 1 - N + 1 <= (L + 1) + 1 /\ L + 1 <= Len(longer)
          /\ L + 1 \in Nat
      <4> HIDE DEF longer
      <4> QED
        BY <1>0, <1>1, <1>3
    <3>2. /\ IsSeq(r)
          /\ Len(r) = (L + 1) - (L + 1 - N + 1) + 1
          /\ \A i \in 1 .. ((L + 1) - (L + 1 - N + 1) + 1) :
               r[i] = longer[(L + 1 - N + 1) + i - 1]
      <4> HIDE DEF longer
      <4> QED
        BY <1>1, <3>1, SubSeqIsSeq, SMTT(30)
    <3>3. (L + 1) - (L + 1 - N + 1) + 1 = N
          /\ \A i \in 1 .. N : (L + 1 - N + 1) + i - 1 = L - N + i + 1
      BY <1>0
    <3> HIDE DEF r
    <3> QED
      BY <3>2, <3>3, Zenon
  <2>6. \A i \in 1 .. N : t[i] = r[i]
    <3> SUFFICES ASSUME NEW i \in 1 .. N PROVE t[i] = r[i]
      BY Zenon
    <3> HIDE DEF t, r, more, longer, old
    <3>1. CASE i = N
      BY <1>0, <1>1, <1>3, <2>3, <2>4, <2>5, <3>1
    <3>2. CASE i < N
      <4>1. i + 1 \in 1 .. N /\ L - N + i + 1 \in 1 .. L /\ L - N + (i + 1) = L - N + i + 1
        BY <1>0, <1>3, <3>2
      <4>2. t[i] = more[i + 1] /\ more[i + 1] = old[i + 1]
            /\ old[i + 1] = done[L - N + (i + 1)]
        BY <2>2, <2>3, <2>4, <4>1
      <4>3. r[i] = longer[L - N + i + 1] /\ longer[L - N + i + 1] = done[L - N + i + 1]
        BY <1>1, <2>5, <4>1
      <4> QED
        BY <4>1, <4>2, <4>3
    <3> QED
      BY <1>0, <3>1, <3>2
  <2>7. t = r
    <3> HIDE DEF t, r
    <3> QED
      BY <2>4, <2>5, <2>6, SameElements
  <2>8. record(old, rec) = t
    <3> HIDE DEF old
    <3> QED
      BY <1>0, <2>3 DEF record
  <2>9. Recent(longer, LOG_CAP) = r
    <3> HIDE DEF longer
    <3> QED
      BY <1>0, <1>1, <1>3 DEF Recent
  <2> QED
    BY <2>7, <2>8, <2>9, Zenon
<1> QED
  BY <1>0, <1>2, <1>3

-----------------------------------------------------------------------------
\* Nothing is completed, logged, owed or waiting at first.
LEMMA InitInv == Init => InsertInv
<1> SUFFICES ASSUME Init PROVE InsertInv
  OBVIOUS
<1>1. wire = [done |-> <<>>, owed |-> <<>>, kept |-> <<>>] /\ stmt = NoStmt
      /\ txn = [state |-> "none", pending |-> <<>>] /\ audit = <<>> /\ log = <<>>
  BY DEF Init
<1>2. IsSeq(<<>>) /\ Len(<<>>) = 0
  BY EmptySeq, SeqIsSeq, Zenon
<1>3. LOG_CAP \in Nat
  BY LogCapAssumption
<1>4. LogIsRecent
  BY <1>1, <1>2, <1>3 DEF LogIsRecent, Recent
<1> QED
  BY <1>1, <1>2, <1>4 DEF InsertInv, AuditExact, NoStmt

\* A refused row or a failed call drops the rows waiting with the rows owed.
LEMMA RefuseInv ==
    ASSUME InsertInv, NEW s, "stage" \in DOMAIN s, NEW err, Refuse(s, err),
           UNCHANGED <<audit, log>>
    PROVE  InsertInv'
<1>1. txn' = [state |-> "failed", pending |-> <<>>] /\ wire' = [wire EXCEPT !.owed = <<>>]
  BY DEF Refuse
<1>2. DOMAIN wire = {"done", "owed", "kept"}
  BY DEF InsertInv
<1>3. /\ DOMAIN wire' = {"done", "owed", "kept"}
      /\ wire'.owed = <<>> /\ wire'.done = wire.done /\ wire'.kept = wire.kept
  BY <1>1, <1>2
<1>4. "stage" \in DOMAIN stmt' /\ stmt'.stage = "idle"
  BY DEF Refuse
<1> QED
  BY <1>1, <1>3, <1>4 DEF InsertInv, LogIsRecent, AuditExact

\* A step that leaves the transaction, the log, the audit table and the history
\* alone, and works on a statement only in an open transaction.
LEMMA SameInv ==
    ASSUME InsertInv, UNCHANGED <<txn, audit, log, wire>>,
           "stage" \in DOMAIN stmt', stmt'.stage # "idle" => txn.state = "open"
    PROVE  InsertInv'
BY DEF InsertInv, LogIsRecent, AuditExact

\* A completed tool_calls row is recorded in the log and then, when its server
\* has an audit table, waits in the transaction as it is owed.
LEMMA CompletedInv ==
    ASSUME InsertInv, NEW r, Completed(r)
    PROVE  InsertInv'
<1> DEFINE rec == CallRecord(r)
           owed == IF stmt.audit = "set" THEN <<rec>> ELSE <<>>
           done == wire.done
<1>1. /\ DOMAIN wire = {"done", "owed", "kept"} /\ DOMAIN txn = {"state", "pending"}
      /\ IsSeq(done) /\ log = Recent(done, LOG_CAP) /\ audit = wire.kept
      /\ txn.pending = wire.owed
  BY DEF InsertInv, LogIsRecent, AuditExact
<1>2. log' = record(log, rec) /\ audit' = audit
  BY DEF Completed
<1>3. \/ /\ txn' = [state |-> "failed", pending |-> <<>>]
         /\ wire' = [wire EXCEPT !.done = Append(done, rec), !.owed = <<>>]
      \/ /\ txn' = [txn EXCEPT !.pending = txn.pending \o owed]
         /\ wire' = [wire EXCEPT !.done = Append(done, rec), !.owed = wire.owed \o owed]
  BY Zenon DEF Completed
<1>4. txn.state = "open" /\ "stage" \in DOMAIN stmt
  BY DEF InsertInv, Completed
<1>5. "stage" \in DOMAIN stmt' /\ (stmt'.stage # "idle" => txn'.state = "open")
  <2>1. CASE AuditError # "none"
    BY <1>4, <2>1, Zenon DEF Completed
  <2>2. CASE AuditError = "none"
    BY <1>1, <1>4, <2>2 DEF Completed
  <2> QED
    BY <2>1, <2>2
<1> HIDE DEF rec, owed
<1>6. /\ DOMAIN wire' = {"done", "owed", "kept"} /\ DOMAIN txn' = {"state", "pending"}
      /\ wire'.done = Append(done, rec) /\ wire'.kept = wire.kept
      /\ txn'.pending = wire'.owed /\ txn'.state # "none"
  <2>1. CASE /\ txn' = [state |-> "failed", pending |-> <<>>]
             /\ wire' = [wire EXCEPT !.done = Append(done, rec), !.owed = <<>>]
    BY <1>1, <2>1
  <2>2. CASE /\ txn' = [txn EXCEPT !.pending = txn.pending \o owed]
             /\ wire' = [wire EXCEPT !.done = Append(done, rec), !.owed = wire.owed \o owed]
    BY <1>1, <1>4, <2>2
  <2> QED
    BY <1>3, <2>1, <2>2
<1>7. IsSeq(wire'.done)
  BY <1>1, <1>6, AppendIsSeq
<1>8. LogIsRecent'
  <2> HIDE DEF done
  <2>1. record(Recent(done, LOG_CAP), rec) = Recent(Append(done, rec), LOG_CAP)
    BY <1>1, RecordKeepsRecent
  <2> QED
    BY <1>1, <1>2, <1>6, <2>1 DEF LogIsRecent
<1>9. AuditExact'
  BY <1>1, <1>2, <1>6 DEF AuditExact
<1> QED
  BY <1>5, <1>6, <1>7, <1>8, <1>9 DEF InsertInv

\* COMMIT moves the rows waiting into the audit table and the rows owed into the
\* kept ones; ROLLBACK drops both.
LEMMA EndTransactionInv ==
    ASSUME InsertInv, NEW commit, EndTransaction(commit)
    PROVE  InsertInv'
<1>1. /\ DOMAIN wire = {"done", "owed", "kept"} /\ IsSeq(wire.done)
      /\ log = Recent(wire.done, LOG_CAP) /\ audit = wire.kept /\ txn.pending = wire.owed
  BY DEF InsertInv, LogIsRecent, AuditExact
<1>2. /\ audit' = (IF commit /\ txn.state = "open" THEN audit \o txn.pending ELSE audit)
      /\ wire' = [wire EXCEPT !.kept = IF commit /\ txn.state = "open"
                                       THEN wire.kept \o wire.owed ELSE wire.kept,
                              !.owed = <<>>]
      /\ txn' = [state |-> "none", pending |-> <<>>]
      /\ stmt' = NoStmt /\ log' = log
  BY DEF EndTransaction
<1>3. /\ DOMAIN wire' = {"done", "owed", "kept"} /\ wire'.owed = <<>>
      /\ wire'.done = wire.done
      /\ wire'.kept = (IF commit /\ txn.state = "open" THEN wire.kept \o wire.owed ELSE wire.kept)
  BY <1>1, <1>2
<1>4. audit' = wire'.kept
  BY <1>1, <1>2, <1>3
<1> QED
  BY <1>1, <1>2, <1>3, <1>4 DEF InsertInv, LogIsRecent, AuditExact, NoStmt

\* The whole invariant is kept by every step.
LEMMA NextInv == InsertInv /\ [Next]_vars => InsertInv'
<1> SUFFICES ASSUME InsertInv, [Next]_vars PROVE InsertInv'
  OBVIOUS
<1>0. "stage" \in DOMAIN stmt /\ (stmt.stage # "idle" => txn.state = "open")
  BY DEF InsertInv
<1>1. ASSUME NEW s \in Statements, begin_foreign_modify(s) PROVE InsertInv'
  <2>1. CASE \E err : Refuse(stmt, err)
    BY <1>0, <1>1, <2>1, RefuseInv DEF begin_foreign_modify
  <2>2. CASE UNCHANGED <<txn, wire>> /\ "stage" \in DOMAIN stmt'
    BY <1>1, <2>2, SameInv DEF begin_foreign_modify
  <2> QED
    BY <1>1, <2>1, <2>2 DEF begin_foreign_modify, Fail
<1>2. CASE InsertCall
  <2>1. CASE Refuse(stmt, "NotNullViolation")
    BY <1>0, <1>2, <2>1, RefuseInv DEF InsertCall
  <2>2. CASE UNCHANGED <<txn, wire>> /\ "stage" \in DOMAIN stmt'
    BY <1>0, <1>2, <2>2, SameInv DEF InsertCall
  <2> QED
    BY <1>0, <1>2, <2>1, <2>2, Zenon DEF InsertCall, Fail, Send
<1>3. ASSUME NEW cached \in BOOLEAN, ResolveTool(cached) PROVE InsertInv'
  <2>1. CASE \E lists : Refuse([stmt EXCEPT !.lists = lists], "UndefinedObject")
    <3>1. PICK lists : Refuse([stmt EXCEPT !.lists = lists], "UndefinedObject")
      BY <2>1, Zenon
    <3>2. "stage" \in DOMAIN [stmt EXCEPT !.lists = lists]
      BY <1>0
    <3> QED
      BY <1>3, <3>1, <3>2, RefuseInv DEF ResolveTool
  <2>2. CASE UNCHANGED <<txn, wire>> /\ "stage" \in DOMAIN stmt'
    BY <1>0, <1>3, <2>2, SameInv DEF ResolveTool
  <2> QED
    BY <1>0, <1>3, <2>1, <2>2, Zenon DEF ResolveTool
<1>4. CASE PerToolCall
  <2>1. CASE Refuse(stmt, "InvalidParams")
    BY <1>0, <1>4, <2>1, RefuseInv, Zenon DEF PerToolCall
  <2>2. CASE UNCHANGED <<txn, wire>> /\ "stage" \in DOMAIN stmt'
    BY <1>0, <1>4, <2>2, SameInv, Zenon DEF PerToolCall
  <2> QED
    BY <1>0, <1>4, <2>1, <2>2, Zenon DEF PerToolCall, Fail, Send
<1>5. ASSUME NEW r \in CallResults, Completed(r) PROVE InsertInv'
  BY <1>5, CompletedInv
<1>6. ASSUME NEW r \in CallResults, CompletedPerTool(r) PROVE InsertInv'
  <2>1. CASE Refuse(stmt, "InvalidText")
    BY <1>0, <1>6, <2>1, RefuseInv DEF CompletedPerTool
  <2>2. CASE UNCHANGED <<txn, wire>> /\ "stage" \in DOMAIN stmt'
    BY <1>0, <1>6, <2>2, SameInv DEF CompletedPerTool
  <2> QED
    BY <1>0, <1>6, <2>1, <2>2, Zenon DEF CompletedPerTool, Fail
<1>7. ASSUME NEW err \in Errors, CallFails(err) PROVE InsertInv'
  BY <1>0, <1>7, RefuseInv DEF CallFails, Fail
<1>8. CASE end_foreign_modify
  BY <1>8, SameInv DEF end_foreign_modify, NoStmt
<1>9. CASE BeginTransaction
  BY <1>9 DEF BeginTransaction, InsertInv, LogIsRecent, AuditExact
<1>10. ASSUME NEW commit \in BOOLEAN, EndTransaction(commit) PROVE InsertInv'
  BY <1>10, EndTransactionInv
<1>11. CASE Dba
  BY <1>0, <1>11, SameInv DEF Dba
<1>12. CASE UNCHANGED vars
  BY <1>0, <1>12, SameInv DEF vars
<1> QED
  BY <1>1, <1>2, <1>3, <1>4, <1>5, <1>6, <1>7, <1>8, <1>9, <1>10, <1>11, <1>12 DEF Next

\* Whatever the cap, the statements and the failures, the log a session reads
\* back is the newest LOG_CAP completed calls in order (record).
THEOREM LogSafe == Spec => []LogIsRecent
<1>1. InsertInv => LogIsRecent
  BY DEF InsertInv
<1> QED
  BY <1>1, InitInv, NextInv, PTL DEF Spec

\* The committed audit rows are exactly the ones owed by the transactions that
\* committed (audit_append).
THEOREM AuditSafe == Spec => []AuditExact
<1>1. InsertInv => AuditExact
  BY DEF InsertInv
<1> QED
  BY <1>1, InitInv, NextInv, PTL DEF Spec


-----------------------------------------------------------------------------
(* Rows: one call each, in order, and one result of the columns' types. *)

StmtFields == {"stage", "err", "at", "s", "k", "audit", "def", "call", "lists", "calls", "returned"}

Begun(s) == s.stage # "idle" \/ s.at \in {"row", "planned", "called"}

NamesRows(s) ==
    s.s.table = "tool_calls" => \A i \in DOMAIN s.calls :
        <<"text", s.calls[i].name>> = s.s.rows[i][attno(TOOL_CALLS_SPEC, "tool")]

AllFit(s) ==
    \A k \in DOMAIN s.returned :
        s.returned[k].def \in {0, 1} => Fits(s.returned[k].row, Columns(s.s.table))

\* A statement at row k has called the rows before it, and k itself if it waits
\* for the answer or was refused after it; a per-tool row is called by a
\* definition.
RowsOK(s) ==
    /\ {"stage", "at", "err"} \subseteq DOMAIN s
    /\ s.stage \in {"idle", "row", "planned", "called"}
    /\ s.stage # "idle" => s.at = "none"
    /\ Begun(s) =>
         /\ DOMAIN s = StmtFields /\ s.s \in Statements /\ s.k \in Nat \ {0}
         /\ IsSeq(s.calls) /\ IsSeq(s.returned)
         /\ Len(s.calls) = IF "called" \in {s.stage, s.at} THEN s.k ELSE s.k - 1
         /\ Len(s.returned) = s.k - 1
         /\ NamesRows(s) /\ AllFit(s)
         /\ s.stage = "planned" => s.s.table # "tool_calls"
         /\ s.stage \in {"planned", "called"} /\ s.s.table # "tool_calls" => s.def # 0

Joins(u, s, t) ==
    /\ IsSeq(u) /\ Len(u) = Len(s) + Len(t)
    /\ \A i \in 1 .. Len(s) : u[i] = s[i]
    /\ \A i \in 1 .. Len(t) : u[Len(s) + i] = t[i]

RowsInv == RowsOK(stmt)

\* One sequence after another.
LEMMA ConcatIsSeq ==
    ASSUME NEW s, NEW t, IsSeq(s), IsSeq(t)
    PROVE  Joins(s \o t, s, t)
<1> DEFINE S == {s[i] : i \in 1 .. Len(s)} \cup {t[i] : i \in 1 .. Len(t)}
<1>1. s \in Seq(S) /\ t \in Seq(S)
  <2>1. /\ [i \in 1 .. Len(s) |-> s[i]] \in [1 .. Len(s) -> S]
        /\ [i \in 1 .. Len(t) |-> t[i]] \in [1 .. Len(t) -> S]
    OBVIOUS
  <2> HIDE DEF S
  <2> QED
    BY <2>1 DEF IsSeq
<1> HIDE DEF S
<1>2. s \o t \in Seq(S)
  BY <1>1, ConcatProperties
<1>3. IsSeq(s \o t)
  BY <1>2, SeqIsSeq, Zenon
<1> QED
  BY <1>1, <1>3, ConcatProperties DEF IsSeq, Joins

\* A function on 1 .. n is a sequence.
LEMMA MapIsSeq ==
    ASSUME NEW n \in Nat, NEW f, DOMAIN f = 1 .. n, f = [i \in 1 .. n |-> f[i]]
    PROVE  IsSeq(f) /\ Len(f) = n
<1>1. Len(f) = n
  OBVIOUS
<1> QED
  BY <1>1 DEF IsSeq

\* The tool column is the second.
LEMMA ToolColumn == attno(TOOL_CALLS_SPEC, "tool") = 2
<1> DEFINE I == {i \in 1 .. Len(TOOL_CALLS_SPEC) : TOOL_CALLS_SPEC[i][1] = "tool"}
<1>1. I = {2}
  BY DEF TOOL_CALLS_SPEC
<1>2. attno(TOOL_CALLS_SPEC, "tool") = IF I # {} THEN Min(I) ELSE 0
  BY DEF attno, SelectInSeq
<1>3. Min({2}) = 2
  BY DEF Min
<1> QED
  BY <1>1, <1>2, <1>3, Zenon

\* A cell is NULL or of the type it was converted to (json_to_cell).
LEMMA CellTyped ==
    ASSUME NEW v, NEW type
    PROVE  json_to_cell(v, type) = NULL \/ json_to_cell(v, type)[1] = type
BY Zenon DEF json_to_cell

\* The row of a record fits tool_calls (row_from_record).
LEMMA RecordFits == \A rec : Fits(row_from_record(rec), TOOL_CALLS_SPEC)
<1> SUFFICES ASSUME NEW rec PROVE Fits(row_from_record(rec), TOOL_CALLS_SPEC)
  OBVIOUS
<1> DEFINE r == row_from_record(rec)
<1>1. Len(r) = 9 /\ Len(TOOL_CALLS_SPEC) = 9 /\ DOMAIN TOOL_CALLS_SPEC = 1 .. 9
  BY DEF row_from_record, TOOL_CALLS_SPEC
<1>2. /\ TOOL_CALLS_SPEC[1][2] = "uuid" /\ TOOL_CALLS_SPEC[2][2] = "text"
      /\ TOOL_CALLS_SPEC[3][2] = "jsonb" /\ TOOL_CALLS_SPEC[4][2] = "jsonb"
      /\ TOOL_CALLS_SPEC[5][2] = "jsonb" /\ TOOL_CALLS_SPEC[6][2] = "bool"
      /\ TOOL_CALLS_SPEC[7][2] = "jsonb" /\ TOOL_CALLS_SPEC[8][2] = "timestamptz"
      /\ TOOL_CALLS_SPEC[9][2] = "int4"
  BY DEF TOOL_CALLS_SPEC
<1>3. /\ r[1][1] = "uuid" /\ r[2][1] = "text" /\ r[3][1] = "jsonb" /\ r[6][1] = "bool"
      /\ r[8][1] = "timestamptz" /\ r[9][1] = "int4"
      /\ r[4] = NULL \/ r[4][1] = "jsonb"
      /\ r[5] = NULL \/ r[5][1] = "jsonb"
      /\ r[7] = NULL \/ r[7][1] = "jsonb"
  BY DEF row_from_record
<1> HIDE DEF r
<1>4. \A i \in 1 .. 9 : r[i] = NULL \/ r[i][1] = TOOL_CALLS_SPEC[i][2]
  BY <1>2, <1>3
<1> QED
  BY <1>1, <1>4 DEF Fits, r

\* The columns of a per-tool table, and the rows that shape_row makes of cells of
\* the output columns, NULL or typed.
LEMMA ShapeFits ==
    ASSUME NEW tool, IsSeq(tool.inputs), IsSeq(tool.outputs), NEW arguments, NEW content, NEW is_error,
           NEW outputs, IsSeq(outputs), Len(outputs) = Len(tool.outputs),
           \A i \in 1 .. Len(outputs) : outputs[i] = NULL \/ outputs[i][1] = tool.outputs[i].type
    PROVE  Fits(shape_row(tool, arguments, outputs, is_error, content), table_columns(tool))
<1> DEFINE m == Len(tool.inputs)
           n == Len(tool.outputs)
           cols == tool.inputs \o tool.outputs
           typed == [i \in DOMAIN cols |-> <<cols[i].name, cols[i].type>>]
           last == << <<"content", "jsonb">>, <<"is_error", "bool">> >>
           given == Cells(tool.inputs, arguments)
           cells == given \o outputs
           end == <<IF content = Absent THEN NULL ELSE <<"jsonb", content>>, <<"bool", is_error>> >>
           columns == table_columns(tool)
           row == shape_row(tool, arguments, outputs, is_error, content)
<1>1. m \in Nat /\ n \in Nat
  BY DEF IsSeq
<1>2. /\ IsSeq(cols) /\ Len(cols) = m + n
      /\ \A i \in 1 .. m : cols[i] = tool.inputs[i]
      /\ \A i \in 1 .. n : cols[m + i] = tool.outputs[i]
  <2>1. Joins(cols, tool.inputs, tool.outputs)
    BY ConcatIsSeq, Zenon
  <2> QED
    BY <2>1, Zenon DEF Joins
<1>3. /\ IsSeq(typed) /\ Len(typed) = m + n
      /\ \A i \in 1 .. m + n : typed[i] = <<cols[i].name, cols[i].type>>
  <2> HIDE DEF cols, m, n
  <2>1. DOMAIN cols = 1 .. (m + n)
    BY <1>2 DEF IsSeq
  <2>2. typed = [i \in 1 .. (m + n) |-> typed[i]] /\ DOMAIN typed = 1 .. (m + n) /\ m + n \in Nat
    BY <1>1, <2>1
  <2>3. \A i \in 1 .. m + n : typed[i] = <<cols[i].name, cols[i].type>>
    BY <2>1
  <2> HIDE DEF typed
  <2>4. IsSeq(typed) /\ Len(typed) = m + n
    BY <2>2, MapIsSeq, Zenon
  <2> QED
    BY <2>3, <2>4
<1>4. /\ IsSeq(given) /\ Len(given) = m
      /\ \A i \in 1 .. m : given[i] = json_to_cell(get(arguments, tool.inputs[i].prop), tool.inputs[i].type)
  <2>1. DOMAIN tool.inputs = 1 .. m
    BY DEF IsSeq
  <2>2. given = [i \in 1 .. m |-> given[i]] /\ DOMAIN given = 1 .. m
    BY <2>1 DEF Cells
  <2>3. \A i \in 1 .. m : given[i] = json_to_cell(get(arguments, tool.inputs[i].prop), tool.inputs[i].type)
    BY <2>1 DEF Cells
  <2> HIDE DEF given
  <2>4. IsSeq(given) /\ Len(given) = m
    BY <1>1, <2>2, MapIsSeq, Zenon
  <2> QED
    BY <2>3, <2>4
<1>5. /\ IsSeq(cells) /\ Len(cells) = m + n
      /\ \A i \in 1 .. m : cells[i] = given[i]
      /\ \A i \in 1 .. n : cells[m + i] = outputs[i]
  <2> HIDE DEF given
  <2>1. Joins(cells, given, outputs)
    BY <1>4, ConcatIsSeq, Zenon
  <2> QED
    BY <1>4, <2>1 DEF Joins
<1>6. IsSeq(last) /\ IsSeq(end) /\ Len(last) = 2 /\ Len(end) = 2
  BY DEF IsSeq
<1>7. columns = typed \o last /\ row = cells \o end
  BY DEF table_columns, shape_row
<1>8. /\ last[1][2] = "jsonb" /\ last[2][2] = "bool"
      /\ end[1] = NULL \/ end[1][1] = "jsonb"
      /\ end[2][1] = "bool"
  OBVIOUS
<1> HIDE DEF m, n, cols, typed, last, given, cells, end, columns, row
<1>9. /\ IsSeq(columns) /\ Len(columns) = m + n + 2
      /\ \A i \in 1 .. m + n : columns[i] = typed[i]
      /\ \A i \in 1 .. 2 : columns[m + n + i] = last[i]
  <2>1. Joins(columns, typed, last)
    BY <1>3, <1>6, <1>7, ConcatIsSeq, Zenon
  <2> QED
    BY <1>1, <1>3, <1>6, <2>1 DEF Joins
<1>10. /\ IsSeq(row) /\ Len(row) = m + n + 2
       /\ \A i \in 1 .. m + n : row[i] = cells[i]
       /\ \A i \in 1 .. 2 : row[m + n + i] = end[i]
  <2>1. Joins(row, cells, end)
    BY <1>5, <1>6, <1>7, ConcatIsSeq, Zenon
  <2> QED
    BY <1>1, <1>5, <1>6, <2>1 DEF Joins
<1>11. ASSUME NEW i \in 1 .. m + n + 2 PROVE row[i] = NULL \/ row[i][1] = columns[i][2]
  <2>1. CASE i \in 1 .. m
    <3>1. row[i] = json_to_cell(get(arguments, tool.inputs[i].prop), tool.inputs[i].type)
      BY <1>1, <1>4, <1>5, <1>10, <2>1
    <3>2. columns[i][2] = tool.inputs[i].type
      BY <1>1, <1>2, <1>3, <1>9, <2>1
    <3> QED
      BY <3>1, <3>2, CellTyped
  <2>2. CASE i \in m + 1 .. m + n
    <3> DEFINE j == i - m
    <3>1. j \in 1 .. n /\ i = m + j /\ i \in 1 .. m + n
      BY <1>1, <2>2
    <3> HIDE DEF j
    <3>2. row[i] = outputs[j] /\ columns[i][2] = tool.outputs[j].type
      BY <1>2, <1>3, <1>5, <1>9, <1>10, <3>1
    <3> QED
      BY <3>1, <3>2 DEF n
  <2>3. CASE i = m + n + 1
    <3>1. row[i] = end[1] /\ columns[i] = last[1]
      BY <1>9, <1>10, <2>3
    <3> QED
      BY <1>8, <3>1
  <2>4. CASE i = m + n + 2
    <3>1. row[i] = end[2] /\ columns[i] = last[2]
      BY <1>9, <1>10, <2>4
    <3> QED
      BY <1>8, <3>1
  <2> QED
    BY <1>1, <1>11, <2>1, <2>2, <2>3, <2>4
<1>12. DOMAIN columns = 1 .. m + n + 2
  BY <1>9 DEF IsSeq
<1> QED
  BY <1>9, <1>10, <1>11, <1>12 DEF Fits, row, columns

\* NULLs and converted values are typed cells of the output columns.
LEMMA OutputCells ==
    ASSUME NEW cols, IsSeq(cols), NEW v, NEW cells, cells \in {[i \in DOMAIN cols |-> NULL], Cells(cols, v)}
    PROVE  /\ IsSeq(cells) /\ Len(cells) = Len(cols)
           /\ \A i \in 1 .. Len(cells) : cells[i] = NULL \/ cells[i][1] = cols[i].type
<1>1. DOMAIN cols = 1 .. Len(cols) /\ Len(cols) \in Nat
  BY DEF IsSeq
<1>2. /\ cells = [i \in 1 .. Len(cols) |-> cells[i]] /\ DOMAIN cells = 1 .. Len(cols)
      /\ \A i \in 1 .. Len(cols) : cells[i] = NULL \/ cells[i] = json_to_cell(get(v, cols[i].prop), cols[i].type)
  <2>1. CASE cells = [i \in DOMAIN cols |-> NULL]
    BY <1>1, <2>1
  <2>2. CASE cells = Cells(cols, v)
    BY <1>1, <2>2 DEF Cells
  <2> QED
    BY <2>1, <2>2
<1>3. IsSeq(cells) /\ Len(cells) = Len(cols)
  BY <1>1, <1>2, MapIsSeq, Zenon
<1> QED
  BY <1>2, <1>3, CellTyped

\* The first row of a result fits the table of the definition that shaped it
\* (invoke_and_shape).
LEMMA ResultFits ==
    ASSUME NEW r \in CallResults, NEW arguments
    PROVE  Fits(invoke_and_shape(ToolDefs[1], arguments, r)[1], table_columns(ToolDefs[1]))
<1> DEFINE tool == ToolDefs[1]
           content == get(r, "content")
           structured == get(r, "structuredContent")
           elements == as_array(get(structured, tool.property))
           nulls == [i \in DOMAIN tool.outputs |-> NULL]
           Row1(cells, is_error) == shape_row(tool, arguments, cells, is_error, content)
           first == invoke_and_shape(tool, arguments, r)[1]
<1>1. IsSeq(tool.inputs) /\ IsSeq(tool.outputs) /\ (elements = <<>> \/ 1 \in DOMAIN elements)
  BY ToolsAssumption, SMTT(30) DEF IsSeq
<1>2. \/ first = Row1(nulls, TRUE)
      \/ first = Row1(nulls, FALSE)
      \/ first = Row1(Cells(tool.outputs, elements[1]), FALSE)
      \/ first = Row1(Cells(tool.outputs, structured), FALSE)
  <2>1. CASE get(r, "isError") = Bool(TRUE)
    BY <2>1 DEF invoke_and_shape
  <2>2. CASE get(r, "isError") # Bool(TRUE) /\ tool.shape = "element" /\ elements = <<>>
    BY <2>2 DEF invoke_and_shape
  <2>3. CASE get(r, "isError") # Bool(TRUE) /\ tool.shape = "element" /\ elements # <<>>
    <3>1. invoke_and_shape(tool, arguments, r) =
            [i \in DOMAIN elements |-> Row1(Cells(tool.outputs, elements[i]), FALSE)]
      BY <2>3 DEF invoke_and_shape, Each
    <3> QED
      BY <1>1, <2>3, <3>1, Zenon
  <2>4. CASE get(r, "isError") # Bool(TRUE) /\ tool.shape # "element"
    BY <2>4 DEF invoke_and_shape
  <2> QED
    BY <2>1, <2>2, <2>3, <2>4, Zenon
<1> HIDE DEF tool, content, structured, elements, first
<1>3. ASSUME NEW v, NEW cells, cells \in {nulls, Cells(tool.outputs, v)}, NEW is_error
      PROVE  Fits(Row1(cells, is_error), table_columns(tool))
  <2>1. /\ IsSeq(cells) /\ Len(cells) = Len(tool.outputs)
        /\ \A i \in 1 .. Len(cells) : cells[i] = NULL \/ cells[i][1] = tool.outputs[i].type
    BY <1>1, <1>3, OutputCells
  <2> QED
    BY <1>1, <2>1, ShapeFits
<1> HIDE DEF nulls, Row1
<1>4. Fits(first, table_columns(tool))
  BY <1>2, <1>3, Zenon
<1> QED
  BY <1>4 DEF first, tool

-----------------------------------------------------------------------------
\* A refused row has been called if and only if the statement waited for its answer.
LEMMA RefuseRows ==
    ASSUME RowsOK(stmt), NEW s, s = stmt \/ \E lists : s = [stmt EXCEPT !.lists = lists],
           NEW err, Refuse(s, err)
    PROVE  RowsOK(stmt')
<1>1. /\ DOMAIN stmt' = DOMAIN stmt /\ {"stage", "at", "err"} \subseteq DOMAIN stmt
      /\ stmt'.stage = "idle" /\ stmt'.at = stmt.stage
  BY DEF RowsOK, Refuse
<1>2. CASE stmt.stage = "idle"
  BY <1>1, <1>2 DEF RowsOK, Begun
<1>3. CASE stmt.stage # "idle"
  <2>1. /\ DOMAIN stmt = StmtFields /\ stmt.s \in Statements /\ stmt.k \in Nat \ {0}
        /\ IsSeq(stmt.calls) /\ IsSeq(stmt.returned) /\ stmt.at = "none"
        /\ Len(stmt.calls) = IF "called" \in {stmt.stage, stmt.at} THEN stmt.k ELSE stmt.k - 1
        /\ Len(stmt.returned) = stmt.k - 1
        /\ NamesRows(stmt) /\ AllFit(stmt)
    BY <1>3 DEF RowsOK, Begun
  <2>2. /\ stmt'.s = stmt.s /\ stmt'.k = stmt.k /\ stmt'.calls = stmt.calls
        /\ stmt'.returned = stmt.returned
    BY <2>1 DEF Refuse, StmtFields
  <2>3. NamesRows(stmt') /\ AllFit(stmt')
    BY <2>1, <2>2 DEF NamesRows, AllFit
  <2>4. "called" \in {stmt'.stage, stmt'.at} <=> "called" \in {stmt.stage, stmt.at}
    BY <1>1, <2>1
  <2> QED
    BY <1>1, <2>1, <2>2, <2>3, <2>4 DEF RowsOK, Begun
<1> QED
  BY <1>2, <1>3

\* A request for the row the statement is at.
LEMMA SendRows ==
    ASSUME RowsOK(stmt), stmt.stage \in {"row", "planned"}, NEW call, Send(call),
           stmt.s.table = "tool_calls" =>
             <<"text", call.name>> = stmt.s.rows[stmt.k][attno(TOOL_CALLS_SPEC, "tool")],
           stmt.s.table # "tool_calls" => stmt.def # 0
    PROVE  RowsOK(stmt')
<1>1. /\ DOMAIN stmt = StmtFields /\ stmt.s \in Statements /\ stmt.k \in Nat \ {0}
      /\ IsSeq(stmt.calls) /\ IsSeq(stmt.returned) /\ stmt.at = "none"
      /\ Len(stmt.calls) = stmt.k - 1 /\ Len(stmt.returned) = stmt.k - 1
      /\ NamesRows(stmt) /\ AllFit(stmt)
  BY DEF RowsOK, Begun
<1> DEFINE calls == Append(stmt.calls, call)
<1>2. /\ DOMAIN stmt' = StmtFields /\ stmt'.stage = "called" /\ stmt'.at = "none"
      /\ stmt'.s = stmt.s /\ stmt'.k = stmt.k /\ stmt'.calls = calls
      /\ stmt'.returned = stmt.returned /\ stmt'.def = stmt.def
  BY <1>1 DEF Send, StmtFields
<1>3. /\ IsSeq(calls) /\ Len(calls) = stmt.k
      /\ \A i \in 1 .. stmt.k - 1 : calls[i] = stmt.calls[i]
      /\ calls[stmt.k] = call
  <2>1. /\ IsSeq(calls) /\ Len(calls) = Len(stmt.calls) + 1
        /\ \A i \in 1 .. Len(stmt.calls) : calls[i] = stmt.calls[i]
        /\ calls[Len(stmt.calls) + 1] = call
    BY <1>1, AppendIsSeq
  <2> HIDE DEF calls
  <2>2. Len(stmt.calls) + 1 = stmt.k
    BY <1>1, SMTT(30)
  <2> QED
    BY <1>1, <2>1, <2>2
<1> HIDE DEF calls
<1>4. NamesRows(stmt')
  <2> SUFFICES ASSUME stmt.s.table = "tool_calls", NEW i \in DOMAIN calls
               PROVE  <<"text", calls[i].name>> = stmt.s.rows[i][attno(TOOL_CALLS_SPEC, "tool")]
    BY <1>2 DEF NamesRows
  <2>1. i \in 1 .. stmt.k /\ DOMAIN stmt.calls = 1 .. stmt.k - 1
    BY <1>1, <1>3 DEF IsSeq
  <2>2. CASE i = stmt.k
    BY <1>3, <2>2, SMTT(30)
  <2>3. CASE i \in 1 .. stmt.k - 1
    BY <1>1, <1>3, <2>1, <2>3, SMTT(30) DEF NamesRows
  <2> QED
    BY <1>1, <2>1, <2>2, <2>3, SMTT(30)
<1>5. AllFit(stmt')
  BY <1>1, <1>2 DEF AllFit
<1>6. {"stage", "at", "err"} \subseteq DOMAIN stmt'
  BY <1>2 DEF StmtFields
<1> QED
  BY <1>1, <1>2, <1>3, <1>4, <1>5, <1>6, SMTT(30) DEF RowsOK, Begun

\* The result of a row that was waited for.
LEMMA ReturnRows ==
    ASSUME RowsOK(stmt), stmt.stage = "called", NEW d, NEW row,
           stmt' = [stmt EXCEPT !.stage = "row", !.k = stmt.k + 1,
                                !.returned = Append(stmt.returned, [def |-> d, row |-> row])],
           d \in {0, 1} => Fits(row, Columns(stmt.s.table))
    PROVE  RowsOK(stmt')
<1>1. /\ DOMAIN stmt = StmtFields /\ stmt.s \in Statements /\ stmt.k \in Nat \ {0}
      /\ IsSeq(stmt.calls) /\ IsSeq(stmt.returned) /\ stmt.at = "none"
      /\ Len(stmt.calls) = stmt.k /\ Len(stmt.returned) = stmt.k - 1
      /\ NamesRows(stmt) /\ AllFit(stmt)
  BY DEF RowsOK, Begun
<1> DEFINE new == [def |-> d, row |-> row]
           returned == Append(stmt.returned, new)
<1>2. /\ DOMAIN stmt' = StmtFields /\ stmt'.stage = "row" /\ stmt'.at = "none"
      /\ stmt'.s = stmt.s /\ stmt'.k = stmt.k + 1 /\ stmt'.calls = stmt.calls
      /\ stmt'.returned = returned
  BY <1>1 DEF StmtFields
<1>3. new.def = d /\ new.row = row
  OBVIOUS
<1> HIDE DEF new
<1>4. /\ IsSeq(returned) /\ Len(returned) = stmt.k
      /\ \A i \in 1 .. stmt.k - 1 : returned[i] = stmt.returned[i]
      /\ returned[stmt.k] = new
  <2>1. /\ IsSeq(returned) /\ Len(returned) = Len(stmt.returned) + 1
        /\ \A i \in 1 .. Len(stmt.returned) : returned[i] = stmt.returned[i]
        /\ returned[Len(stmt.returned) + 1] = new
    BY <1>1, AppendIsSeq
  <2> HIDE DEF returned
  <2>2. Len(stmt.returned) + 1 = stmt.k
    BY <1>1
  <2> QED
    BY <1>1, <2>1, <2>2
<1> HIDE DEF returned
<1>5. NamesRows(stmt')
  BY <1>1, <1>2 DEF NamesRows
<1>6. AllFit(stmt')
  <2> SUFFICES ASSUME NEW i \in DOMAIN returned, returned[i].def \in {0, 1}
               PROVE  Fits(returned[i].row, Columns(stmt.s.table))
    BY <1>2 DEF AllFit
  <2>1. i \in 1 .. stmt.k /\ DOMAIN stmt.returned = 1 .. stmt.k - 1
    BY <1>1, <1>4 DEF IsSeq
  <2>2. CASE i = stmt.k
    BY <1>3, <1>4, <2>2
  <2>3. CASE i \in 1 .. stmt.k - 1
    BY <1>1, <1>4, <2>1, <2>3 DEF AllFit
  <2> QED
    BY <1>1, <2>1, <2>2, <2>3
<1>7. {"stage", "at", "err"} \subseteq DOMAIN stmt'
  BY <1>2 DEF StmtFields
<1>8. stmt'.k \in Nat \ {0} /\ Len(stmt.calls) = stmt'.k - 1 /\ Len(returned) = stmt'.k - 1
  BY <1>1, <1>2, <1>4
<1> QED
  BY <1>1, <1>2, <1>4, <1>5, <1>6, <1>7, <1>8, Zenon DEF RowsOK, Begun

\* A statement that begins has called and returned nothing (begin_foreign_modify).
LEMMA BeginRows ==
    ASSUME RowsOK(stmt), NEW s \in Statements, begin_foreign_modify(s)
    PROVE  RowsOK(stmt')
<1>1. CASE Fail("FeatureNotSupported")
  BY <1>1, RefuseRows DEF Fail
<1>2. CASE stmt' = [stage |-> "row", err |-> "none", at |-> "none", s |-> s, k |-> 1, audit |-> audit_table,
                    def |-> 0, call |-> Absent, lists |-> 0, calls |-> <<>>, returned |-> <<>>]
  <2>1. /\ DOMAIN stmt' = StmtFields /\ {"stage", "at", "err"} \subseteq StmtFields
        /\ stmt'.stage = "row" /\ stmt'.at = "none" /\ stmt'.s = s /\ stmt'.k = 1
        /\ stmt'.calls = <<>> /\ stmt'.returned = <<>>
    BY <1>2 DEF StmtFields
  <2>2. IsSeq(<<>>) /\ Len(<<>>) = 0 /\ DOMAIN <<>> = {}
    BY EmptySeq, SeqIsSeq DEF IsSeq
  <2>3. NamesRows(stmt') /\ AllFit(stmt')
    BY <2>1, <2>2 DEF NamesRows, AllFit
  <2> QED
    BY <2>1, <2>2, <2>3 DEF RowsOK, Begun
<1> QED
  BY <1>1, <1>2 DEF begin_foreign_modify

\* A tool_calls row is called by its own tool column (ToolCallsSession::insert).
LEMMA InsertCallRows ==
    ASSUME RowsOK(stmt), InsertCall
    PROVE  RowsOK(stmt')
<1> DEFINE cell == Row[attno(TOOL_CALLS_SPEC, "tool")]
           tool == value(read_slot(Row, TOOL_CALLS_SPEC), "tool")
<1>1. /\ stmt.stage = "row" /\ stmt.s.table = "tool_calls" /\ stmt.k <= Len(stmt.s.rows)
      /\ stmt.s \in Statements /\ stmt.k \in Nat \ {0}
  BY DEF InsertCall, RowsOK, Begun
<1>2. stmt.k \in DOMAIN stmt.s.rows
  BY <1>1, RowsAssumption
<1>3. cell \in {NULL, <<"text", cell[2]>>}
  BY <1>1, <1>2, RowsAssumption DEF Row
<1>4. tool = cell
  <2>1. 2 \in DOMAIN TOOL_CALLS_SPEC /\ cell = Row[2] /\ tool = read_slot(Row, TOOL_CALLS_SPEC)[2]
    BY ToolColumn DEF TOOL_CALLS_SPEC, value
  <2>2. cell[1] # "date"
    BY <1>3 DEF NULL
  <2> HIDE DEF cell, tool
  <2> QED
    BY <2>1, <2>2 DEF read_slot
<1>5. CASE Fail("NotNullViolation")
  BY <1>5, RefuseRows, SMTT(30) DEF Fail
<1>6. CASE tool # NULL /\ \E arguments : Send([name |-> tool[2], arguments |-> arguments])
  <2>1. PICK arguments : Send([name |-> tool[2], arguments |-> arguments])
    BY <1>6, Zenon
  <2> DEFINE call == [name |-> tool[2], arguments |-> arguments]
  <2>2. Send(call) /\ call.name = tool[2]
    BY <2>1, SMTT(30)
  <2> HIDE DEF call
  <2>3. <<"text", call.name>> = stmt.s.rows[stmt.k][attno(TOOL_CALLS_SPEC, "tool")]
    <3> HIDE DEF tool
    <3> QED
      BY <1>3, <1>4, <1>6, <2>2 DEF Row
  <2> QED
    BY <1>1, <2>2, <2>3, SendRows
<1> QED
  BY <1>5, <1>6, Zenon DEF InsertCall

\* A per-tool row gets its definition (PerToolInsert::insert).
LEMMA ResolveRows ==
    ASSUME RowsOK(stmt), NEW cached, ResolveTool(cached)
    PROVE  RowsOK(stmt')
<1>1. CASE \E lists : Refuse([stmt EXCEPT !.lists = lists], "UndefinedObject")
  <2>1. PICK lists : Refuse([stmt EXCEPT !.lists = lists], "UndefinedObject")
    BY <1>1, Zenon
  <2>2. \E l : [stmt EXCEPT !.lists = lists] = [stmt EXCEPT !.lists = l]
    BY Zenon
  <2> QED
    BY <2>1, <2>2, RefuseRows, Zenon
<1>2. CASE \E def, lists : def # 0 /\ stmt' = [stmt EXCEPT !.stage = "planned", !.def = def, !.lists = lists]
  <2>1. PICK def, lists : def # 0 /\ stmt' = [stmt EXCEPT !.stage = "planned", !.def = def, !.lists = lists]
    BY <1>2, Zenon
  <2>2. /\ DOMAIN stmt = StmtFields /\ stmt.s \in Statements /\ stmt.k \in Nat \ {0}
        /\ IsSeq(stmt.calls) /\ IsSeq(stmt.returned) /\ stmt.at = "none"
        /\ Len(stmt.calls) = stmt.k - 1 /\ Len(stmt.returned) = stmt.k - 1
        /\ NamesRows(stmt) /\ AllFit(stmt)
    BY DEF RowsOK, Begun, ResolveTool
  <2>5. stmt.s.table # "tool_calls"
    BY DEF ResolveTool
  <2>3. /\ DOMAIN stmt' = StmtFields /\ {"stage", "at", "err"} \subseteq StmtFields
        /\ stmt'.stage = "planned" /\ stmt'.at = "none" /\ stmt'.def # 0
        /\ stmt'.s = stmt.s /\ stmt'.k = stmt.k /\ stmt'.calls = stmt.calls
        /\ stmt'.returned = stmt.returned
    BY <2>1, <2>2 DEF StmtFields
  <2>4. NamesRows(stmt') /\ AllFit(stmt')
    BY <2>2, <2>3 DEF NamesRows, AllFit
  <2> QED
    BY <2>2, <2>3, <2>4, <2>5 DEF RowsOK, Begun
<1> QED
  BY <1>1, <1>2, Zenon DEF ResolveTool

\* A row is answered (Completed, CompletedPerTool).
LEMMA AnswerRows ==
    ASSUME RowsOK(stmt), NEW r \in CallResults, Completed(r) \/ CompletedPerTool(r)
    PROVE  RowsOK(stmt')
<1>1. CASE Completed(r)
  <2>1. CASE AuditError # "none"
    <3> DEFINE err == AuditError
    <3>1. stmt' = [stmt EXCEPT !.stage = "idle", !.err = err, !.at = "called"] /\ stmt.stage = "called"
      BY <1>1, <2>1, Zenon DEF Completed
    <3> HIDE DEF err
    <3>2. /\ DOMAIN stmt = StmtFields /\ stmt.s \in Statements /\ stmt.k \in Nat \ {0}
          /\ IsSeq(stmt.calls) /\ IsSeq(stmt.returned)
          /\ Len(stmt.calls) = stmt.k /\ Len(stmt.returned) = stmt.k - 1
          /\ NamesRows(stmt) /\ AllFit(stmt)
      BY <3>1 DEF RowsOK, Begun
    <3>3. /\ DOMAIN stmt' = StmtFields /\ {"stage", "at", "err"} \subseteq StmtFields
          /\ stmt'.stage = "idle" /\ stmt'.at = "called"
          /\ stmt'.s = stmt.s /\ stmt'.k = stmt.k /\ stmt'.calls = stmt.calls
          /\ stmt'.returned = stmt.returned
      BY <3>1, <3>2 DEF StmtFields
    <3>4. NamesRows(stmt') /\ AllFit(stmt')
      BY <3>2, <3>3, SMTT(30) DEF NamesRows, AllFit
    <3> QED
      BY <3>2, <3>3, <3>4 DEF RowsOK, Begun
  <2>2. CASE AuditError = "none"
    <3> DEFINE row == row_from_record(CallRecord(r))
    <3>1. /\ stmt.stage = "called" /\ stmt.s.table = "tool_calls"
          /\ stmt' = [stmt EXCEPT !.stage = "row", !.k = stmt.k + 1,
                                  !.returned = Append(stmt.returned, [def |-> 0, row |-> row])]
      BY <1>1, <2>2, Zenon DEF Completed
    <3>2. Fits(row, Columns(stmt.s.table))
      BY <3>1, RecordFits, Zenon DEF Columns
    <3> HIDE DEF row
    <3> QED
      BY <3>1, <3>2, ReturnRows, Zenon
  <2> QED
    BY <2>1, <2>2
<1>2. CASE CompletedPerTool(r)
  <2>1. CASE Fail("InvalidText")
    BY <2>1, RefuseRows, SMTT(30) DEF Fail
  <2>2. CASE ~Fail("InvalidText")
    <3> DEFINE d == stmt.def
               row == invoke_and_shape(ToolDefs[d], stmt.call.arguments, r)[1]
    <3>1. /\ stmt.stage = "called" /\ stmt.s.table # "tool_calls"
          /\ stmt' = [stmt EXCEPT !.stage = "row", !.k = stmt.k + 1,
                                  !.returned = Append(stmt.returned, [def |-> d, row |-> row])]
      BY <1>2, <2>2, Zenon DEF CompletedPerTool
    <3>2. d # 0
      BY <3>1 DEF RowsOK, Begun
    <3>3. d = 1 => Fits(row, Columns(stmt.s.table))
      BY <3>1, ResultFits, Zenon DEF Columns
    <3> HIDE DEF d, row
    <3>4. d \in {0, 1} => Fits(row, Columns(stmt.s.table))
      BY <3>2, <3>3
    <3> QED
      BY <3>1, <3>4, ReturnRows, Zenon
  <2> QED
    BY <2>1, <2>2
<1> QED
  BY <1>1, <1>2

\* Every step keeps the rows.
LEMMA NextRows == RowsInv /\ [Next]_vars => RowsInv'
<1> SUFFICES ASSUME RowsOK(stmt), [Next]_vars PROVE RowsOK(stmt')
  BY DEF RowsInv
<1>1. ASSUME NEW s \in Statements, begin_foreign_modify(s) PROVE RowsOK(stmt')
  BY <1>1, BeginRows
<1>2. CASE InsertCall
  BY <1>2, InsertCallRows
<1>3. ASSUME NEW cached \in BOOLEAN, ResolveTool(cached) PROVE RowsOK(stmt')
  BY <1>3, ResolveRows
<1>4. CASE PerToolCall
  <2>1. CASE Fail("InvalidParams")
    BY <2>1, RefuseRows DEF Fail
  <2>2. CASE \E call : Send(call)
    <3>1. PICK call : Send(call)
      BY <2>2, Zenon
    <3>2. stmt.stage = "planned" /\ stmt.s.table # "tool_calls" /\ stmt.def # 0
      BY <1>4, Zenon DEF PerToolCall, RowsOK, Begun
    <3> QED
      BY <3>1, <3>2, SendRows
  <2> QED
    BY <1>4, <2>1, <2>2, Zenon DEF PerToolCall
<1>5. ASSUME NEW r \in CallResults, Completed(r) \/ CompletedPerTool(r) PROVE RowsOK(stmt')
  BY <1>5, AnswerRows
<1>6. ASSUME NEW err \in Errors, CallFails(err) PROVE RowsOK(stmt')
  BY <1>6, RefuseRows DEF CallFails, Fail
<1>7. CASE stmt' = NoStmt
  BY <1>7 DEF NoStmt, RowsOK, Begun
<1>8. CASE UNCHANGED stmt
  BY <1>8, SMTT(30)
<1>9. CASE end_foreign_modify \/ \E commit \in BOOLEAN : EndTransaction(commit)
  BY <1>7, <1>9, Zenon DEF end_foreign_modify, EndTransaction
<1>10. CASE BeginTransaction \/ Dba \/ UNCHANGED vars
  BY <1>8, <1>10 DEF BeginTransaction, Dba, vars
<1> QED
  BY <1>1, <1>2, <1>3, <1>4, <1>5, <1>6, <1>9, <1>10 DEF Next

\* Whatever is inserted and however its calls end: one tools/call per row, in
\* order, none for a refused row, and a result of the columns' types for each
\* row that was answered (exec_foreign_insert, insert).
THEOREM RowsSafe == Spec => []CallPerRow
<1>1. Init => RowsInv
  BY DEF RowsInv, Init, NoStmt, RowsOK, Begun
<1>2. RowsInv => CallPerRow
  BY DEF RowsInv, RowsOK, Begun, NamesRows, AllFit, CallPerRow, CalledInOrder, ReturningFits
<1> QED
  BY <1>1, <1>2, NextRows, PTL DEF Spec
=============================================================================
