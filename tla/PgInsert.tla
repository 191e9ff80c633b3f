------------------------------ MODULE PgInsert ------------------------------
(***************************************************************************)
(* INSERT into a pg_mcp foreign table inside a transaction: one tools/call *)
(* per row, the backend's call log, and the operator's audit table.        *)
(*                                                                         *)
(* The calls happen on the MCP server and no rollback takes them back; the *)
(* log is backend memory and survives a rollback too; the audit rows are   *)
(* written through SPI in the caller's transaction.  While a call is in    *)
(* flight the server may execute it and lose the answer, the user may      *)
(* cancel, and the DBA may change the audit table.                         *)
(*                                                                         *)
(* A row to insert is the sequence of datums of its slot.  A record of the *)
(* log is [id, tool, arguments, content, structured, is_error, error,      *)
(* called_at, duration_ms]; ids count the completed calls (uuid_v4 is      *)
(* taken to be collision free) and the clock and the duration are left 0.  *)
(***************************************************************************)
EXTENDS PgPerTool, PgErrors

CONSTANTS
    LOG_CAP,        \* entries the log keeps (1000 in the code)
    Statements,     \* [op, table, rows]: what a client may run
    ToolDefs,       \* planned tools of the per-tool table
    CallResults,    \* results a completed tools/call may have
    MaxStatements,  \* bound: statements begun
    MaxDba          \* bound: changes the DBA makes

ASSUME LogCapAssumption == LOG_CAP \in Nat \ {0}

\* The tool column of tool_calls is of type text, and JSON arrays are sequences.
ASSUME RowsAssumption ==
    \A s \in Statements :
        /\ Len(s.rows) \in Nat /\ DOMAIN s.rows = 1..Len(s.rows)
        /\ s.table = "tool_calls" => \A i \in DOMAIN s.rows :
             LET cell == s.rows[i][attno(TOOL_CALLS_SPEC, "tool")] IN cell \in {NULL, <<"text", cell[2]>>}

ASSUME ToolsAssumption ==
    /\ 1 \in DOMAIN ToolDefs
    /\ \A t \in DOMAIN ToolDefs :
        /\ \A cols \in {ToolDefs[t].inputs, ToolDefs[t].outputs} :
             Len(cols) \in Nat /\ cols = [i \in 1..Len(cols) |-> cols[i]]
        /\ \A r \in CallResults :
             LET elements == as_array(get(get(r, "structuredContent"), ToolDefs[t].property))
             IN elements = <<>> \/ 1 \in DOMAIN elements

VARIABLES
    audit_table,    \* the server option: "none" or "set"
    shape,          \* the audit table: "good", "bad", "missing", "refuses"
    live,           \* the tool's live definition, 0 if it is not listed
    txn,            \* [state, pending]: the transaction and its audit rows
    audit,          \* the committed audit rows
    log,            \* CALL_LOGS of this (server, user)
    stmt,           \* the INSERT that runs
    wire,           \* history: [done, owed, kept]; see below
    count           \* [statements, dba]: the bounded counters

vars == <<audit_table, shape, live, txn, audit, log, stmt, wire, count>>

\* stmt.returned: the rows so far, each with the definition that shaped it, 0 for
\* tool_calls.
\* wire.done: the tool_calls rows completed so far, as log records; wire.owed: the records
\* the open transaction has to audit, as its statements found the option set;
\* wire.kept: those of the committed transactions.
NoStmt == [stage |-> "idle", err |-> "none", at |-> "none"]

Init ==
    /\ audit_table \in {"none", "set"} /\ shape = "good" /\ live = 1
    /\ txn = [state |-> "none", pending |-> <<>>]
    /\ audit = <<>> /\ log = <<>> /\ stmt = NoStmt
    /\ wire = [done |-> <<>>, owed |-> <<>>, kept |-> <<>>]
    /\ count = [statements |-> 0, dba |-> 0]

-----------------------------------------------------------------------------
(* The slot *)

\* The cells of a registry row; a date is read as its text.
read_slot(slot, spec) ==
    [i \in DOMAIN spec |-> IF slot[i][1] = "date" THEN <<"date", Render[slot[i]]>> ELSE slot[i]]

\* (column, JSON) pairs by the table's own columns; Absent for NULL.  Bytes are
\* written in their hex form.
read_slot_json(slot, columns) ==
    [c \in {columns[i][1] : i \in DOMAIN columns} |->
        LET d == slot[attno(columns, c)]
        IN IF d[1] = "bytea" THEN Str(Render[d]) ELSE datum_to_json(d)]

value(cells, col) == cells[attno(TOOL_CALLS_SPEC, col)]

-----------------------------------------------------------------------------
(* Statements *)

\* raise_ctx: the error ends the statement and aborts the transaction.
Refuse(s, err) ==
    /\ txn' = [state |-> "failed", pending |-> <<>>]
    /\ stmt' = [s EXCEPT !.stage = "idle", !.err = err, !.at = stmt.stage]
    /\ wire' = [wire EXCEPT !.owed = <<>>]

Fail(err) == Refuse(stmt, err)

\* Only INSERT is accepted, and of the registry tables only tool_calls takes it.
\* The server options are those of this moment for the whole statement.
begin_foreign_modify(s) ==
    /\ stmt.stage = "idle" /\ txn.state = "open" /\ count.statements < MaxStatements
    /\ count' = [count EXCEPT !.statements = @ + 1]
    /\ IF s.op # "INSERT" \/ (s.table \in DOMAIN REGISTRY /\ s.table # "tool_calls")
       THEN Fail("FeatureNotSupported")
       ELSE /\ stmt' = [stage |-> "row", err |-> "none", at |-> "none", s |-> s, k |-> 1, audit |-> audit_table,
                        def |-> 0, call |-> Absent, lists |-> 0, calls |-> <<>>, returned |-> <<>>]
            /\ UNCHANGED <<txn, wire>>
    /\ UNCHANGED <<audit_table, shape, live, audit, log>>

Row == stmt.s.rows[stmt.k]

\* A tools/call leaves; stmt.calls and stmt.lists keep what was requested.
Send(call) == stmt' = [stmt EXCEPT !.stage = "called", !.call = call, !.calls = Append(@, call)]

\* Mutant: the tool column is looked at after the request.
InsertCallFirst ==
    /\ stmt.stage = "row" /\ stmt.s.table = "tool_calls" /\ stmt.k <= Len(stmt.s.rows)
    /\ LET call == [name |-> value(read_slot(Row, TOOL_CALLS_SPEC), "tool")[2], arguments |-> Obj(<<>>)]
       IN IF value(read_slot(Row, TOOL_CALLS_SPEC), "tool") = NULL
          THEN Refuse([stmt EXCEPT !.calls = Append(@, call)], "NotNullViolation")
          ELSE Send(call) /\ UNCHANGED <<txn, wire>>
    /\ UNCHANGED <<audit_table, shape, live, audit, log, count>>

\* ToolCallsSession::insert up to the request.  The slot is read by the spec, so
\* the tool cell is a text or NULL.
InsertCall ==
    /\ stmt.stage = "row" /\ stmt.s.table = "tool_calls" /\ stmt.k <= Len(stmt.s.rows)
    /\ LET cells == read_slot(Row, TOOL_CALLS_SPEC)
           tool == value(cells, "tool")
           arguments == value(cells, "arguments")
       IN IF tool = NULL THEN Fail("NotNullViolation")
          ELSE /\ Send([name |-> tool[2],
                        arguments |-> IF arguments[1] = "jsonb" THEN arguments[2] ELSE Obj(<<>>)])
               /\ UNCHANGED <<txn, wire>>
    /\ UNCHANGED <<audit_table, shape, live, audit, log, count>>

\* PerToolInsert::insert resolves the tool first, by a list or from the cache,
\* which may still hold the definition the table was generated from.
ResolveTool(cached) ==
    /\ stmt.stage = "row" /\ stmt.s.table # "tool_calls" /\ stmt.k <= Len(stmt.s.rows)
    /\ LET lists == IF cached THEN stmt.lists ELSE stmt.lists + 1
       IN \E def \in (IF cached THEN {1, live} ELSE {live}) :
            IF def = 0
            THEN Refuse([stmt EXCEPT !.lists = lists], "UndefinedObject")
            ELSE /\ stmt' = [stmt EXCEPT !.stage = "planned", !.def = def, !.lists = lists]
                 /\ UNCHANGED <<txn, wire>>
    /\ UNCHANGED <<audit_table, shape, live, audit, log, count>>

\* The columns the table was generated with are those of the first definition.
Supplied == read_slot_json(Row, table_columns(ToolDefs[1]))

Given(tool) == {i \in DOMAIN tool.inputs : tool.inputs[i].name \in DOMAIN Supplied
                                          /\ Supplied[tool.inputs[i].name] # Absent}

\* A required input without a value is refused; the others become arguments.
PerToolCall ==
    /\ stmt.stage = "planned"
    /\ LET tool == ToolDefs[stmt.def]
           of(p) == CHOOSE i \in Given(tool) : tool.inputs[i].prop = p
       IN IF \E i \in DOMAIN tool.inputs : tool.inputs[i].required /\ i \notin Given(tool)
          THEN Fail("InvalidParams")
          ELSE /\ Send([name |-> "t", arguments |->
                      Obj([p \in {tool.inputs[i].prop : i \in Given(tool)} |-> Supplied[tool.inputs[of(p)].name]])])
               /\ UNCHANGED <<txn, wire>>
    /\ UNCHANGED <<audit_table, shape, live, audit, log, count>>

-----------------------------------------------------------------------------
(* The answer *)

is_error_result(result) == get(result, "isError") = Bool(TRUE)

CallRecord(result) ==
    [id |-> Len(wire.done) + 1, tool |-> stmt.call.name, arguments |-> stmt.call.arguments,
     content |-> get(result, "content"), structured |-> get(result, "structuredContent"),
     is_error |-> is_error_result(result), error |-> Absent, called_at |-> 0, duration_ms |-> 0]

\* Mutant: a full log keeps what it has.
RecordKeepsOldest(entries, rec) == IF Len(entries) = LOG_CAP THEN entries ELSE Append(entries, rec)

\* The oldest entry gives way.
record(entries, rec) ==
    LET longer == Append(entries, rec)
    IN IF Len(longer) > LOG_CAP THEN Tail(longer) ELSE longer

validate_audit_shape == IF shape \in {"bad", "missing"} THEN "DatatypeMismatch" ELSE "none"

\* The error of audit_append: the shape's, else that of the SPI INSERT.
AuditError ==
    CASE stmt.audit = "none" -> "none"
      [] stmt.audit = "set" /\ validate_audit_shape # "none" -> validate_audit_shape
      [] OTHER -> IF shape = "refuses" THEN "Internal" ELSE "none"

\* Mutant: an audit failure is only a warning.
CompletedLenient(result) ==
    /\ stmt.stage = "called" /\ stmt.s.table = "tool_calls"
    /\ LET rec == CallRecord(result)
       IN /\ log' = record(log, rec)
          /\ wire' = [wire EXCEPT !.done = Append(@, rec), !.owed = IF stmt.audit = "set" THEN Append(@, rec) ELSE @]
          /\ txn' = IF stmt.audit = "set" /\ AuditError = "none" THEN [txn EXCEPT !.pending = Append(@, rec)] ELSE txn
          /\ stmt' = [stmt EXCEPT !.stage = "row", !.k = @ + 1, !.returned = Append(@, [def |-> 0, row |-> row_from_record(rec)])]
    /\ UNCHANGED <<audit_table, shape, live, audit, count>>

\* A result arrives for a tool_calls row, isError or not: the record goes into
\* the log, then into the audit table; an audit error fails the statement.
Completed(result) ==
    /\ stmt.stage = "called" /\ stmt.s.table = "tool_calls"
    /\ LET rec == CallRecord(result)
           owed == IF stmt.audit = "set" THEN <<rec>> ELSE <<>>
       IN /\ log' = record(log, rec)
          /\ IF AuditError # "none"
             THEN /\ txn' = [state |-> "failed", pending |-> <<>>]
                  /\ stmt' = [stmt EXCEPT !.stage = "idle", !.err = AuditError, !.at = "called"]
                  /\ wire' = [wire EXCEPT !.done = Append(@, rec), !.owed = <<>>]
             ELSE /\ txn' = [txn EXCEPT !.pending = @ \o owed]
                  /\ stmt' = [stmt EXCEPT !.stage = "row", !.k = @ + 1,
                                          !.returned = Append(@, [def |-> 0, row |-> row_from_record(rec)])]
                  /\ wire' = [wire EXCEPT !.done = Append(@, rec), !.owed = @ \o owed]
    /\ UNCHANGED <<audit_table, shape, live, audit, count>>

\* A result arrives for a per-tool row: the first row it shapes is returned.
CompletedPerTool(result) ==
    /\ stmt.stage = "called" /\ stmt.s.table # "tool_calls"
    /\ LET tool == ToolDefs[stmt.def]
       IN IF RejectsText(tool, stmt.call.arguments, result)
          THEN Fail("InvalidText")
          ELSE /\ stmt' = [stmt EXCEPT !.stage = "row", !.k = @ + 1, !.returned =
                      Append(@, [def |-> stmt.def, row |-> invoke_and_shape(tool, stmt.call.arguments, result)[1]])]
               /\ UNCHANGED <<txn, wire>>
    /\ UNCHANGED <<audit_table, shape, live, audit, log, count>>

\* A protocol error, a lost connection, a timeout or the user's cancel; the
\* server may have executed the call.
CallFails(err) ==
    /\ stmt.stage = "called"
    /\ Fail(err)
    /\ UNCHANGED <<audit_table, shape, live, audit, log, count>>

end_foreign_modify ==
    /\ stmt.stage = "row" /\ stmt.k > Len(stmt.s.rows)
    /\ stmt' = NoStmt
    /\ UNCHANGED <<audit_table, shape, live, txn, audit, log, wire, count>>

-----------------------------------------------------------------------------
(* The transaction and the DBA *)

BeginTransaction ==
    /\ txn.state = "none"
    /\ txn' = [state |-> "open", pending |-> <<>>]
    /\ UNCHANGED <<audit_table, shape, live, audit, log, stmt, wire, count>>

\* COMMIT of a failed transaction is a rollback.
EndTransaction(commit) ==
    /\ txn.state \in {"open", "failed"} /\ stmt.stage = "idle"
    /\ audit' = IF commit /\ txn.state = "open" THEN audit \o txn.pending ELSE audit
    /\ wire' = [wire EXCEPT !.kept = IF commit /\ txn.state = "open" THEN @ \o wire.owed ELSE @,
                            !.owed = <<>>]
    /\ txn' = [state |-> "none", pending |-> <<>>]
    /\ stmt' = NoStmt
    /\ UNCHANGED <<audit_table, shape, live, log, count>>

\* ALTER SERVER, ALTER or DROP of the audit table (which waits for the rows a
\* transaction has written to it), or the server listing another definition.
Dba ==
    /\ count.dba < MaxDba /\ txn.state # "none"
    /\ count' = [count EXCEPT !.dba = @ + 1]
    /\ \/ /\ audit_table' \in {"none", "set"} \ {audit_table}
          /\ UNCHANGED <<shape, live>>
       \/ /\ txn.pending = <<>>
          /\ shape' \in {"good", "bad", "missing", "refuses"} \ {shape}
          /\ UNCHANGED <<audit_table, live>>
       \/ /\ live' \in (0..Len(ToolDefs)) \ {live}
          /\ UNCHANGED <<audit_table, shape>>
    /\ UNCHANGED <<txn, audit, log, stmt, wire>>

Errors == {"InvalidParams", "MethodNotFound", "Transport"}

Next ==
    \/ \E s \in Statements : begin_foreign_modify(s)
    \/ InsertCall
    \/ \E cached \in BOOLEAN : ResolveTool(cached)
    \/ PerToolCall
    \/ \E r \in CallResults : Completed(r)
    \/ \E r \in CallResults : CompletedPerTool(r)
    \/ \E err \in Errors : CallFails(err)
    \/ end_foreign_modify
    \/ BeginTransaction
    \/ \E commit \in BOOLEAN : EndTransaction(commit)
    \/ Dba

Spec == Init /\ [][Next]_vars

-----------------------------------------------------------------------------
(* Properties *)

\* Type correctness.
TypeOK ==
    /\ audit_table \in {"none", "set"}
    /\ shape \in {"good", "bad", "missing", "refuses"}
    /\ live \in 0..Len(ToolDefs)
    /\ txn.state \in {"none", "open", "failed"}
    /\ Len(log) <= LOG_CAP
    /\ stmt.stage \in {"idle", "row", "planned", "called"}
    /\ stmt.err \in McpError \cup {"none", "InvalidText"}
    /\ stmt.stage # "idle" => stmt.k \in 1..(Len(stmt.s.rows) + 1)

Recent(s, n) == IF Len(s) <= n THEN s ELSE SubSeq(s, Len(s) - n + 1, Len(s))

\* The call log (record, insert): it holds exactly the newest LOG_CAP completed
\* calls in the order they completed, whatever became of their transactions.
LogIsRecent == log = Recent(wire.done, LOG_CAP)

\* The audit table (audit_append): the committed rows are exactly the calls that
\* committed transactions completed while their server had an audit table, once
\* each and in order; a call whose audit row could not be written committed
\* nothing.
AuditExact == audit = wire.kept

Fits(row, columns) ==
    /\ Len(row) = Len(columns)
    /\ \A i \in DOMAIN columns : row[i] = NULL \/ row[i][1] = columns[i][2]

Columns(table) == IF table = "tool_calls" THEN TOOL_CALLS_SPEC ELSE table_columns(ToolDefs[1])

\* RETURNING (exec_foreign_insert writes the result row over the slot): every
\* cell of a row has the type its column declares, if the row was shaped by the
\* definition the table was generated from.
ReturningFits ==
    stmt.stage # "idle" => \A k \in DOMAIN stmt.returned :
        stmt.returned[k].def \in {0, 1} => Fits(stmt.returned[k].row, Columns(stmt.s.table))

\* One tools/call per row, in row order (exec_foreign_insert, insert): a
\* statement has called exactly the rows before the one it is at, that one at
\* most once, and not at all when it refused the row itself; each row before it
\* returned one result.
CalledInOrder ==
    (stmt.stage # "idle" \/ stmt.at \in {"row", "planned", "called"}) =>
        /\ Len(stmt.calls) = IF "called" \in {stmt.stage, stmt.at} THEN stmt.k ELSE stmt.k - 1
        /\ Len(stmt.returned) = stmt.k - 1
        /\ stmt.s.table = "tool_calls" => \A i \in DOMAIN stmt.calls :
             <<"text", stmt.calls[i].name>> = stmt.s.rows[i][attno(TOOL_CALLS_SPEC, "tool")]

\* What INSERT ... RETURNING shows (exec_foreign_insert): one call per row, in
\* order, and cells of the columns' types.
CallPerRow == CalledInOrder /\ ReturningFits

\* A NULL required argument is refused without any I/O (per_tool.rs).
RefusedWithoutIO ==
    (stmt.err = "InvalidParams" /\ stmt.at = "planned" /\ stmt.k = 1) => stmt.lists = 0 /\ stmt.calls = <<>>

=============================================================================
