------------------------------- MODULE PgScan -------------------------------
(***************************************************************************)
(* A SELECT on a pg_mcp foreign table, from the planner hook to the rows   *)
(* the executor sees: which clauses get_foreign_plan takes away from       *)
(* PostgreSQL, how parameters are bound when a (possibly generic) plan     *)
(* starts, what each handler asks the MCP server and which rows it keeps,  *)
(* and how the cursor answers iteration and rescan.                        *)
(*                                                                         *)
(* A query is a table with a sequence of clauses.  A clause is             *)
(* [shape, col, vals]: its syntactic shape, its column and the values it   *)
(* compares with; a constant has one value, a parameter is bound to any of *)
(* its vals when the plan is executed.  The server's answers are the       *)
(* constants below; what the server publishes for the per-tool table's     *)
(* tool may change between executions (live).  The session, the retry and  *)
(* the cache under a request are PgCatalog's subject: here a request is    *)
(* answered or fails.                                                      *)
(***************************************************************************)
EXTENDS PgPerTool, PgErrors, FiniteSets

CONSTANTS
    Queries,      \* [table, def, gate, cap, upstream, clauses]
    Lists,        \* method |-> the items it lists
    Contents,     \* uri |-> the contents resources/read answers
    Prompts,      \* prompt |-> [description, messages]
    Completion,   \* argument value |-> the completion object
    ServerInfo,   \* [name, options, sess, initialize]
    Log,          \* the backend's call log, oldest first
    ToolDefs,     \* planned tools: [inputs, shape, property, outputs]
    Result,       \* the tools/call result of each planned tool
    Scoped,       \* a namespaced tool name |-> [upstream, name]
    Bytes,        \* base64 symbols |-> the bytes the server encoded
    MaxPasses     \* bound: scans of one execution, rescans included

VARIABLES
    live,         \* the planned tool of the server's current tools/list, 0 if gone
    scan          \* the statement: its query and plan, the open cursor, its rows

vars == <<live, scan>>

-----------------------------------------------------------------------------
(* The planner hook *)

\* A relation named like a registry table is that table, whatever its options.
target_for_relid(q) == IF q.table \in DOMAIN REGISTRY THEN "registry" ELSE "per_tool"

Declared(q) ==
    IF target_for_relid(q) = "registry" THEN REGISTRY[q.table] ELSE table_columns(ToolDefs[q.def])

\* Mutant: clauses on columns the handler does not filter are taken too.
VarColumnAny(q, col) == TRUE

var_column(q, col) ==
    target_for_relid(q) = "registry" => col \in pushdown_columns[q.table]

ColumnTypeOf(q, col) == Declared(q)[attno(Declared(q), col)][2]

\* The equality operators of the column types, and no other operator.
is_equality_opcode(type) ==
    type \in {"text", "int4", "int8", "bool", "bytea", "jsonb", "uuid", "float8", "date", "timestamptz"}

const_to_json(v) == IF v = NULL THEN Absent ELSE datum_to_json(v)

\* ($n IS NULL OR col = $n), the optional argument of a generated function.
extract_optional_param_qual(q, cl) ==
    IF cl.shape = "optParam" /\ is_equality_opcode(ColumnTypeOf(q, cl.col)) THEN "param" ELSE "local"

\* What the hook makes of a clause: "value" and "param" are taken away from
\* PostgreSQL, "local" stays with it.  Only = on an external parameter binds;
\* the array of = ANY has no JSON form, and = ALL($n) is read like = $n.
extract_qual(q, cl) ==
    IF ~var_column(q, cl.col) THEN "local"
    ELSE CASE cl.shape \in {"var", "notVar", "isTrue", "isFalse"} -> "value"
           [] cl.shape \in {"eqConst", "anyConst"} ->
                IF /\ is_equality_opcode(ColumnTypeOf(q, cl.col))
                   /\ \A v \in cl.vals : const_to_json(v) # Absent
                THEN "value" ELSE "local"
           [] cl.shape \in {"eqParam", "allParam"} ->
                IF is_equality_opcode(ColumnTypeOf(q, cl.col)) THEN "param" ELSE "local"
           [] OTHER -> extract_optional_param_qual(q, cl)

qual_from_var(cl, b) == [field |-> cl.col, op |-> "Equal", value |-> Bool(b)]

\* The qual of a taken clause; for a parameter, of its value v.
QualOf(cl, v) ==
    CASE cl.shape \in {"var", "isTrue"} -> qual_from_var(cl, TRUE)
      [] cl.shape \in {"notVar", "isFalse"} -> qual_from_var(cl, FALSE)
      [] OTHER -> [field |-> cl.col, op |-> "Equal", value |-> datum_to_json(v)]

get_foreign_plan(q) ==
    LET Are(kind) == SelectSeq([i \in DOMAIN q.clauses |-> i],
                               LAMBDA i : extract_qual(q, q.clauses[i]) = kind)
    IN [pushed |-> Are("value"), params |-> Are("param"), local |-> Are("local")]

\* At executor start a NULL or unconvertible parameter gives no qual.
resolve_param_quals(q, plan, bind) ==
    LET bound == SelectSeq(plan.params, LAMBDA i : bind[i] # NULL /\ datum_to_json(bind[i]) # Absent)
    IN [i \in DOMAIN bound |-> QualOf(q.clauses[bound[i]], bind[bound[i]])]

quals_from_private(q, plan, bind) ==
    [i \in DOMAIN plan.pushed |-> QualOf(q.clauses[plan.pushed[i]], bind[plan.pushed[i]])]

-----------------------------------------------------------------------------
(* Quals *)

is_qual_primitive(v) == v[1] \in {"string", "number", "bool"}

is_supported(qual) ==
    IF qual.op = "Equal" THEN qual.value # NULL
    ELSE qual.value[1] = "array" /\ \A i \in DOMAIN qual.value[2] : is_qual_primitive(qual.value[2][i])

restricted_values(qual) == IF qual.op = "Equal" THEN <<qual.value>> ELSE as_array(qual.value)

matches_json(qual, column, candidate) ==
    \/ column # qual.field
    \/ \E i \in DOMAIN restricted_values(qual) : json_equal(restricted_values(qual)[i], candidate)

dedupe(s) == FoldLeft(LAMBDA acc, v : IF Contains(acc, v) THEN acc ELSE Append(acc, v), <<>>, s)

\* All quals on the column intersect; some = FALSE when there is none.
restricted(quals, col) ==
    LET mine == SelectSeq(quals, LAMBDA q : q.field = col)
        InAll(v) == \A i \in DOMAIN mine : Contains(restricted_values(mine[i]), v)
    IN [some |-> mine # <<>>,
        values |-> IF mine = <<>> THEN <<>>
                   ELSE dedupe(SelectSeq(restricted_values(mine[1]), InAll))]

Texts(values) == LET strings == SelectSeq(values, LAMBDA v : v[1] = "string")
                 IN [i \in DOMAIN strings |-> strings[i][2]]

apply_post_filters(spec, rows, quals, pushed) ==
    LET relevant == SelectSeq(quals, LAMBDA q : q.field \in pushed /\ is_supported(q))
    IN SelectSeq(rows, LAMBDA row : \A i \in DOMAIN relevant :
         matches_json(relevant[i], relevant[i].field,
                      as_json(row[attno(spec, relevant[i].field)])))

-----------------------------------------------------------------------------
(* The handlers.  An answer is [err, rows, asked, replay]: the error raised   *)
(* or "none", the rows, the requests sent in order, and whether the cursor    *)
(* starts over on rescan.                                                     *)

\* The cursors of the call log and of the per-tool tables are consumed by their
\* one pass; those of the catalog and the read-through tables are buffers.
LogCursor(rows, asked) == [err |-> "none", rows |-> rows, asked |-> asked, replay |-> FALSE]

PerToolCursor(rows, asked) == [err |-> "none", rows |-> rows, asked |-> asked, replay |-> FALSE]

\* Mutant: a buffered cursor does not start over.
RowsOnce(rows, asked) == [err |-> "none", rows |-> rows, asked |-> asked, replay |-> FALSE]

RowsCursor(rows, asked) == [err |-> "none", rows |-> rows, asked |-> asked, replay |-> TRUE]

BufferedCursor(rows, asked) == [err |-> "none", rows |-> rows, asked |-> asked, replay |-> TRUE]

Raise(err, asked) == [err |-> err, rows |-> <<>>, asked |-> asked, replay |-> TRUE]

\* Tool names are namespaced <upstream>.<name> by an engine server.
scoped_items(upstream, items) ==
    LET name(item) == get(item, "name")
        up(item) == IF name(item)[1] = "string" THEN Scoped[name(item)[2]].upstream ELSE ""
        kept == SelectSeq(items, LAMBDA item : up(item) = upstream)
        strip(item) == IF upstream = "" THEN item
                       ELSE Obj([item[2] EXCEPT !.name = Str(Scoped[name(item)[2]].name)])
    IN [i \in DOMAIN kept |-> strip(kept[i])]

fetch_list(q, method) ==
    IF q.upstream = "none" THEN Lists[method] ELSE scoped_items(q.upstream, Lists[method])

CatalogScan(q, quals) ==
    LET kind == CASE q.table = "tools" -> "tools/list"
                  [] q.table \in {"prompts", "prompt_arguments"} -> "prompts/list"
                  [] q.table = "resources" -> "resources/list"
                  [] OTHER -> "resources/templates/list"
        items == fetch_list(q, kind)
        all == CASE q.table = "tools" -> Each(tools_row, items)
                 [] q.table = "prompts" -> Each(prompts_row, items)
                 [] q.table = "prompt_arguments" -> prompt_argument_rows(items)
                 [] q.table = "resources" -> Each(resources_row, items)
                 [] OTHER -> Each(resource_templates_row, items)
    IN RowsCursor(apply_post_filters(REGISTRY[q.table], all, quals, pushdown_columns[q.table]),
            << <<kind, "">> >>)

ServerScan(q) ==
    RowsCursor(<<server_row(ServerInfo.name, ServerInfo.options, ServerInfo.sess, ServerInfo.initialize)>>,
         << <<"initialize", "">> >>)

\* Without a uri qual every listed URI is read, up to the server's cap.
unqualified_uris(q) ==
    LET uris == dedupe(Texts(Each(LAMBDA item : get(item, "uri"), Lists["resources/list"])))
    IN CASE q.cap = 0 -> [err |-> "FeatureNotSupported", uris |-> <<>>, asked |-> <<>>]
         [] q.cap # 0 /\ Len(uris) > q.cap ->
              [err |-> "TooManyArguments", uris |-> <<>>, asked |-> << <<"resources/list", "">> >>]
         [] OTHER -> [err |-> "none", uris |-> uris, asked |-> << <<"resources/list", "">> >>]

BadBlob(uri) == \E i \in DOMAIN Contents[uri] :
    LET blob == get(Contents[uri][i], "blob") IN blob[1] = "string" /\ ~base64_decode(blob[2]).ok

resource_contents_rows(q, quals) ==
    LET mine == restricted(quals, "uri")
        from == IF mine.some THEN [err |-> "none", uris |-> Texts(mine.values), asked |-> <<>>]
                ELSE unqualified_uris(q)
        bad == {i \in DOMAIN from.uris : BadBlob(from.uris[i])}
        upto == IF bad = {} THEN Len(from.uris) ELSE CHOOSE i \in bad : \A j \in bad : i <= j
        asked == from.asked \o [i \in 1..upto |-> <<"resources/read", from.uris[i]>>]
        rows(uri) == [i \in DOMAIN Contents[uri] |-> resource_content_row(uri, i - 1, Contents[uri][i])]
    IN CASE from.err # "none" -> Raise(from.err, from.asked)
         [] bad # {} -> Raise("InvalidParams", asked)
         [] OTHER -> BufferedCursor(FlattenSeq(Each(rows, from.uris)), asked)

Pairs(xs, ys) == FlattenSeq(Each(LAMBDA x : Each(LAMBDA y : <<x, y>>, ys), xs))

prompt_messages_rows(q, quals) ==
    LET prompts == restricted(quals, "prompt")
        arguments == restricted(quals, "arguments")
        sets == IF arguments.some THEN arguments.values ELSE <<Obj(<<>>)>>
        keys == Pairs(Texts(prompts.values), sets)
        rows(key) == LET p == Prompts[key[1]] IN
            [i \in DOMAIN p.messages |->
               prompt_message_row(key[1], key[2], i - 1, p.messages[i], p.description)]
    IN IF ~prompts.some THEN Raise("FeatureNotSupported", <<>>)
       ELSE BufferedCursor(FlattenSeq(Each(rows, keys)),
                 Each(LAMBDA key : <<"prompts/get", <<key[1], params_object(key[2])>> >>, keys))

completions_rows(q, quals) ==
    LET refs == restricted(quals, "ref")
        names == restricted(quals, "argument_name")
        values == restricted(quals, "argument_value")
        keys == Pairs(refs.values, Pairs(Texts(names.values), Texts(values.values)))
        rows(key) == LET c == Completion[key[2][2]]
                         candidates == as_array(get(c, "values"))
                     IN [i \in DOMAIN candidates |->
                           completion_row(key[1], key[2][1], key[2][2], i - 1, candidates[i], c)]
    IN IF ~(refs.some /\ names.some /\ values.some) THEN Raise("FeatureNotSupported", <<>>)
       ELSE BufferedCursor(FlattenSeq(Each(rows, keys)),
                 Each(LAMBDA key : <<"completion/complete", key>>, keys))

log_entry_matches(quals, rec) ==
    \A i \in DOMAIN quals :
        CASE quals[i].field = "tool" -> quals[i].value = Str(rec.tool)
          [] quals[i].field = "id" -> quals[i].value = Str(Render[<<"uuid", rec.id>>])
          [] OTHER -> TRUE

snapshot == Reverse(Log)

\* No request: the log is in memory.
tool_calls_scan(q, quals) ==
    LET mine == SelectSeq(snapshot, LAMBDA rec : log_entry_matches(quals, rec))
    IN LogCursor(Each(row_from_record, mine), <<>>)

-----------------------------------------------------------------------------
(* Per-tool tables *)

check_gate(q) == q.gate

BindingOf(quals, col) ==
    SelectSeq(quals, LAMBDA q : q.field = col.name /\ q.op = "Equal")

\* The error of arguments_from_quals: a required input without an = qual.
MissingArgument(tool, quals) ==
    IF \E i \in DOMAIN tool.inputs :
         tool.inputs[i].required /\ BindingOf(quals, tool.inputs[i]) = <<>>
    THEN "InvalidParams" ELSE "none"

\* The first = qual on each input column becomes its argument.
arguments_from_quals(tool, quals) ==
    LET bound == {i \in DOMAIN tool.inputs : BindingOf(quals, tool.inputs[i]) # <<>>}
        of(p) == CHOOSE i \in bound : tool.inputs[i].prop = p
    IN Obj([p \in {tool.inputs[i].prop : i \in bound} |->
              BindingOf(quals, tool.inputs[of(p)])[1].value])

\* Quals on outputs, content and is_error; one on an input column was bound,
\* and one on a column the live tool no longer has is passed over.
post_filter(tool, quals, row) ==
    LET columns == Each(LAMBDA c : c.name, tool.outputs) \o <<"content", "is_error">>
        position(field) == SelectInSeq(columns, LAMBDA c : c = field)
        consumed(qual) == qual.op = "Equal" /\ \E i \in DOMAIN tool.inputs : tool.inputs[i].name = qual.field
    IN \A i \in DOMAIN quals :
         \/ consumed(quals[i])
         \/ position(quals[i].field) = 0
         \/ matches_json(quals[i], quals[i].field,
                as_json(row[Len(tool.inputs) + position(quals[i].field)]))

\* Mutant: the gate is consulted after the call.
PerToolGateLast(q, quals) ==
    IF live = 0 \/ q.gate THEN Raise("UndefinedObject", <<>>)
    ELSE Raise("FeatureNotSupported", << <<"tools/list", "">>, <<"tools/call", Obj(<<>>)>> >>)

per_tool_scan(q, quals) ==
    LET tool == ToolDefs[live]
        listed == << <<"tools/list", "">> >>
        arguments == arguments_from_quals(tool, quals)
        rows == SelectSeq(invoke_and_shape(tool, arguments, Result[live]),
                          LAMBDA row : post_filter(tool, quals, row))
    IN CASE ~check_gate(q) -> Raise("FeatureNotSupported", <<>>)
         [] check_gate(q) /\ live = 0 -> Raise("UndefinedObject", listed)
         [] check_gate(q) /\ live # 0 /\ MissingArgument(tool, quals) # "none" ->
              Raise(MissingArgument(tool, quals), listed)
         [] check_gate(q) /\ live # 0 /\ MissingArgument(tool, quals) = "none" /\ RejectsText(tool, arguments, Result[live]) ->
              Raise("InvalidText", Append(listed, <<"tools/call", arguments>>))
         [] OTHER -> PerToolCursor(rows, Append(listed, <<"tools/call", arguments>>))

-----------------------------------------------------------------------------
(* The executor *)

begin_scan(q, quals) ==
    CASE target_for_relid(q) = "per_tool" -> per_tool_scan(q, quals)
      [] q.table = "server" -> ServerScan(q)
      [] q.table = "resource_contents" -> resource_contents_rows(q, quals)
      [] q.table = "prompt_messages" -> prompt_messages_rows(q, quals)
      [] q.table = "completions" -> completions_rows(q, quals)
      [] q.table = "tool_calls" -> tool_calls_scan(q, quals)
      [] OTHER -> CatalogScan(q, quals)

NoScan == [phase |-> "none"]

Init == live = 1 /\ scan = NoScan

\* Parse and plan: the plan is kept and may be executed more than once.
Prepare(q) ==
    /\ scan.phase = "none"
    /\ scan' = [phase |-> "planned", query |-> q, plan |-> get_foreign_plan(q)]
    /\ UNCHANGED live

Bindings(q) == {b \in [DOMAIN q.clauses -> UNION {q.clauses[i].vals : i \in DOMAIN q.clauses}] :
                  \A i \in DOMAIN q.clauses : b[i] \in q.clauses[i].vals}

\* The request numbered at fails.
FailAt(answer, at) == Raise("Transport", SubSeq(answer.asked, 1, at))

begin_foreign_scan(bind, at) ==
    /\ scan.phase = "planned"
    /\ LET q == scan.query
           quals == quals_from_private(q, scan.plan, bind) \o resolve_param_quals(q, scan.plan, bind)
           answer == begin_scan(q, quals)
       IN /\ at <= Len(answer.asked)
          /\ scan' = [phase |-> "open", query |-> q, plan |-> scan.plan, bind |-> bind,
                      answer |-> IF at = 0 THEN answer ELSE FailAt(answer, at),
                      next |-> 1, out |-> <<>>, first |-> <<>>, passes |-> 1, against |-> live]
    /\ UNCHANGED live

\* What the executor reads from the slot: the row by position, by the columns
\* the table declares.
fill_slot(spec, row) ==
    [i \in DOMAIN spec |-> IF i <= Len(row) THEN cell_to_datum(row[i]) ELSE NULL]

Cell(q, slot, col) == slot[attno(Declared(q), col)]

\* SQL's meaning of a clause for a bound value v and a row.
Holds(q, cl, v, slot) ==
    LET c == Cell(q, slot, cl.col) IN
    CASE cl.shape \in {"var", "isTrue"} -> c = <<"bool", TRUE>>
      [] cl.shape \in {"notVar", "isFalse"} -> c = <<"bool", FALSE>>
      [] cl.shape \in {"eqConst", "eqParam", "eqExecParam"} -> v # NULL /\ c = v
      [] cl.shape \in {"anyConst", "anyParam"} -> c # NULL /\ \E i \in DOMAIN v[2] : v[2][i] = c
      [] cl.shape = "allParam" -> c # NULL /\ \A i \in DOMAIN v[2] : v[2][i] = c
      [] cl.shape \in {"optParam", "optExecParam"} -> v = NULL \/ c = v
      [] OTHER -> c = v

\* PostgreSQL re-checks the local clauses only.
Rechecked(slot) ==
    \A k \in DOMAIN scan.plan.local :
        LET i == scan.plan.local[k] IN Holds(scan.query, scan.query.clauses[i], scan.bind[i], slot)

Drained == scan.next > Len(scan.answer.rows)

iterate_foreign_scan ==
    /\ scan.phase = "open" /\ scan.answer.err = "none" /\ ~Drained
    /\ LET slot == fill_slot(Declared(scan.query), scan.answer.rows[scan.next])
       IN scan' = [scan EXCEPT !.next = @ + 1, !.out = IF Rechecked(slot) THEN Append(@, slot) ELSE @]
    /\ UNCHANGED live

\* A node above runs the scan again once it has read it through.
re_scan_foreign_scan ==
    /\ scan.phase = "open" /\ scan.answer.err = "none" /\ Drained /\ scan.passes < MaxPasses
    /\ scan' = [scan EXCEPT !.next = IF scan.answer.replay THEN 1 ELSE @,
                            !.out = <<>>, !.first = scan.out, !.passes = @ + 1]
    /\ UNCHANGED live

\* After the last row or an error; the plan may be executed again or dropped.
end_foreign_scan ==
    /\ scan.phase = "open" /\ (scan.answer.err # "none" \/ Drained)
    /\ \/ scan' = [phase |-> "planned", query |-> scan.query, plan |-> scan.plan]
       \/ scan' = NoScan
    /\ UNCHANGED live

\* The server publishes another definition of the tool, or none.
Publish(def) ==
    /\ live # def /\ scan.phase \in {"planned", "open"} /\ target_for_relid(scan.query) = "per_tool"
    /\ live' = def
    /\ UNCHANGED scan

Next ==
    \/ \E q \in Queries : Prepare(q)
    \/ \E at \in 0..3 : scan.phase = "planned" /\ \E bind \in Bindings(scan.query) : begin_foreign_scan(bind, at)
    \/ iterate_foreign_scan
    \/ re_scan_foreign_scan
    \/ end_foreign_scan
    \/ \E def \in 0..Len(ToolDefs) : Publish(def)

Spec == Init /\ [][Next]_vars

-----------------------------------------------------------------------------
(* Properties *)

Executed == scan.phase = "open" /\ scan.answer.err = "none"
Complete == Executed /\ Drained /\ scan.passes = 1

\* The table was generated from the definition the scan ran against.
Current == target_for_relid(scan.query) = "per_tool" => scan.against = scan.query.def

Taken(i) == extract_qual(scan.query, scan.query.clauses[i]) # "local"

\* A taken clause that reached the handler with a scalar value.
Bound(i) == scan.query.clauses[i].shape = "optParam"
            \/ (scan.bind[i] # NULL /\ datum_to_json(scan.bind[i]) # Absent)

\* A value the filters compare exactly.
Exact(i) == /\ scan.bind[i][1] \in {"int8", "float8"} => scan.bind[i][2] <= F64_EXACT
            /\ scan.bind[i][1] \in {"uuid", "timestamptz"} /\ target_for_relid(scan.query) = "per_tool"
                 => \E k \in DOMAIN ToolDefs[scan.query.def].inputs :
                      ToolDefs[scan.query.def].inputs[k].name = scan.query.clauses[i].col

\* The JSON values the equalities of the query name for a column.
Named(col) == {datum_to_json(scan.bind[i]) : i \in {i \in DOMAIN scan.query.clauses :
    /\ scan.query.clauses[i].col = col /\ Taken(i)
    /\ scan.bind[i] # NULL /\ datum_to_json(scan.bind[i]) # Absent}}

\* The rows a query ranges over.  A table that reads on demand holds the rows
\* of every key the query names (for resource_contents, of every listed URI when
\* it names none); a per-tool table, those of the call the query describes.
Whole(q) ==
    CASE q.table = "server" -> ServerScan(q).rows
      [] q.table = "tool_calls" -> Each(row_from_record, snapshot)
      [] q.table = "resource_contents" ->
           LET listed == {get(item, "uri")[2] : item \in ToSet(Lists["resources/list"])}
               uris == IF Named("uri") = {} THEN listed ELSE {v[2] : v \in Named("uri")}
           IN FlattenSeq(Each(LAMBDA uri : [i \in DOMAIN Contents[uri] |->
                  resource_content_row(uri, i - 1, Contents[uri][i])], SetToSeq(uris)))
      [] q.table = "prompt_messages" ->
           LET sets == IF Named("arguments") = {} THEN {Obj(<<>>)} ELSE Named("arguments")
           IN FlattenSeq(Each(LAMBDA key : [i \in DOMAIN Prompts[key[1][2]].messages |->
                  prompt_message_row(key[1][2], key[2], i - 1, Prompts[key[1][2]].messages[i],
                                     Prompts[key[1][2]].description)],
                  SetToSeq(Named("prompt") \X sets)))
      [] q.table = "completions" ->
           FlattenSeq(Each(LAMBDA key :
                  LET c == Completion[key[3][2]] IN [i \in DOMAIN as_array(get(c, "values")) |->
                     completion_row(key[1], key[2][2], key[3][2], i - 1, as_array(get(c, "values"))[i], c)],
                  SetToSeq(Named("ref") \X Named("argument_name") \X Named("argument_value"))))
      [] target_for_relid(q) = "per_tool" ->
           LET tool == ToolDefs[scan.against]
               given == {i \in DOMAIN tool.inputs : Named(tool.inputs[i].name) # {}}
           IN invoke_and_shape(tool,
                Obj([p \in {tool.inputs[i].prop : i \in given} |->
                       CHOOSE v \in Named(tool.inputs[CHOOSE i \in given : tool.inputs[i].prop = p].name) : TRUE]),
                Result[scan.against])
      [] OTHER -> CatalogScan(q, <<>>).rows

Wanted(slot) == \A i \in DOMAIN scan.query.clauses :
    Holds(scan.query, scan.query.clauses[i], scan.bind[i], slot)

Reference == SelectSeq(Each(LAMBDA row : fill_slot(Declared(scan.query), row), Whole(scan.query)), Wanted)

Count(s, v) == Cardinality({i \in DOMAIN s : s[i] = v})
SameRows(s, t) == \A v \in ToSet(s) \cup ToSet(t) : Count(s, v) = Count(t, v)

\* Type correctness of the statement.
TypeOK ==
    /\ live \in 0..Len(ToolDefs)
    /\ scan.phase \in {"none", "planned", "open"}
    /\ scan.phase = "open" => /\ scan.answer.err \in McpError \cup {"none", "InvalidText"}
                              /\ scan.next \in 1..(Len(scan.answer.rows) + 1)
                              /\ Len(scan.out) <= Len(scan.answer.rows)

\* Pushdown (fdw.rs get_foreign_plan and the handlers' filters): although
\* PostgreSQL does not re-check the clauses it was relieved of, a scan returns
\* exactly the rows SQL asks for, when every taken clause was bound to a scalar
\* of a type its filter can compare and the table is current.
ScanExact ==
    (Complete /\ Current /\ \A i \in DOMAIN scan.query.clauses : Taken(i) => Bound(i) /\ Exact(i))
        => SameRows(scan.out, Reference)

\* The same without the conditions on the bound values: pushing a clause down
\* never changes what a query means (quals.rs).
PushdownSound == (Complete /\ Current) => SameRows(scan.out, Reference)

\* Rescan (RowsCursor and BufferedCursor): when a node above runs the scan
\* again, a buffered cursor of a catalog or read-through table returns the rows
\* of its first pass, and asks nothing.
RescanSame ==
    (Executed /\ Drained /\ scan.passes > 1 /\ target_for_relid(scan.query) = "registry"
        /\ scan.query.table # "tool_calls") => scan.out = scan.first

\* The same for every cursor: ScanCursor::re_scan restarts the scan.
EveryCursorRestarts == (Executed /\ Drained /\ scan.passes > 1) => scan.out = scan.first

Effects == {"resources/read", "prompts/get", "completion/complete", "tools/call"}
Sent(methods) == {i \in DOMAIN scan.answer.asked : scan.answer.asked[i][1] \in methods}

\* A statement the extension refuses itself has read nothing and called no tool.
RefusedIsHarmless ==
    (\/ scan.answer.err \in {"FeatureNotSupported", "TooManyArguments", "UndefinedObject"}
     \/ scan.answer.err = "InvalidParams" /\ target_for_relid(scan.query) = "per_tool")
    => Sent(Effects) = {}

\* The others ask for each key once and within the cap.
OneRequestPerKey ==
    /\ \A i, j \in DOMAIN scan.answer.asked :
         scan.answer.asked[i] = scan.answer.asked[j] => i = j
    /\ (scan.query.table = "resource_contents" /\ Named("uri") = {})
         => Cardinality(Sent({"resources/read"})) <= scan.query.cap
    /\ (Executed /\ target_for_relid(scan.query) = "per_tool")
         => Cardinality(Sent({"tools/call"})) = 1

\* What a scan asks of the server (check_gate, arguments_from_quals, restricted,
\* dedupe, unqualified_uris): a statement the extension refuses itself (a closed
\* gate, a missing required qual or argument, an unqualified read above the cap)
\* has read nothing and called no tool; the others never ask the same thing
\* twice, read no more URIs than the cap when the query names none, and call the
\* tool of a per-tool table exactly once.
RequestsJustified == scan.phase = "open" => RefusedIsHarmless /\ OneRequestPerKey

\* Cells have the types of their columns.
CellsFit ==
    (Executed /\ Current) => \A k \in DOMAIN scan.out : \A i \in DOMAIN Declared(scan.query) :
        scan.out[k][i] = NULL \/ scan.out[k][i][1] = Declared(scan.query)[i][2]

\* Blobs come back as the bytes they were made from.
BlobsSurvive ==
    (Executed /\ scan.query.table = "resource_contents") => \A k \in DOMAIN scan.out :
        LET slot == scan.out[k]
            blob == get(Contents[slot[1][2]][slot[2][2] + 1], "blob")
        IN slot[5] = IF blob = Absent THEN NULL ELSE <<"bytea", Bytes[blob[2]]>>

\* What the executor sees of the server's values: fill_slot writes cells by
\* position without looking at the column's type, and for a current table every
\* cell has the type its column declares; the bytea of a blob is the byte string
\* the server encoded (base64_decode, resource_content_row).
ValuesFaithful == CellsFit /\ BlobsSurvive

=============================================================================
