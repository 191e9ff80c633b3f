----------------------------- MODULE MCPgInsert -----------------------------
(***************************************************************************)
(* A small instance of PgInsert: one- and two-row INSERTs, one of them     *)
(* with a NULL tool, per-tool rows with and without the required argument, *)
(* the refused commands, and a call log of two entries.                    *)
(***************************************************************************)
EXTENDS PgInsert

MCRender ==
    [k \in {"uuid", "timestamptz", "date"} \X (0..3) |->
        LET texts == [uuid |-> <<"u0", "u1", "u2", "u3">>,
                      timestamptz |-> <<"t0", "t1", "t2", "t3">>,
                      date |-> <<"d0", "d1", "d2", "d3">>]
        IN texts[k[1]][k[2] + 1]]

T(v) == <<"text", v>>
CallRow(tool, arguments) == empty_row(TOOL_CALLS_SPEC, [tool |-> tool, arguments |-> arguments])
Arguments == <<"jsonb", Obj([x |-> Str("1")])>>

Col(p, t, r) == [prop |-> p, name |-> p, type |-> t, required |-> r]

\* The definition the table was generated from; one that renamed the required
\* argument; one that reads the argument as a date.
MCToolDefs == <<
    [inputs |-> <<Col("city", "text", TRUE), Col("n", "int8", FALSE), Col("day", "date", FALSE)>>,
     shape |-> "single", property |-> "", outputs |-> <<Col("size", "float8", FALSE)>>],
    [inputs |-> <<Col("town", "text", TRUE)>>, shape |-> "none", property |-> "", outputs |-> <<>>],
    [inputs |-> <<Col("city", "date", TRUE)>>, shape |-> "element", property |-> "hits",
     outputs |-> <<Col("size", "float8", FALSE)>>] >>

ToolRow(city, n, day) == empty_row(table_columns(MCToolDefs[1]), [city |-> city, n |-> n, day |-> day])

MCCallResults == {
    Obj([content |-> Arr(<<>>), structuredContent |-> Obj([size |-> Num(3)])]),
    Obj([isError |-> Bool(TRUE)]) }

Insert(table, rows) == [op |-> "INSERT", table |-> table, rows |-> rows]
MCStatements == {
    Insert("tool_calls", <<CallRow(T("a"), Arguments), CallRow(T("b"), NULL)>>),
    Insert("tool_calls", <<CallRow(T("c"), NULL), CallRow(NULL, Arguments)>>),
    Insert("tool_t", <<ToolRow(T("d1"), <<"int8", 5>>, <<"date", 1>>), ToolRow(T("x"), NULL, NULL)>>),
    Insert("tool_t", <<ToolRow(NULL, NULL, NULL)>>),
    Insert("tools", <<>>), [op |-> "UPDATE", table |-> "tool_calls", rows |-> <<>>] }

=============================================================================
