----------------------------- MODULE PgPerTool -----------------------------
(***************************************************************************)
(* The rows of a generated per-tool table (tables/per_tool.rs): how the    *)
(* result of one tools/call becomes rows.  A planned tool is               *)
(* [inputs, shape, property, outputs]; its columns are                     *)
(* [prop, name, type, required].  PgCodegen derives it from a schema;      *)
(* PgScan and PgInsert call the tool.                                      *)
(***************************************************************************)
EXTENDS PgTables

Each(op(_), items) == [i \in DOMAIN items |-> op(items[i])]

\* Input columns, output columns, then content and is_error.
table_columns(tool) ==
    LET cols == tool.inputs \o tool.outputs
    IN [i \in DOMAIN cols |-> <<cols[i].name, cols[i].type>>]
       \o << <<"content", "jsonb">>, <<"is_error", "bool">> >>

Cells(cols, value) ==
    [i \in DOMAIN cols |-> json_to_cell(get(value, cols[i].prop), cols[i].type)]

\* A value that invoke_and_shape converts and PostgreSQL rejects: an argument
\* echoed as its live type, or a structured value.
RejectsText(tool, arguments, result) ==
    LET structured == get(result, "structuredContent")
        read == IF get(result, "isError") = Bool(TRUE) THEN <<>>
                ELSE IF tool.shape = "element" THEN as_array(get(structured, tool.property))
                ELSE <<structured>>
        Bad(cols, v) == \E k \in DOMAIN cols : Unreadable(get(v, cols[k].prop), cols[k].type)
    IN Bad(tool.inputs, arguments) \/ \E i \in DOMAIN read : Bad(tool.outputs, read[i])

\* Input echo, outputs, content, is_error: the order the DDL emits.
shape_row(tool, arguments, outputs, is_error, content) ==
    Cells(tool.inputs, arguments) \o outputs
    \o <<IF content = Absent THEN NULL ELSE <<"jsonb", content>>, <<"bool", is_error>> >>

invoke_and_shape(tool, arguments, result) ==
    LET content == get(result, "content")
        structured == get(result, "structuredContent")
        elements == as_array(get(structured, tool.property))
        nulls == [i \in DOMAIN tool.outputs |-> NULL]
    IN IF get(result, "isError") = Bool(TRUE)
       THEN <<shape_row(tool, arguments, nulls, TRUE, content)>>
       ELSE CASE tool.shape = "element" /\ elements = <<>> ->
              <<shape_row(tool, arguments, nulls, FALSE, content)>>
         [] tool.shape = "element" /\ elements # <<>> ->
              Each(LAMBDA e : shape_row(tool, arguments, Cells(tool.outputs, e), FALSE, content), elements)
         [] OTHER ->
              <<shape_row(tool, arguments, Cells(tool.outputs, structured), FALSE, content)>>

=============================================================================
