----------------------------- MODULE PgCodegen ------------------------------
(***************************************************************************)
(* The planner of the per-tool objects and the statements that create      *)
(* them: codegen/{mod,types,table,function,view}.rs and import.rs.         *)
(*                                                                         *)
(* Tool definitions are the JSON of PgTables, with two conventions: a name *)
(* is a JSON string whose payload is a symbol sequence of PgIdent, and an  *)
(* object whose order matters ("properties") is <<"entries", s>>, s a      *)
(* sequence of <<key, value>>.  A statement is a record with what          *)
(* PostgreSQL checks when it runs; comments have no effect and are left    *)
(* out.                                                                    *)
(***************************************************************************)
EXTENDS FiniteSets, PgIdent, PgTables

CONSTANT Digits     \* function: the strings that parse as a u64, to the number

TABLE_PREFIX == << <<"lower", "tool_">> >>
VIEW_PREFIX == << <<"lower", "v_">>, <<"lower", "tool_">> >>
Word(w) == << <<"lower", w>> >>

-----------------------------------------------------------------------------
(* JSON Schema to column types *)

map_named_type(t, schema) ==
    CASE t = "string" ->
           LET format == get(schema, "format")
           IN CASE format = Str("date-time") -> "timestamptz"
                [] format = Str("date") -> "date"
                [] format = Str("uuid") -> "uuid"
                [] OTHER -> "text"
      [] t = "integer" -> "int8"
      [] t = "number" -> "float8"
      [] t = "boolean" -> "bool"
      [] OTHER -> "jsonb"

map_type(schema) ==
    LET t == get(schema, "type")
        named == SelectSeq(as_array(t), LAMBDA x : x[1] = "string" /\ x # Str("null"))
    IN CASE schema[1] # "object" -> "jsonb"
         [] schema[1] = "object" /\ {"$ref", "oneOf", "anyOf", "allOf"} \cap DOMAIN schema[2] # {} -> "jsonb"
         [] OTHER -> CASE t[1] = "string" -> map_named_type(t[2], schema)
                       [] t[1] = "array" /\ Len(named) = 1 -> map_named_type(named[1][2], schema)
                       [] OTHER -> "jsonb"

\* The entries of the schema's properties, in the order published.
properties(schema) ==
    LET p == get(schema, "properties") IN IF p[1] = "entries" THEN p[2] ELSE <<>>

HasProperties(schema) == get(schema, "properties")[1] = "entries"

required_list(schema) ==
    LET names == SelectSeq(as_array(get(schema, "required")), LAMBDA x : x[1] = "string")
    IN [i \in DOMAIN names |-> names[i][2]]

required_set(schema) == ToSet(required_list(schema))

enum_hint(schema) == as_array(get(schema, "enum")) # <<>>

-----------------------------------------------------------------------------
(* One tool *)

NonEmpty(name) == IF name = <<>> THEN <<US>> ELSE name

ColumnName(property) == NonEmpty(derive(property, <<>>))

Column(property, name, schema, required) ==
    [prop |-> property, name |-> name, type |-> map_type(schema), required |-> required,
     hint |-> enum_hint(schema)]

\* The items schema of an array of objects.
array_items_of_objects(schema) ==
    LET items == get(schema, "items")
    IN IF get(schema, "type") = Str("array") /\ get(items, "type") = Str("object") THEN items ELSE Absent

element_columns(props) ==
    [i \in DOMAIN props |-> Column(props[i][1], ColumnName(props[i][1]), props[i][2], FALSE)]

Shape(shape, property, props) == [shape |-> shape, property |-> property, outputs |-> element_columns(props)]

\* None, one row per element of the only property, or one row.
analyze_output(schema, props) ==
    CASE schema = Absent -> Shape("none", <<>>, <<>>)
      [] Len(props) = 1 /\ array_items_of_objects(props[1][2]) # Absent ->
           Shape("element", props[1][1], properties(array_items_of_objects(props[1][2])))
      [] OTHER -> Shape("single", <<>>, props)

\* A property whose derived name an earlier one has gets its hash.
InputColumns(props, derived, required) ==
    [i \in DOMAIN props |->
        Column(props[i][1],
               IF \E j \in 1..(i - 1) : derived[j] = derived[i]
               THEN derived[i] \o <<US>> \o sha_suffix(props[i][1]) ELSE derived[i],
               props[i][2], props[i][1] \in required)]

inputs_of(schema, props) ==
    InputColumns(props, [i \in DOMAIN props |-> ColumnName(props[i][1])], required_set(schema))

\* Required inputs in the order of "required", then the optional ones.
Params(inputs, required) ==
    LET known == SelectSeq(required, LAMBDA r : \E i \in DOMAIN inputs : inputs[i].prop = r)
        optional == SelectSeq(inputs, LAMBDA c : ~c.required)
    IN [i \in DOMAIN known |-> (CHOOSE c \in ToSet(inputs) : c.prop = known[i]).name]
       \o [i \in DOMAIN optional |-> optional[i].name]

InvokeOnSelect == {"read_only", "all", "none"}

Gate(gate, read_only) == gate = "all" \/ (gate = "read_only" /\ read_only)

\* A tool whose inputSchema has no properties object is skipped.
Mappable(tool) == HasProperties(get(tool, "inputSchema"))

PlannedTool(tool, sql, target, gate, read_only, inputs, output) ==
    [tool |-> get(tool, "name")[2], sql |-> sql, schema |-> target, read_only |-> read_only,
     invoke |-> Gate(gate, read_only), inputs |-> inputs, shape |-> output.shape,
     property |-> output.property, outputs |-> output.outputs,
     params |-> Params(inputs, required_list(get(tool, "inputSchema")))]

plan_one(tool, sql, target, gate) ==
    PlannedTool(tool, sql, target, gate,
                get(get(tool, "annotations"), "readOnlyHint") = Bool(TRUE),
                inputs_of(get(tool, "inputSchema"), properties(get(tool, "inputSchema"))),
                analyze_output(get(tool, "outputSchema"), properties(get(tool, "outputSchema"))))

-----------------------------------------------------------------------------
(* One batch *)

Usable(tool) == LET n == get(tool, "name") IN n[1] = "string" /\ n[2] # <<>>

\* <<schema, local name>>: in PerUpstream mode the text before the first dot is
\* the schema, when there is text on both sides of it.
Route(tool, schema, perUpstream) ==
    LET name == get(tool, "name")[2]
        dot == SelectInSeq(name, LAMBDA c : c = DOT)
    IN IF perUpstream /\ dot > 1 /\ dot < Len(name)
       THEN <<SubSeq(name, 1, dot - 1), SubSeq(name, dot + 1, Len(name))>>
       ELSE <<schema, name>>

GenerationPlan(named, planned, gate) ==
    [err |-> "none", tools |-> planned, skipped |-> SelectSeq(named, LAMBDA t : ~Mappable(t)),
     promoted |-> SelectSeq(planned, LAMBDA t : gate = "all" /\ ~t.read_only)]

\* The SQL names, made unique within each target schema.
SqlNames(routed, prefix) ==
    LET Within(s) == SelectSeq(routed, LAMBDA r : r[1] = s)
        names == [s \in {routed[i][1] : i \in DOMAIN routed} |->
                    dedup([k \in DOMAIN Within(s) |-> Within(s)[k][2]], prefix)]
        Nth(i) == Cardinality({k \in 1..i : routed[k][1] = routed[i][1]})
    IN [i \in DOMAIN routed |-> names[routed[i][1]][Nth(i)]]

PlanNamed(named, routed, sql, gate) ==
    LET ok == SelectSeq([i \in DOMAIN named |-> i], LAMBDA i : Mappable(named[i]))
    IN GenerationPlan(named, [k \in DOMAIN ok |->
           plan_one(named[ok[k]], sql[ok[k]], routed[ok[k]][1], gate)], gate)

RouteNamed(named, routed, prefix, gate) == PlanNamed(named, routed, SqlNames(routed, prefix), gate)

RouteAll(named, schema, prefix, gate, perUpstream) ==
    RouteNamed(named, [i \in DOMAIN named |-> Route(named[i], schema, perUpstream)], prefix, gate)

plan(tools, schema, prefix, gate, perUpstream) ==
    IF schema = <<>> THEN [err |-> "InvalidOption", tools |-> <<>>, skipped |-> <<>>, promoted |-> <<>>]
    ELSE RouteAll(SelectSeq(tools, Usable), schema, prefix, gate, perUpstream)

-----------------------------------------------------------------------------
(* Statements; a table's upstream option is a set of at most one name. *)

table_name(t) == TABLE_PREFIX \o t.sql
view_name(t) == VIEW_PREFIX \o t.sql

Names(cols) == [i \in DOMAIN cols |-> cols[i].name]

table_options(t, upstream, ttl) == [tool |-> t.tool, invoke |-> t.invoke, upstream |-> upstream, ttl |-> ttl]

create_table(server, t, options) ==
    [op |-> "table", server |-> server, schema |-> t.schema, name |-> table_name(t), options |-> options,
     cols |-> Names(t.inputs) \o Names(t.outputs) \o <<Word("content"), Word("is_error")>>]

parameter_types(t) ==
    [i \in DOMAIN t.params |->
        LET k == SelectInSeq(t.inputs, LAMBDA c : c.name = t.params[i]) IN t.inputs[k].type]

\* The rows of the body: those of a SELECT that invokes, or of an INSERT.
function_body(t) ==
    [arm |-> IF t.read_only /\ t.invoke THEN "select" ELSE "insert",
     yields |-> IF t.shape = "element" THEN Len(t.outputs) ELSE 1]

create_function(server, t) ==
    [op |-> "function", server |-> server, schema |-> t.schema, name |-> t.sql,
     params |-> t.params, types |-> parameter_types(t), body |-> function_body(t),
     returns |-> CASE t.shape # "element" -> <<Word("jsonb")>>
                   [] t.shape = "element" /\ t.outputs = <<>> -> <<Word("content"), Word("is_error")>>
                   [] OTHER -> Names(t.outputs),
     table |-> t.shape = "element"]

eligible(t) == t.read_only /\ t.invoke /\ \A i \in DOMAIN t.inputs : ~t.inputs[i].required

create_view(server, t) ==
    [op |-> "view", server |-> server, schema |-> t.schema, name |-> view_name(t), on |-> table_name(t)]

create_schema(s) == [op |-> "schema", schema |-> s]

-----------------------------------------------------------------------------
(* Import *)

DefaultOptions ==
    [cache_ttl_ms |-> Absent, all_upstreams |-> FALSE, per_tool |-> FALSE,
     invoke_on_select |-> "read_only", prefix |-> <<>>, per_upstream_schema |-> FALSE]

validate_prefix(raw) ==
    /\ \A i \in DOMAIN raw : raw[i][1] \in {"lower", "digit"} \/ raw[i] = US
    /\ raw # <<>> => raw[1][1] # "digit"

\* Whether the value of an option is accepted; an unknown option is not.
OptionOk(key, v) ==
    CASE key = "cache_ttl_ms" -> v[1] = "number" \/ (v[1] = "string" /\ v[2] \in DOMAIN Digits)
      [] key \in {"all_upstreams", "per_tool", "per_upstream_schema"} -> v[1] = "bool"
      [] key = "invoke_on_select" -> v[1] = "string" /\ v[2] \in InvokeOnSelect
      [] key = "prefix" -> v[1] = "string" /\ validate_prefix(v[2])
      [] OTHER -> FALSE

OptionValue(key, v) ==
    IF key = "cache_ttl_ms" THEN Num(IF v[1] = "number" THEN v[2] ELSE Digits[v[2]]) ELSE v[2]

\* <<error, options>>.
ParseImport(value) ==
    CASE value = NULL -> <<"none", DefaultOptions>>
      [] value[1] = "object" /\ \A k \in DOMAIN value[2] : OptionOk(k, value[2][k]) ->
           <<"none", [k \in DOMAIN DefaultOptions |->
               IF k \in DOMAIN value[2] THEN OptionValue(k, value[2][k]) ELSE DefaultOptions[k]]>>
      [] OTHER -> <<"InvalidOption", DefaultOptions>>

RegistryOrder ==
    <<"server", "tools", "prompts", "prompt_arguments", "resources", "resource_templates",
      "resource_contents", "prompt_messages", "completions", "tool_calls">>

RegistryName(n) == IF n = "tool_calls" THEN TABLE_PREFIX \o Word("calls") ELSE Word(n)

create_foreign_table(server, schema, n, upstream, ttl) ==
    [op |-> "table", server |-> server, schema |-> schema, name |-> RegistryName(n),
     cols |-> [i \in DOMAIN REGISTRY[n] |-> Word(REGISTRY[n][i][1])],
     options |-> [tool |-> <<>>, invoke |-> FALSE, upstream |-> upstream, ttl |-> ttl]]

\* filter: [type, names]; a name LIMIT TO or EXCEPT gives that is no table of
\* the registry is ignored.
statements_with(server, schema, filter, opts) ==
    LET kept == SelectSeq(RegistryOrder, LAMBDA n :
                    CASE filter.type = "limit" -> n \in filter.names
                      [] filter.type = "except" -> n \notin filter.names
                      [] OTHER -> TRUE)
    IN [i \in DOMAIN kept |-> create_foreign_table(server, schema, kept[i], {}, opts.cache_ttl_ms)]

is_engine_local(n) == n \in {"server", "tool_calls"}

upstreams_from_tool_names(tools) ==
    LET named == {get(tools[i], "name") : i \in DOMAIN tools}
        dotted == {n[2] : n \in {n \in named : n[1] = "string" /\ Contains(n[2], DOT)}}
    IN {SubSeq(n, 1, SelectInSeq(n, LAMBDA c : c = DOT) - 1) : n \in dotted}

\* A schema with the federated tables for every upstream, then the ten tables,
\* the federated ones scoped to the engine's own names.
engine_statements(server, schema, opts, upstreams) ==
    LET federated == SelectSeq(RegistryOrder, LAMBDA n : ~is_engine_local(n))
        ups == SetToSeq(upstreams)
        Slice(u) == <<create_schema(u)>> \o
                    [i \in DOMAIN federated |->
                        create_foreign_table(server, u, federated[i], {u}, opts.cache_ttl_ms)]
    IN FlattenSeq([i \in DOMAIN ups |-> Slice(ups[i])]) \o
       [i \in DOMAIN RegistryOrder |->
          create_foreign_table(server, schema, RegistryOrder[i],
              IF is_engine_local(RegistryOrder[i]) THEN {} ELSE {<<>>}, opts.cache_ttl_ms)]

\* The statements of a plan: a schema the first time a tool is routed to it,
\* then table, function and view of each tool.
Statements(server, schema, opts, p) ==
    LET Elsewhere(t) == opts.per_upstream_schema /\ t.schema # schema
        First(i) == Elsewhere(p.tools[i]) /\ \A j \in 1..(i - 1) : p.tools[j].schema # p.tools[i].schema
        Of(t, first) ==
            (IF first THEN <<create_schema(t.schema)>> ELSE <<>>)
            \o <<create_table(server, t, table_options(t, IF Elsewhere(t) THEN {t.schema} ELSE {}, opts.cache_ttl_ms)),
                 create_function(server, t)>>
            \o (IF eligible(t) THEN <<create_view(server, t)>> ELSE <<>>)
    IN FlattenSeq([i \in DOMAIN p.tools |-> Of(p.tools[i], First(i))])

PlanOf(schema, tools, opts) == plan(tools, schema, opts.prefix, opts.invoke_on_select, opts.per_upstream_schema)

WithStatements(server, schema, opts, p) == [plan |-> p, statements |-> Statements(server, schema, opts, p)]

per_tool_plan(server, schema, tools, opts) ==
    WithStatements(server, schema, opts, PlanOf(schema, tools, opts))

=============================================================================
