------------------------------ MODULE PgTables ------------------------------
(***************************************************************************)
(* The value model of the pg_mcp foreign tables: JSON values, the typed    *)
(* cells the handlers produce, PostgreSQL datums, the conversions between  *)
(* the three, the ten registry tables and the row builders that project a  *)
(* server answer onto them.                                                *)
(*                                                                         *)
(* Every value is a pair <<kind, payload>>.  JSON kinds are string,        *)
(* number, bool, object, array and null; cell and datum kinds are the      *)
(* column types.  NULL is both JSON null and SQL NULL.  A uuid, date or    *)
(* timestamptz datum is a natural number, and Render gives the text        *)
(* PostgreSQL and the wire write it with (one text per value, RFC 3339 for *)
(* instants); a text that Render does not produce does not parse.          *)
(* Numbers above F64_EXACT lose their last bit as an f64 (2^53 in the      *)
(* code), and INT4_BITS is the width of an i32.                            *)
(***************************************************************************)
EXTENDS Integers, Sequences, SequencesExt

CONSTANTS Render, F64_EXACT, INT4_BITS

ASSUME WidthsAssumption == F64_EXACT \in Nat /\ INT4_BITS \in Nat \ {0}

-----------------------------------------------------------------------------
(* JSON *)

NULL == <<"null", 0>>
Absent == <<"absent", 0>>
Str(v) == <<"string", v>>
Num(n) == <<"number", n>>
Bool(b) == <<"bool", b>>
Obj(fields) == <<"object", fields>>
Arr(items) == <<"array", items>>

get(v, field) ==
    IF v[1] = "object" /\ field \in DOMAIN v[2] THEN v[2][field] ELSE Absent

as_array(v) == IF v[1] = "array" THEN v[2] ELSE <<>>

F64(n) == IF n <= F64_EXACT THEN n ELSE (n \div 2) * 2

I32(n) == LET half == 2^(INT4_BITS - 1) IN ((n + half) % (2 * half)) - half

FitsI32(n) == n = I32(n)

\* SQL NULL satisfies no equality; numbers are compared as f64.
json_equal(a, b) ==
    /\ a # NULL /\ b # NULL
    /\ \/ a[1] = "number" /\ b[1] = "number" /\ F64(a[2]) = F64(b[2])
       \/ ~(a[1] = "number" /\ b[1] = "number") /\ a = b

\* A missing or null argument object is sent as {}.
params_object(v) == IF v \in {NULL, Absent} THEN Obj(<<>>) ELSE v

-----------------------------------------------------------------------------
(* Cells and datums *)

ColumnType ==
    {"text", "jsonb", "bool", "int4", "int8", "float8", "bytea", "uuid",
     "timestamptz", "date"}

Parses(kind, v) == v[1] = "string" /\ \E n \in 0..3 : Render[<<kind, n>>] = v[2]
Parsed(kind, v) == CHOOSE n \in 0..3 : Render[<<kind, n>>] = v[2]

\* Cell::as_json.  Bytes, uuids and instants project to null.
as_json(cell) ==
    CASE cell[1] \in {"text", "date"} -> Str(cell[2])
      [] cell[1] = "jsonb" -> cell[2]
      [] cell[1] = "bool" -> Bool(cell[2])
      [] cell[1] \in {"int4", "int8", "float8"} -> Num(cell[2])
      [] OTHER -> NULL

\* A date cell carries the text the server wrote; date_in reads it here.
cell_to_datum(cell) ==
    IF cell[1] = "date" THEN <<"date", Parsed("date", Str(cell[2]))>> ELSE cell

\* Absent stands for None: a NULL, or a type that quals do not carry.
datum_to_json(datum) ==
    CASE datum[1] = "text" -> Str(datum[2])
      [] datum[1] = "jsonb" -> datum[2]
      [] datum[1] = "bool" -> Bool(datum[2])
      [] datum[1] \in {"int4", "int8", "float8"} -> Num(datum[2])
      [] datum[1] \in {"uuid", "date", "timestamptz"} -> Str(Render[datum])
      [] OTHER -> Absent

\* A text PostgreSQL's input function rejects: the error is PostgreSQL's own and
\* ends the statement.
Unreadable(v, type) ==
    type \in {"uuid", "timestamptz", "date"} /\ v[1] = "string" /\ ~Parses(type, v)

\* json_to_cell, with the type error that every scan turns into NULL.
json_to_cell(v, type) ==
    IF v \in {NULL, Absent} THEN NULL
    ELSE CASE type = "text" -> <<"text", IF v[1] = "string" THEN v[2] ELSE Render[v]>>
           [] type = "jsonb" -> <<"jsonb", v>>
           [] type = "bool" /\ v[1] = "bool" -> <<"bool", v[2]>>
           [] type = "int4" /\ v[1] = "number" /\ FitsI32(v[2]) -> <<"int4", v[2]>>
           [] type = "int8" /\ v[1] = "number" -> <<"int8", v[2]>>
           [] type = "float8" /\ v[1] = "number" -> <<"float8", F64(v[2])>>
           [] type \in {"uuid", "timestamptz"} /\ Parses(type, v) -> <<type, Parsed(type, v)>>
           [] type = "date" /\ Parses("date", v) -> <<"date", v[2]>>
           [] OTHER -> NULL

-----------------------------------------------------------------------------
(* The registry: ten tables, each a sequence of <<column, type>>. *)

SERVER_SPEC ==
    << <<"name", "text">>, <<"url", "text">>, <<"protocol_version", "text">>,
       <<"server_name", "text">>, <<"server_version", "text">>,
       <<"instructions", "text">>, <<"capabilities", "jsonb">>,
       <<"mode", "text">>, <<"session_id", "text">> >>

TOOLS_SPEC ==
    << <<"name", "text">>, <<"title", "text">>, <<"description", "text">>,
       <<"input_schema", "jsonb">>, <<"output_schema", "jsonb">>,
       <<"annotations", "jsonb">>, <<"read_only", "bool">>,
       <<"destructive", "bool">>, <<"idempotent", "bool">>,
       <<"open_world", "bool">>, <<"meta", "jsonb">> >>

PROMPTS_SPEC ==
    << <<"name", "text">>, <<"title", "text">>, <<"description", "text">>, <<"meta", "jsonb">> >>

PROMPT_ARGUMENTS_SPEC ==
    << <<"prompt", "text">>, <<"name", "text">>, <<"description", "text">>,
       <<"required", "bool">>, <<"idx", "int4">> >>

RESOURCES_SPEC ==
    << <<"uri", "text">>, <<"name", "text">>, <<"title", "text">>,
       <<"description", "text">>, <<"mime_type", "text">>, <<"size", "int8">>,
       <<"annotations", "jsonb">>, <<"meta", "jsonb">> >>

RESOURCE_TEMPLATES_SPEC ==
    << <<"uri_template", "text">>, <<"name", "text">>, <<"title", "text">>,
       <<"description", "text">>, <<"mime_type", "text">>,
       <<"annotations", "jsonb">>, <<"meta", "jsonb">> >>

RESOURCE_CONTENTS_SPEC ==
    << <<"uri", "text">>, <<"idx", "int4">>, <<"mime_type", "text">>,
       <<"text", "text">>, <<"blob", "bytea">>, <<"meta", "jsonb">> >>

PROMPT_MESSAGES_SPEC ==
    << <<"prompt", "text">>, <<"arguments", "jsonb">>, <<"idx", "int4">>,
       <<"role", "text">>, <<"content_type", "text">>, <<"text", "text">>,
       <<"content", "jsonb">>, <<"description", "text">> >>

COMPLETIONS_SPEC ==
    << <<"ref", "jsonb">>, <<"argument_name", "text">>, <<"argument_value", "text">>,
       <<"value", "text">>, <<"idx", "int4">>, <<"total", "int4">>, <<"has_more", "bool">> >>

TOOL_CALLS_SPEC ==
    << <<"id", "uuid">>, <<"tool", "text">>, <<"arguments", "jsonb">>,
       <<"content", "jsonb">>, <<"structured", "jsonb">>, <<"is_error", "bool">>,
       <<"error", "jsonb">>, <<"called_at", "timestamptz">>, <<"duration_ms", "int4">> >>

REGISTRY ==
    [server |-> SERVER_SPEC, tools |-> TOOLS_SPEC, prompts |-> PROMPTS_SPEC,
     prompt_arguments |-> PROMPT_ARGUMENTS_SPEC, resources |-> RESOURCES_SPEC,
     resource_templates |-> RESOURCE_TEMPLATES_SPEC,
     resource_contents |-> RESOURCE_CONTENTS_SPEC,
     prompt_messages |-> PROMPT_MESSAGES_SPEC, completions |-> COMPLETIONS_SPEC,
     tool_calls |-> TOOL_CALLS_SPEC]

\* The columns whose equality quals a handler applies itself.
pushdown_columns ==
    [server |-> {}, tools |-> {"name"}, prompts |-> {"name"},
     prompt_arguments |-> {"prompt"}, resources |-> {}, resource_templates |-> {},
     resource_contents |-> {"uri"}, prompt_messages |-> {"prompt", "arguments"},
     completions |-> {"ref", "argument_name", "argument_value"},
     tool_calls |-> {"tool", "id"}]

attno(spec, col) == SelectInSeq(spec, LAMBDA c : c[1] = col)

\* A full-width row: the cells given by column name, NULL in the others.
empty_row(spec, cells) ==
    [i \in DOMAIN spec |-> IF spec[i][1] \in DOMAIN cells THEN cells[spec[i][1]] ELSE NULL]

-----------------------------------------------------------------------------
(* Row builders *)

text_at(item, field) ==
    LET v == get(item, field) IN IF v[1] = "string" THEN <<"text", v[2]>> ELSE NULL

json_at(item, field) ==
    LET v == get(item, field) IN IF v \in {NULL, Absent} THEN NULL ELSE <<"jsonb", v>>

bool_at(item, field) ==
    LET v == get(item, field) IN IF v[1] = "bool" THEN <<"bool", v[2]>> ELSE NULL

int8_at(item, field) ==
    LET v == get(item, field) IN IF v[1] = "number" THEN <<"int8", v[2]>> ELSE NULL

annotation(item, field) == bool_at(get(item, "annotations"), field)

tools_row(item) == empty_row(TOOLS_SPEC,
    [name |-> text_at(item, "name"), title |-> text_at(item, "title"),
     description |-> text_at(item, "description"),
     input_schema |-> json_at(item, "inputSchema"),
     output_schema |-> json_at(item, "outputSchema"),
     annotations |-> json_at(item, "annotations"),
     read_only |-> annotation(item, "readOnlyHint"),
     destructive |-> annotation(item, "destructiveHint"),
     idempotent |-> annotation(item, "idempotentHint"),
     open_world |-> annotation(item, "openWorldHint"), meta |-> json_at(item, "_meta")])

prompts_row(item) == empty_row(PROMPTS_SPEC,
    [name |-> text_at(item, "name"), title |-> text_at(item, "title"),
     description |-> text_at(item, "description"), meta |-> json_at(item, "_meta")])

prompt_argument_rows(prompts) == FlattenSeq([p \in DOMAIN prompts |->
    LET arguments == as_array(get(prompts[p], "arguments"))
    IN [i \in DOMAIN arguments |-> empty_row(PROMPT_ARGUMENTS_SPEC,
          [prompt |-> text_at(prompts[p], "name"), name |-> text_at(arguments[i], "name"),
           description |-> text_at(arguments[i], "description"),
           required |-> bool_at(arguments[i], "required"), idx |-> <<"int4", i - 1>>])]])

\* Mutant: the size is stored as the JSON it came as.
ResourcesRowJsonSize(item) == empty_row(RESOURCES_SPEC,
    [uri |-> text_at(item, "uri"), size |-> json_at(item, "size")])

resources_row(item) == empty_row(RESOURCES_SPEC,
    [uri |-> text_at(item, "uri"), name |-> text_at(item, "name"),
     title |-> text_at(item, "title"), description |-> text_at(item, "description"),
     mime_type |-> text_at(item, "mimeType"), size |-> int8_at(item, "size"),
     annotations |-> json_at(item, "annotations"), meta |-> json_at(item, "_meta")])

resource_templates_row(item) == empty_row(RESOURCE_TEMPLATES_SPEC,
    [uri_template |-> text_at(item, "uriTemplate"), name |-> text_at(item, "name"),
     title |-> text_at(item, "title"), description |-> text_at(item, "description"),
     mime_type |-> text_at(item, "mimeType"),
     annotations |-> json_at(item, "annotations"), meta |-> json_at(item, "_meta")])

resolved_mode(mode) == IF mode = "sql" THEN "sql" ELSE "generic"

\* The session columns are the handshake's; instructions come from the
\* initialize slice.
server_row(name, options, sess, initialize) == empty_row(SERVER_SPEC,
    [name |-> <<"text", name>>, url |-> <<"text", options.url>>,
     mode |-> <<"text", resolved_mode(options.mode)>>,
     protocol_version |-> <<"text", sess.protocol_version>>,
     server_name |-> text_at(sess.server_info, "name"),
     server_version |-> text_at(sess.server_info, "version"),
     capabilities |-> IF sess.capabilities = NULL THEN NULL ELSE <<"jsonb", sess.capabilities>>,
     session_id |-> IF sess.session_id = "none" THEN NULL ELSE <<"text", sess.session_id>>,
     instructions |-> text_at(initialize, "instructions")])

\* Symbols of a base64 text: 0..63 the alphabet, 64 '=', 65 white space, 66 any
\* other.
base64_decode(symbols) ==
    LET spaced == SelectSeq(symbols, LAMBDA c : c # 65)
        pads == {i \in DOMAIN spaced : spaced[i] = 64}
        stripped == IF pads = {} THEN spaced
                    ELSE SubSeq(spaced, 1, (CHOOSE i \in pads : \A j \in pads : i <= j) - 1)
        chunks == [k \in 1..((Len(stripped) + 3) \div 4) |->
                     SubSeq(stripped, 4 * k - 3, IF 4 * k < Len(stripped) THEN 4 * k ELSE Len(stripped))]
        At(chunk, i) == IF i <= Len(chunk) THEN chunk[i] ELSE 0
        acc(chunk) == At(chunk, 1) * 64^3 + At(chunk, 2) * 64^2 + At(chunk, 3) * 64 + At(chunk, 4)
        bytes(chunk) == SubSeq(<<acc(chunk) \div 65536, (acc(chunk) \div 256) % 256,
                                 acc(chunk) % 256>>, 1, Len(chunk) - 1)
    IN IF (\E i \in DOMAIN stripped : stripped[i] > 63) \/ (\E k \in DOMAIN chunks : Len(chunks[k]) = 1)
       THEN [ok |-> FALSE, bytes |-> <<>>]
       ELSE [ok |-> TRUE, bytes |-> FlattenSeq([k \in DOMAIN chunks |-> bytes(chunks[k])])]

\* A blob is a JSON string whose payload is its sequence of symbols.
resource_content_row(uri, idx, content) == empty_row(RESOURCE_CONTENTS_SPEC,
    [uri |-> <<"text", uri>>, idx |-> <<"int4", idx>>,
     mime_type |-> text_at(content, "mimeType"), text |-> text_at(content, "text"),
     blob |-> LET blob == get(content, "blob") IN
              IF blob[1] = "string" THEN <<"bytea", base64_decode(blob[2]).bytes>> ELSE NULL,
     meta |-> json_at(content, "_meta")])

prompt_message_row(prompt, arguments, idx, message, description) == empty_row(PROMPT_MESSAGES_SPEC,
    LET content == get(message, "content") IN
    [prompt |-> <<"text", prompt>>, arguments |-> <<"jsonb", arguments>>,
     idx |-> <<"int4", idx>>, role |-> text_at(message, "role"),
     content_type |-> text_at(content, "type"), text |-> text_at(content, "text"),
     content |-> json_at(message, "content"),
     description |-> IF description[1] = "string" THEN <<"text", description[2]>> ELSE NULL])

completion_row(ref, name, value, idx, candidate, completion) == empty_row(COMPLETIONS_SPEC,
    [ref |-> <<"jsonb", ref>>, argument_name |-> <<"text", name>>,
     argument_value |-> <<"text", value>>,
     value |-> IF candidate[1] = "string" THEN <<"text", candidate[2]>> ELSE NULL,
     idx |-> <<"int4", idx>>,
     total |-> LET t == get(completion, "total") IN
               IF t[1] = "number" THEN <<"int4", I32(t[2])>> ELSE NULL,
     has_more |-> bool_at(completion, "hasMore")])

\* A record of the call log; None fields are NULL.
row_from_record(rec) ==
    LET json(v) == IF v = Absent THEN NULL ELSE <<"jsonb", v>> IN
    << <<"uuid", rec.id>>, <<"text", rec.tool>>, <<"jsonb", rec.arguments>>,
       json(rec.content), json(rec.structured), <<"bool", rec.is_error>>,
       json(rec.error), <<"timestamptz", rec.called_at>>, <<"int4", rec.duration_ms>> >>

=============================================================================
