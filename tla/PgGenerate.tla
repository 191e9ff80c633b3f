----------------------------- MODULE PgGenerate -----------------------------
(***************************************************************************)
(* mcp.import, mcp.generate_functions and IMPORT FOREIGN SCHEMA against    *)
(* the PostgreSQL catalog: the DDL each call runs in the caller's          *)
(* transaction, and mcp.generated, the record of what it created           *)
(* (api.rs, codegen/registry.rs, fdw.rs).                                  *)
(*                                                                         *)
(* Each call is a transaction: one that raises leaves the catalog and      *)
(* mcp.generated as they were.                                             *)
(* Between calls the servers publish other tool lists and the users drop   *)
(* generated objects and create their own.                                 *)
(***************************************************************************)
EXTENDS PgCodegen, FiniteSets

CONSTANTS
    Servers,        \* foreign servers of the catalog
    ServerNames,    \* servers a call may name
    Target,         \* function: the schema a call for a server names
    CallOptions,    \* jsonb options a call may give
    Filters,        \* LIMIT TO / EXCEPT clauses
    Published,      \* function: the tool lists a server may publish
    SymbolOrder,    \* function: symbol texts to numbers, the collation
    MaxCalls,       \* bound: calls that succeed
    MaxUser         \* bound: steps of users and of servers

VARIABLES
    db,             \* [schemas, rels, funcs]: the catalog
    generated,      \* mcp.generated: <<schema, name>> to [server, kind, tool, at]
    tools,          \* the list each server publishes
    call,           \* the last call and its outcome
    count           \* [calls, user]: the bounded counters

vars == <<db, generated, tools, call, count>>

NoCall == [fn |-> "none"]

Init ==
    /\ db = [schemas |-> {Target[s] : s \in Servers}, rels |-> <<>>, funcs |-> {}]
    /\ generated = <<>>
    /\ tools \in [Servers -> UNION {Published[s] : s \in Servers}]
    /\ \A s \in Servers : tools[s] \in Published[s]
    /\ call = NoCall /\ count = [calls |-> 0, user |-> 0]

-----------------------------------------------------------------------------
(* PostgreSQL *)

\* An identifier that is too long is cut.
Cut(name) == Prefix(name, MAX_BYTES)

Distinct(names) == \A i, j \in DOMAIN names : Cut(names[i]) = Cut(names[j]) => i = j

Rel(schema, name) == <<Cut(schema), Cut(name)>>

\* The error of a CREATE, "none" if it succeeds.
CreateError(d, s) ==
    IF s.op = "schema"
    THEN IF s.schema = <<>> THEN "42601" ELSE IF Cut(s.schema) \in d.schemas THEN "42P06" ELSE "none"
    ELSE IF Cut(s.schema) \notin d.schemas THEN "3F000"
    ELSE IF s.op \in {"table", "view"} /\ Rel(s.schema, s.name) \in DOMAIN d.rels THEN "42P07"
    ELSE CASE s.op = "table" -> IF Distinct(s.cols) THEN "none" ELSE "42701"
      [] s.op = "function" ->
           CASE s.name = <<>> -> "42601"
             [] s.name # <<>> /\ ~Distinct(IF s.table THEN s.params \o s.returns ELSE s.params) -> "42P13"
             [] s.name # <<>> /\ s.body.yields # Len(s.returns) -> "42P13"
             [] OTHER -> IF \E f \in d.funcs : <<f.schema, f.name, f.types>> = <<Cut(s.schema), Cut(s.name), s.types>>
                         THEN "42723" ELSE "none"
      [] OTHER -> "none"

\* One statement; after an error the others are not run.
Run(d, s) ==
    IF d.err # "none" THEN d
    ELSE IF CreateError(d, s) # "none" THEN [d EXCEPT !.err = CreateError(d, s)]
    ELSE CASE s.op = "schema" -> [d EXCEPT !.schemas = @ \cup {Cut(s.schema)}]
           [] s.op = "table" -> [d EXCEPT !.rels = @ @@ (Rel(s.schema, s.name) :>
                 [kind |-> "table", owner |-> s.server, on |-> {}, options |-> s.options])]
           [] s.op = "view" -> [d EXCEPT !.rels = @ @@ (Rel(s.schema, s.name) :>
                 [kind |-> "view", owner |-> s.server, on |-> {Rel(s.schema, s.on)},
                  options |-> [tool |-> <<>>, invoke |-> TRUE, upstream |-> {}, ttl |-> Absent]])]
           [] OTHER -> [d EXCEPT !.funcs = @ \cup {[schema |-> Cut(s.schema), name |-> Cut(s.name),
                                                     types |-> s.types, owner |-> s.server]}]

RunAll(d, statements) == FoldLeft(Run, d, statements)

-----------------------------------------------------------------------------
(* mcp.generated *)

Rank(c) == CASE c[1] = "hash" -> 0 [] c[1] = "digit" -> c[2] [] OTHER -> SymbolOrder[c[2]]

NameBefore(a, b) ==
    LET i == CHOOSE i \in 1..(Len(a) + 1) :
                 /\ i \notin DOMAIN a \/ i \notin DOMAIN b \/ a[i] # b[i]
                 /\ \A j \in 1..(i - 1) : j \in DOMAIN b /\ a[j] = b[j]
    IN i \in DOMAIN b /\ (i \in DOMAIN a => Rank(a[i]) < Rank(b[i]))

\* ORDER BY generated_at, name: now() is the same for all rows of a call.
Before(gen, k, l) == gen[k].at < gen[l].at \/ (gen[k].at = gen[l].at /\ NameBefore(k[2], l[2]))

\* Mutant: the objects of every server in the schema.
OwnedAnyServer(gen, server, schema) == {k \in DOMAIN gen : k[1] = schema}

\* Mutant: functions are left to CREATE OR REPLACE.
OwnedRelations(gen, server, schema) ==
    {k \in DOMAIN gen : gen[k].server = server /\ k[1] = schema /\ gen[k].kind # "function"}

\* The keys of what mcp.generated holds for the server in the schema.
owned(gen, server, schema) == {k \in DOMAIN gen : gen[k].server = server /\ k[1] = schema}

schemas_for(gen, server) == {k[1] : k \in {k \in DOMAIN gen : gen[k].server = server}}

Named(d, k) == {f \in d.funcs : f.schema = k[1] /\ f.name = k[2]}

\* Mutant: objects are dropped in the order they were created.
DropErrorForward(d, gen, objects, k) ==
    IF gen[k].kind = "function" THEN "none"
    ELSE IF \E v \in DOMAIN d.rels : Rel(k[1], k[2]) \in d.rels[v].on
              /\ ~\E l \in objects : Rel(l[1], l[2]) = v /\ Before(gen, l, k)
         THEN "2BP01" ELSE "none"

\* The error of dropping k, the objects after it in the order being gone: a
\* function is found by its name alone, and RESTRICT refuses what a view needs.
DropError(d, gen, objects, k) ==
    LET rel == Rel(k[1], k[2])
        gone == {Rel(l[1], l[2]) : l \in {l \in objects : gen[l].kind = "view" /\ Before(gen, k, l)}}
    IN CASE gen[k].kind = "function" ->
              IF Named(d, k) = {} THEN "42883" ELSE IF Cardinality(Named(d, k)) > 1 THEN "21000" ELSE "none"
         [] gen[k].kind # "function" /\ rel \notin DOMAIN d.rels -> "42P01"
         [] gen[k].kind # "function" /\ rel \in DOMAIN d.rels /\ d.rels[rel].kind # gen[k].kind -> "42809"
         [] OTHER -> IF \E v \in DOMAIN d.rels \ gone : rel \in d.rels[v].on THEN "2BP01" ELSE "none"

\* A state of a call: the catalog, mcp.generated and the error that ended it.
drop_owned(st, server, schema) ==
    LET objects == owned(st.gen, server, schema)
        errors == {DropError(st.db, st.gen, objects, k) : k \in objects} \ {"none"}
        Of(kind) == {k \in objects : st.gen[k].kind = kind}
        rels == {Rel(k[1], k[2]) : k \in Of("table") \cup Of("view")}
    IN CASE st.err # "none" -> st
         [] st.err = "none" /\ errors # {} -> [st EXCEPT !.err = CHOOSE e \in errors : TRUE]
         [] OTHER -> [st EXCEPT
              !.db.rels = [r \in DOMAIN @ \ rels |-> @[r]],
              !.db.funcs = @ \ UNION {Named(st.db, k) : k \in Of("function")},
              !.gen = [k \in DOMAIN @ \ owned(st.gen, server, schema) |-> @[k]]]

owned_rows(t) ==
    << <<"table", table_name(t)>>, <<"function", t.sql>> >>
    \o (IF eligible(t) THEN << <<"view", view_name(t)>> >> ELSE <<>>)

\* INSERT ... ON CONFLICT (schema, name) DO UPDATE.
record(gen, server, t, row) ==
    (<<t.schema, row[2]>> :> [server |-> server, kind |-> row[1], tool |-> t.tool, at |-> count.calls]) @@ gen

-----------------------------------------------------------------------------
(* The API *)

RunStatements(st, statements) ==
    IF st.err # "none" THEN st
    ELSE LET d == RunAll([schemas |-> st.db.schemas, rels |-> st.db.rels, funcs |-> st.db.funcs,
                          err |-> "none"], statements)
         IN [st EXCEPT !.db = [schemas |-> d.schemas, rels |-> d.rels, funcs |-> d.funcs], !.err = d.err]

\* A fresh tools/list (a failing fetch raises); the schemas of the tools that are routed elsewhere, IF
\* NOT EXISTS; the statements; a row for every object.
Recording(st, server, planned) ==
    LET rows(g, t) == FoldLeft(LAMBDA acc, row : record(acc, server, t, row), g, owned_rows(t))
    IN IF st.err # "none" THEN st ELSE [st EXCEPT !.gen = FoldLeft(rows, @, planned)]

Materialize(st, server, schema, opts, p) ==
    LET targets == {p.plan.tools[i].schema : i \in DOMAIN p.plan.tools} \ {schema}
        made == IF opts.per_upstream_schema THEN {Cut(s) : s \in targets} ELSE {}
    IN CASE st.err # "none" -> st
         [] st.err = "none" /\ p.plan.err # "none" -> [st EXCEPT !.err = p.plan.err]
         [] OTHER -> Recording(RunStatements([st EXCEPT !.db.schemas = @ \cup made], p.statements),
                               server, p.plan.tools)

generate_per_tool(st, server, schema, opts) ==
    Materialize(st, server, schema, opts, per_tool_plan(server, schema, tools[server], opts))

Start(server, parsed) ==
    [db |-> db, gen |-> generated,
     err |-> IF server \notin Servers THEN "UndefinedObject" ELSE parsed[1]]

\* The per-tool objects first, then the ten tables.
import(server, schema, value) ==
    LET parsed == ParseImport(value)
        opts == parsed[2]
        st == Start(server, parsed)
        generic == IF opts.all_upstreams
                   THEN engine_statements(server, schema, opts, upstreams_from_tool_names(tools[server]))
                   ELSE statements_with(server, schema, [type |-> "all", names |-> {}], opts)
    IN IF st.err # "none" THEN st
       ELSE RunStatements(IF opts.per_tool THEN generate_per_tool(st, server, schema, opts) ELSE st, generic)

\* Drops what is recorded for the server in the target schema, and under
\* per_upstream_schema wherever it is; then generates.
generate_functions(server, schema, value) ==
    LET parsed == ParseImport(value)
        opts == parsed[2]
        st == Start(server, parsed)
        schemas == {schema} \cup (IF opts.per_upstream_schema THEN schemas_for(generated, server) ELSE {})
    IN IF st.err # "none" THEN st
       ELSE generate_per_tool(FoldLeft(LAMBDA acc, s : drop_owned(acc, server, s), st, SetToSeq(schemas)),
                              server, schema, opts)

import_foreign_schema(server, remote, schema, filter) ==
    LET st == Start(server, <<"none", DefaultOptions>>)
    IN CASE st.err # "none" -> st
         [] st.err = "none" /\ remote # "mcp" -> [st EXCEPT !.err = "InvalidSchemaName"]
         [] OTHER -> RunStatements(st, statements_with(server, schema, filter, DefaultOptions))

\* A call that raises changes nothing and is no step.
Called(fn, server, value, st) ==
    /\ count.calls < MaxCalls /\ st.err = "none"
    /\ count' = [count EXCEPT !.calls = @ + 1]
    /\ db' = st.db /\ generated' = st.gen
    /\ call' = [fn |-> fn, server |-> server, value |-> value]
    /\ UNCHANGED tools

Import(server, value) == Called("import", server, value, import(server, Target[server], value))

Generate(server, value) ==
    Called("generate", server, value, generate_functions(server, Target[server], value))

ImportForeignSchema(server, remote, filter) ==
    Called("foreign", server, NULL, import_foreign_schema(server, remote, Target[server], filter))

-----------------------------------------------------------------------------
(* Users and servers *)

UserStep ==
    /\ count.user < MaxUser
    /\ count' = [count EXCEPT !.user = @ + 1]
    /\ call' = NoCall

UserDropRelation(r) ==
    /\ UserStep
    /\ \A v \in DOMAIN db.rels : r \notin db.rels[v].on
    /\ db' = [db EXCEPT !.rels = [q \in DOMAIN @ \ {r} |-> @[q]]]
    /\ UNCHANGED <<generated, tools>>

UserDropFunction(f) ==
    /\ UserStep
    /\ db' = [db EXCEPT !.funcs = @ \ {f}]
    /\ UNCHANGED <<generated, tools>>

\* A function of the user's own, by the name of one that was generated.
UserCreateFunction(k) ==
    /\ UserStep
    /\ \A f \in Named(db, k) : f.types # <<"uuid">>
    /\ db' = [db EXCEPT !.funcs = @ \cup {[schema |-> k[1], name |-> k[2], types |-> <<"uuid">>, owner |-> "user"]}]
    /\ UNCHANGED <<generated, tools>>

UserCreateView(r) ==
    /\ UserStep
    /\ <<r[1], Word("mine")>> \notin DOMAIN db.rels
    /\ db' = [db EXCEPT !.rels = @ @@ (<<r[1], Word("mine")>> :>
                [db.rels[r] EXCEPT !.kind = "view", !.owner = "user", !.on = {r}])]
    /\ UNCHANGED <<generated, tools>>

Publish(server, list) ==
    /\ UserStep /\ list # tools[server]
    /\ tools' = [tools EXCEPT ![server] = list]
    /\ UNCHANGED <<db, generated>>

\* The users leave the ten tables alone.
Next ==
    \/ \E s \in ServerNames, v \in CallOptions : Import(s, v) \/ Generate(s, v)
    \/ \E s \in ServerNames, remote \in {"mcp", "public"}, f \in Filters : ImportForeignSchema(s, remote, f)
    \/ \E r \in {r \in DOMAIN db.rels : db.rels[r].kind = "view" \/ db.rels[r].options.tool # <<>>} :
           UserDropRelation(r) \/ UserCreateView(r)
    \/ \E f \in db.funcs : UserDropFunction(f)
    \/ \E k \in {k \in DOMAIN generated : generated[k].kind = "function"} : UserCreateFunction(k)
    \/ \E s \in Servers : \E list \in Published[s] : Publish(s, list)

Spec == Init /\ [][Next]_vars

-----------------------------------------------------------------------------
(* Properties *)

\* Type correctness; every view stands on a relation that exists (RESTRICT).
TypeOK ==
    /\ \A k \in DOMAIN generated : generated[k].kind \in {"table", "function", "view"}
                                   /\ generated[k].server \in Servers
    /\ \A r \in DOMAIN db.rels : r[1] \in db.schemas /\ Len(r[2]) <= MAX_BYTES
                                 /\ db.rels[r].on \subseteq DOMAIN db.rels
    /\ \A f \in db.funcs : f.schema \in db.schemas

\* The generated objects of a catalog, as <<kind, <<schema, name>>, owner>>.
Objects(d) ==
    {<<d.rels[r].kind, r, d.rels[r].owner>> : r \in {r \in DOMAIN d.rels :
        d.rels[r].owner # "user" /\ (d.rels[r].kind = "view" \/ d.rels[r].options.tool # <<>>)}}
    \cup {<<"function", <<f.schema, f.name>>, f.owner>> : f \in d.funcs}

Recorded(gen) == {<<gen[k].kind, Rel(k[1], k[2]), gen[k].server>> : k \in DOMAIN gen}

PlanFor(server, value) == PlanOf(Target[server], tools[server], ParseImport(value)[2]).tools

\* What a plan creates.
PlanObjects(server, p) ==
    UNION {{<<row[1], Rel(p[i].schema, row[2]), server>> : row \in ToSet(owned_rows(p[i]))} : i \in DOMAIN p}

SharesKey(server, p) ==
    \E a, b \in PlanObjects(server, p) : a # b /\ a[2] = b[2]

\* Regeneration (generate_functions, drop_owned, record): when it succeeds, what
\* the target schema holds of the server is exactly the plan of the list it
\* read, besides what had lost its row in mcp.generated before.
RegenerateExact ==
    [][(call'.fn = "generate" /\ count'.calls # count.calls) =>
        LET In(os) == {o \in os : o[3] = call'.server /\ o[2][1] = Target[call'.server]}
        IN \A p \in {PlanFor(call'.server, call'.value)} :
             In(Objects(db')) = In(PlanObjects(call'.server, p)) \cup In(Objects(db) \ Recorded(generated))]_vars

\* Scope of the drops (owned, drop_statement): a call removes only objects whose
\* schema and name mcp.generated records for the server of the call.
DropsInScope ==
    [][count'.calls # count.calls =>
        \A o \in Objects(db) \ Objects(db') :
            \E k \in DOMAIN generated : Rel(k[1], k[2]) = o[2] /\ generated[k].server = call'.server]_vars

\* Regenerating from the same list right after a regeneration succeeds and gives
\* the same objects, unless two objects of the plan share a key: every object
\* has its row, and the drops come in an order RESTRICT accepts.
Idempotent ==
    (call.fn = "generate" /\ ~SharesKey(call.server, PlanFor(call.server, call.value)))
    => LET st == generate_functions(call.server, Target[call.server], call.value)
       IN st.err = "none" /\ Objects(st.db) = Objects(db)

\* Names of a plan (dedup, plan): within a schema no two tools get the same SQL
\* name, whatever the server publishes, and none is too long.  (A plan depends
\* on the list alone, so that the states before the first call have them all.)
PlanUnique ==
    count.calls = 0 => \A s \in Servers, v \in CallOptions :
        LET p == PlanFor(s, v)
        IN /\ \A i, j \in DOMAIN p : (p[i].schema = p[j].schema /\ p[i].sql = p[j].sql) => i = j
           /\ \A i \in DOMAIN p : Len(p[i].sql) <= MAX_BYTES

\* Every generated object has its row in mcp.generated (registry.rs).
OneRowPerObject ==
    {o \in Objects(db) : o[3] \in Servers} \subseteq Recorded(generated)

\* One schema per upstream comes into existence on demand (api.rs): a first
\* generation under per_upstream_schema does not fail on a schema it made.
UpstreamSchemasOnDemand ==
    count.calls = 0 =>
        \A s \in Servers, v \in CallOptions :
            ParseImport(v)[2].per_upstream_schema => generate_functions(s, Target[s], v).err # "42P06"

=============================================================================
