------------------------------ MODULE MCPgScan ------------------------------
(***************************************************************************)
(* A small server for PgScan: lists with absent and ill-typed fields, a    *)
(* duplicate URI, two prompts, one completion, a call log of three, and a  *)
(* per-tool table in four generations of its tool's definition.  Numbers  *)
(* above 4 are not exact as f64; an int4 has 4 bits.                       *)
(***************************************************************************)
EXTENDS PgScan

MCRender ==
    [k \in {"uuid", "timestamptz", "date"} \X (0..3) |->
        LET texts == [uuid |-> <<"u0", "u1", "u2", "u3">>,
                      timestamptz |-> <<"t0", "t1", "t2", "t3">>,
                      date |-> <<"d0", "d1", "d2", "d3">>]
        IN texts[k[1]][k[2] + 1]]
    @@ (Num(3) :> "3") @@ (Bool(TRUE) :> "true")

-----------------------------------------------------------------------------
(* base64: three bytes to four symbols, as RFC 4648 encodes them. *)

Encode(bytes) ==
    LET n == Len(bytes)
        At(i) == IF i <= n THEN bytes[i] ELSE 0
        acc == At(1) * 65536 + At(2) * 256 + At(3)
        symbols == <<acc \div 64^3, (acc \div 64^2) % 64, (acc \div 64) % 64, acc % 64>>
    IN CASE n = 0 -> <<>> [] n = 1 -> SubSeq(symbols, 1, 2) \o <<64, 64>>
         [] n = 2 -> SubSeq(symbols, 1, 3) \o <<64>> [] OTHER -> symbols

Blobs == {<<>>, <<0>>, <<255>>, <<255, 1>>, <<1, 255, 0>>, <<254, 7, 129>>}
\* Long texts are broken into lines; the padding comes last.
Wrapped(b) == <<Encode(<<1, 2, 3>>)[1], Encode(<<1, 2, 3>>)[2], 65>>
              \o SubSeq(Encode(<<1, 2, 3>>), 3, 4) \o Encode(b)
MCBytes == [s \in {Encode(b) : b \in Blobs} |-> CHOOSE b \in Blobs : Encode(b) = s]
           @@ [s \in {Wrapped(b) : b \in Blobs} |-> <<1, 2, 3>> \o CHOOSE b \in Blobs : Wrapped(b) = s]

-----------------------------------------------------------------------------
T(v) == <<"text", v>>
Named1(n) == Obj([name |-> Str(n)])

MCLists ==
    ("tools/list" :> <<
        Obj([name |-> Str("up.a"), title |-> Str("A"), annotations |-> Obj([readOnlyHint |-> Bool(TRUE)])]),
        Obj([name |-> Str("b"), inputSchema |-> Obj(<<>>), title |-> NULL]),
        Obj([title |-> Str("A")]) >>)
    @@ ("prompts/list" :> <<
        Obj([name |-> Str("p"), arguments |-> Arr(<<Named1("x"), Obj([required |-> Bool(TRUE)])>>)]),
        Obj([name |-> Str("q"), title |-> Num(3)]), Obj([arguments |-> Arr(<<Named1("y")>>)]) >>)
    @@ ("resources/list" :> <<
        Obj([uri |-> Str("r1"), size |-> Num(5), name |-> Str("up.a")]),
        Obj([uri |-> Str("r2"), name |-> Str("b")]), Obj([uri |-> Str("r1")]) >>)
    @@ ("resources/templates/list" :> <<Obj([uriTemplate |-> Str("r{n}"), _meta |-> Obj(<<>>)])>>)

MCScoped == [n \in {"up.a", "b", "p", "q"} |->
    IF n = "up.a" THEN [upstream |-> "up", name |-> "a"] ELSE [upstream |-> "", name |-> n]]

Blob(s) == Obj([blob |-> <<"string", s>>])
MCContents ==
    [u \in {"r1", "r2", "r3", "bad"} |->
        CASE u = "r1" -> <<Obj([text |-> Str("hello"), mimeType |-> Str("plain")])>>
                         \o SetToSeq({Blob(Encode(b)) : b \in Blobs})
          [] u = "r2" -> SetToSeq({Blob(Wrapped(b)) : b \in Blobs})
          [] u = "r3" -> <<>>
          [] OTHER -> <<Blob(<<1, 66>>)>>]

MCPrompts ==
    [p \in {"p", "q"} |-> [description |-> IF p = "p" THEN Str("say") ELSE Absent,
        messages |-> <<Obj([role |-> Str("user"), content |-> Obj([type |-> Str("text"), text |-> Str(p)])]),
                       Obj([role |-> Str("user")])>>]]

MCCompletion ==
    [v \in {"", "x"} |-> IF v = "" THEN Obj([values |-> Arr(<<Str("x"), Str("y")>>), total |-> Num(2)])
                         ELSE Obj([values |-> Arr(<<Str("x"), Num(3)>>), hasMore |-> Bool(TRUE)])]

MCServerInfo ==
    [name |-> "srv", options |-> [url |-> "u", mode |-> "auto"],
     sess |-> [protocol_version |-> "v", server_info |-> Named1("impl"), capabilities |-> NULL,
               session_id |-> "none"],
     initialize |-> Obj([instructions |-> Str("read me")])]

Record(id, tool) ==
    [id |-> id, tool |-> tool, arguments |-> Obj(<<>>), content |-> Arr(<<>>), structured |-> Absent,
     is_error |-> FALSE, error |-> Absent, called_at |-> id, duration_ms |-> 0]
MCLog == <<Record(1, "a"), Record(2, "b"), Record(3, "a")>>

-----------------------------------------------------------------------------
(* Four definitions of one tool: rows per element, a single row with the     *)
(* columns moved, one without outputs whose call fails, and one that answers  *)
(* a text that is no date.                                                   *)

Col(p, t, r) == [prop |-> p, name |-> p, type |-> t, required |-> r]
MCToolDefs == <<
    [inputs |-> <<Col("city", "text", TRUE), Col("n", "int8", FALSE), Col("who", "uuid", FALSE)>>,
     shape |-> "element", property |-> "hits",
     outputs |-> <<Col("title", "text", FALSE), Col("size", "int8", FALSE),
                   Col("at", "timestamptz", FALSE), Col("day", "date", FALSE), Col("ok", "bool", FALSE)>>],
    [inputs |-> <<Col("n", "int8", FALSE), Col("city", "text", TRUE)>>, shape |-> "single",
     property |-> "", outputs |-> <<Col("size", "float8", FALSE)>>],
    [inputs |-> <<Col("city", "text", FALSE)>>, shape |-> "none", property |-> "", outputs |-> <<>>],
    [inputs |-> <<Col("city", "text", TRUE)>>, shape |-> "single", property |-> "",
     outputs |-> <<Col("day", "date", FALSE), Col("who", "uuid", FALSE)>>] >>

MCResult == <<
    Obj([content |-> Arr(<<>>), structuredContent |-> Obj([hits |-> Arr(<<
        Obj([title |-> Str("x"), size |-> Num(4), at |-> Str("t1"), day |-> Str("d1"), ok |-> Bool(TRUE)]),
        Obj([title |-> Num(3), size |-> Num(7), day |-> Str("d2"), ok |-> Bool(FALSE)]),
        Obj([size |-> Str("?")]) >>)])]),
    Obj([structuredContent |-> Obj([size |-> Num(9)])]),
    Obj([content |-> Arr(<<>>), isError |-> Bool(TRUE)]),
    Obj([structuredContent |-> Obj([day |-> Str("later"), who |-> Num(3)])]) >>

-----------------------------------------------------------------------------
Cl(shape, col, vals) == [shape |-> shape, col |-> col, vals |-> vals]
Q(table, clauses) ==
    [table |-> table, def |-> 1, gate |-> TRUE, cap |-> 2, upstream |-> "none", clauses |-> clauses]
Scalar == {"eqConst", "eqParam", "eqExecParam", "optParam", "optExecParam"}

Names == {T("b"), T("up.a"), T("zz"), NULL}
Refs == {<<"jsonb", Obj([type |-> Str("ref")])>>}
Texts2(a, b) == <<"array", <<T(a), T(b)>> >>

CatalogQueries ==
    {Q(t, <<Cl(s, "name", IF s = "eqConst" THEN {T("b")} ELSE Names)>>) : t \in {"tools", "prompts"}, s \in Scalar}
    \cup {Q(t, <<>>) : t \in {"server", "resources", "resource_templates", "prompt_arguments", "tool_calls"}}
    \cup {[Q(t, <<Cl("eqParam", "name", {T("a"), T("b")})>>) EXCEPT !.upstream = u] :
            t \in {"tools", "resources"}, u \in {"", "up"}}
    \cup {Q("tools", <<Cl(s, "name", {Texts2("b", "zz")})>>) : s \in {"anyConst", "anyParam", "allParam"}}
    \cup {Q("tools", <<Cl(s, "read_only", {<<"bool", TRUE>>})>>) : s \in {"var", "isTrue", "notVar", "isFalse"}}
    \cup {Q("tools", <<Cl("eqParam", "title", {T("A"), NULL}), Cl("eqParam", "name", Names)>>),
          Q("prompt_arguments", <<Cl("eqParam", "prompt", {T("p"), T("q"), NULL})>>),
          Q("resources", <<Cl("eqParam", "size", {<<"int8", 5>>, <<"int8", 4>>})>>)}
    \cup {Q("tool_calls", <<Cl("eqConst", c, {v})>>) : <<c, v>> \in
            {<<"tool", T("a")>>, <<"id", <<"uuid", 1>> >>, <<"is_error", <<"bool", TRUE>> >>}}
    \cup {Q("tool_calls", <<Cl("eqParam", "tool", {T("a"), NULL}), Cl("eqConst", "id", {<<"uuid", 3>>})>>)}

ReadQueries ==
    {[Q("resource_contents", <<>>) EXCEPT !.cap = c] : c \in 0..2}
    \cup {Q("resource_contents", <<Cl(s, "uri", IF s = "eqConst" THEN {T("r1")}
                                              ELSE {T("r1"), T("r3"), T("bad"), NULL})>>) : s \in Scalar}
    \cup {Q("resource_contents", <<Cl("eqParam", "uri", {T("r2"), T("r1")}), Cl("eqConst", "uri", {T("r1")})>>),
          Q("resource_contents", <<Cl("anyConst", "uri", {Texts2("r1", "r3")})>>),
          Q("prompt_messages", <<>>),
          Q("prompt_messages", <<Cl("eqParam", "prompt", {T("p"), T("q"), NULL})>>),
          Q("prompt_messages", <<Cl("eqConst", "prompt", {T("p")}),
                Cl("eqParam", "arguments", {<<"jsonb", Obj(<<>>)>>, <<"jsonb", NULL>>, NULL}),
                Cl("eqConst", "idx", {<<"int4", 0>>})>>),
          Q("completions", <<Cl("eqConst", "ref", Refs), Cl("eqConst", "argument_name", {T("n")})>>),
          Q("completions", <<Cl("eqConst", "ref", Refs), Cl("eqConst", "argument_name", {T("n")}),
                Cl("eqParam", "argument_value", {T(""), T("x"), NULL})>>)}

City == Cl("eqConst", "city", {T("c")})
PerToolQueries ==
    {[Q("tool_t", <<City>>) EXCEPT !.gate = g, !.def = d] : g \in BOOLEAN, d \in 1..4}
    \cup {Q("tool_t", <<>>), Q("tool_t", <<Cl("eqParam", "city", {T("c"), NULL})>>),
          Q("tool_t", <<City, Cl("optParam", "n", {<<"int8", 1>>, NULL}), Cl("eqParam", "who", {<<"uuid", 2>>})>>),
          Q("tool_t", <<City, Cl("eqParam", "title", {T("x"), T("3"), NULL})>>),
          Q("tool_t", <<City, Cl("eqParam", "size", {<<"int8", 4>>, <<"int8", 6>>})>>),
          Q("tool_t", <<City, Cl("eqConst", "at", {<<"timestamptz", 1>>})>>),
          Q("tool_t", <<City, Cl("eqConst", "day", {<<"date", 1>>})>>),
          Q("tool_t", <<City, Cl("notVar", "is_error", {<<"bool", FALSE>>}), Cl("var", "ok", {<<"bool", TRUE>>})>>)}

MCQueries == CatalogQueries \cup ReadQueries \cup PerToolQueries

=============================================================================
