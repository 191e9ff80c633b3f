---------------------------- MODULE MCPgGenerate ----------------------------
(***************************************************************************)
(* Two servers whose tools go to one schema.  The lists have colliding and *)
(* repeated names, names that are too long, a name that another tool's     *)
(* table takes, upstream names, columns that clash, and tools the planner  *)
(* skips.  Seven symbols make the longest identifier.                      *)
(***************************************************************************)
EXTENDS PgGenerate

L(texts) == [i \in DOMAIN texts |-> <<"lower", texts[i]>>]
a == L(<<"a">>)
b == L(<<"b">>)

Entries(s) == <<"entries", s>>
NoInputs == Obj([properties |-> Entries(<<>>)])
Hint(read_only) == Obj([readOnlyHint |-> Bool(read_only)])

\* A reader without inputs has a view.
Reader(name) == Obj([name |-> Str(name), inputSchema |-> NoInputs, annotations |-> Hint(TRUE)])
Writer(name) ==
    Obj([name |-> Str(name), annotations |-> Hint(FALSE), inputSchema |->
        Obj([properties |-> Entries(<< <<b, Obj([type |-> Str("integer")])>>,
                                       <<a, Obj([type |-> Str("string"), format |-> Str("date")])>>,
                                       <<L(<<"a">>) \o <<US>>, Obj([type |-> Arr(<<Str("null"), Str("number")>>)])>> >>),
             required |-> Arr(<<Str(a)>>)])])
Output(tool, schema) == Obj(tool[2] @@ [outputSchema |-> schema])
Rows(fields) ==
    Obj([properties |-> Entries(<< <<L(<<"rows">>),
        Obj([type |-> Str("array"), items |->
             Obj([type |-> Str("object"), properties |-> Entries(fields)])])>> >>)])
Unnamed == Obj([inputSchema |-> NoInputs])
Unmappable == Obj([name |-> Str(L(<<"raw">>)), inputSchema |-> Obj(<<>>)])

head == L(<<"h1", "h2", "h3", "h4">>)
Long(last) == head \o head \o L(<<last>>)

Plain == <<Reader(a), Unnamed, Output(Writer(b), Rows(<< <<L(<<"k">>), Obj([type |-> Str("string")])>> >>)), Unmappable>>
Shorter == <<Writer(a)>>
Colliding == <<Writer(a \o <<DOT>> \o b), Writer(a \o <<US>> \o b), Reader(a \o << <<"upper", "b">> >>),
               Writer(a \o <<US>> \o b), Writer(a \o <<US>> \o b)>>
Shared == <<Reader(a), Writer(TABLE_PREFIX \o a)>>
TooLong == <<Writer(Long("x")), Writer(Long("y")), Reader(head)>>
LongViews == <<Reader(Long("x")), Reader(Long("y"))>>
Upstreams == <<Reader(L(<<"up">>) \o <<DOT>> \o a), Writer(L(<<"up">>) \o <<DOT>> \o b), Writer(a)>>
Clash == <<Output(Writer(b), Obj([properties |-> Entries(<< <<a, Obj([type |-> Str("string")])>> >>)]))>>
Hollow == <<Output(Reader(b), Rows(<<>>))>>

MCPublished == ("s1" :> {Plain, Shorter, Colliding, Shared, TooLong, LongViews, Upstreams, Clash, Hollow})
               @@ ("s2" :> {<<Reader(L(<<"c">>))>>})
MCTarget == [s \in {"s1", "s2", "s3"} |-> L(<<"mcp">>)]
MCFilters == {[type |-> "all", names |-> {}], [type |-> "limit", names |-> {"tools", "nosuch"}],
              [type |-> "except", names |-> {"tools"}]}
MCDigits == "7" :> 7
MCCallOptions ==
    {NULL, Obj([prefix |-> Str(<< <<"digit", 1>> >>)]), Obj([cache_ttl_ms |-> Str("soon")]),
     Obj([per_tool |-> Bool(TRUE), prefix |-> Str(L(<<"p">>)), cache_ttl_ms |-> Str("7")]),
     Obj([per_tool |-> Bool(TRUE), per_upstream_schema |-> Bool(TRUE), invoke_on_select |-> Str("all")]),
     Obj([all_upstreams |-> Bool(TRUE), invoke_on_select |-> Str("none"), cache_ttl_ms |-> Num(5)])}
MCSymbolOrder == [t \in {"_", "a", "b", "c", "h1", "h2", "h3", "h4", "p", "tool_", "up", "v_", "x", "y"} |->
    CASE t = "tool_" -> 30 [] t = "up" -> 31 [] t = "v_" -> 32 [] t = "_" -> 10 [] t = "a" -> 11 [] t = "b" -> 12
      [] t = "c" -> 13 [] t = "h1" -> 14 [] t = "h2" -> 15 [] t = "h3" -> 16 [] t = "h4" -> 17 [] t = "p" -> 18
      [] t = "x" -> 33 [] OTHER -> 34]
MCRender == <<>>
=============================================================================
