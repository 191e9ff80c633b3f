----------------------------- MODULE PgOptions -----------------------------
(***************************************************************************)
(* Foreign server and user mapping options (options.rs) and the validator  *)
(* PostgreSQL calls when they are set (api.rs).  An option list is a       *)
(* function from option names to raw values.  A raw number is an Int, a    *)
(* raw text that is no number being -1 (both are refused alike); a raw URL *)
(* is a record of what the code reads of it; a qualified name is "s.t"     *)
(* when it is two plain identifiers and "bad" otherwise.                   *)
(***************************************************************************)
EXTENDS PgErrors, FiniteSets

CONSTANTS MAX_TIMEOUT_MS, DEFAULT_TIMEOUT_MS, DEFAULT_CACHE_TTL_MS

SERVER_OPTION_NAMES ==
    {"url", "mode", "timeout_ms", "auth", "max_unqualified_reads",
     "audit_table", "cache_ttl_ms"}

USER_MAPPING_OPTION_NAMES == {"token", "token_secret"}

\* opts.find(name), or the default of the option.
Get(opts, name, default) ==
    IF name \in DOMAIN opts THEN opts[name] ELSE default

\* Mode::parse and AuthMode::parse.
ModeOk(mode) == mode \in {"auto", "generic", "sql"}

AuthOk(auth) == auth \in {"bearer", "none"}

\* An absolute URL with a scheme the client speaks and a host.
parse_url(url) == url.scheme \in {"http", "https"} /\ url.host # "missing"

parse_timeout(raw) == raw \in 1 .. MAX_TIMEOUT_MS

parse_non_negative(raw) == raw >= 0

\* split_qualified, with is_plain_identifier: two non-empty plain parts.
split_qualified(raw) == raw # "bad"

\* A literal or "localhost" is loopback for ever; a name is when every address
\* the resolver returns now is.
is_loopback(url, dns) ==
    CASE url.host = "loopback" -> TRUE
      [] url.host = "name" -> dns
      [] OTHER -> FALSE

\* A mutant: the option list is checked for shape only, not for where it points.
ParseShapeOnly(opts, dns) ==
    [err |-> "Ok", url |-> opts["url"], auth |-> Get(opts, "auth", "bearer"),
     ttl |-> Get(opts, "cache_ttl_ms", DEFAULT_CACHE_TTL_MS),
     reads |-> Get(opts, "max_unqualified_reads", 0),
     audit |-> Get(opts, "audit_table", "unset")]

\* ServerOptions::parse: the checks in the order of the code all answer the
\* same error, so their conjunction decides; the defaults fill what is absent.
ParseServer(opts, dns) ==
    IF /\ DOMAIN opts \subseteq SERVER_OPTION_NAMES
       /\ "url" \in DOMAIN opts
       /\ parse_url(opts["url"])
       /\ ModeOk(Get(opts, "mode", "auto"))
       /\ parse_timeout(Get(opts, "timeout_ms", DEFAULT_TIMEOUT_MS))
       /\ AuthOk(Get(opts, "auth", "bearer"))
       /\ \/ is_loopback(opts["url"], dns)
          \/ /\ Get(opts, "auth", "bearer") # "none"
             /\ opts["url"].scheme # "http"
       /\ parse_non_negative(Get(opts, "max_unqualified_reads", 0))
       /\ split_qualified(Get(opts, "audit_table", "unset"))
       /\ parse_non_negative(Get(opts, "cache_ttl_ms", DEFAULT_CACHE_TTL_MS))
    THEN [err |-> "Ok", url |-> opts["url"], auth |-> Get(opts, "auth", "bearer"),
          ttl |-> Get(opts, "cache_ttl_ms", DEFAULT_CACHE_TTL_MS),
          reads |-> Get(opts, "max_unqualified_reads", 0),
          audit |-> Get(opts, "audit_table", "unset")]
    ELSE [err |-> "InvalidOption"]

\* UserMappingOptions::parse: exactly one credential, and not an empty one.
ParseMapping(opts) ==
    IF /\ DOMAIN opts \subseteq USER_MAPPING_OPTION_NAMES
       /\ Cardinality(DOMAIN opts) = 1
       /\ Get(opts, "token", "t") # ""
       /\ split_qualified(Get(opts, "token_secret", "s.t"))
    THEN "Ok" ELSE "InvalidOption"

\* The catalog relation decides which parser the validator runs; a wrapper
\* takes no option, and table options are not looked at.
mcp_fdw_validator(relation, opts, dns) ==
    CASE relation = "server" -> ParseServer(opts, dns).err
      [] relation = "mapping" -> ParseMapping(opts)
      [] relation = "wrapper" -> IF DOMAIN opts = {} THEN "Ok" ELSE "InvalidOption"
      [] OTHER -> "Ok"
=============================================================================
