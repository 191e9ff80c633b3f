----------------------------- MODULE MCPgCatalog -----------------------------
(***************************************************************************)
(* The catalog readers of one backend on a small instance.                 *)
(***************************************************************************)
EXTENDS PgCatalog, TLC

Local == [scheme |-> "http", host |-> "loopback"]
Named == [scheme |-> "http", host |-> "name"]
Remote == [scheme |-> "https", host |-> "remote"]
Clear == [scheme |-> "http", host |-> "remote"]

\* A named server in clear text, which must be loopback and wants a bearer.
MCFirst == {[url |-> Named, cache_ttl_ms |-> 2, audit_table |-> "s.t"]}

\* That one, a local and a remote one, and lists the validator refuses.
MCServers ==
    MCFirst \cup
    {[url |-> Local, auth |-> "none", cache_ttl_ms |-> 1], [url |-> Remote],
     [url |-> Clear], [mode |-> "sql"], [url |-> Local, timeout_ms |-> 0]}

\* Roles differ only in name.
MCSymmetry == Permutations(Users)

MCMappings == {[token |-> "t"], [token |-> ""], [token |-> "t", token_secret |-> "s.t"]}
=============================================================================
