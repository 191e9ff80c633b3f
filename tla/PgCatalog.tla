----------------------------- MODULE PgCatalog -----------------------------
(***************************************************************************)
(* The statements of one backend that read the server's lists through the  *)
(* catalog cache (cache.rs, tables/catalog.rs, tables/per_tool.rs), the    *)
(* ones that send a single request (api.rs), mcp.refresh, the DBA and the  *)
(* clock, on top of the connection of PgConn.                              *)
(*                                                                         *)
(* Kinds of statement: "tools" and "prompts" are scans of list tables (the *)
(* other list tables run the same code on slices of their own), "server" a *)
(* scan of the server table, "pertool" a statement on a generated table    *)
(* (list, then call), "call" one request, "fresh" the listing that code    *)
(* generation makes.                                                       *)
(***************************************************************************)
EXTENDS PgConn

CONSTANTS
    MAX_LIST_PAGES, \* cursors list_all follows before it gives up
    TableTtls,      \* cache_ttl_ms options tables may carry
    ToolListed,     \* list versions that hold the tool of the generated table
    MaxVersion,     \* list changes
    MaxClock,       \* clock ticks
    MaxStatements,  \* statements of the backend
    MaxAlters,      \* catalog and resolver changes
    FirstServers,   \* option lists the foreign server is created with
    ServerChoices,  \* option lists a DBA gives the foreign server
    MappingChoices  \* option lists a DBA gives a user mapping

VARIABLES
    cache,          \* CACHES: the cached lists of each role
    clock,          \* time
    alters          \* catalog and resolver changes so far

catVars == <<cache, clock, alters>>

vars == <<connVars, catVars>>

Kinds == {"tools", "prompts", "server", "pertool", "call", "fresh"}

Slices == {"tools", "prompts", "initialize"}

SliceOf(k) ==
    CASE k = "prompts" -> "prompts" [] k = "server" -> "initialize" [] OTHER -> "tools"

NoTtl == -1

NoEntry == [full |-> FALSE, at |-> 0, ver |-> 0]

Init ==
    /\ \E o \in FirstServers :
         /\ mcp_fdw_validator("server", o, TRUE) = "Ok"
         /\ catalog = [server |-> o, dns |-> TRUE, secret |-> TRUE,
                       mapping |-> [u \in Users \cup {"PUBLIC"} |->
                          IF u = "PUBLIC" THEN [token_secret |-> "s.t"] ELSE <<>>]]
    /\ sessions = [u \in Users |-> NoSession]
    /\ st = Statement0
    /\ served = {} /\ ver = 0 /\ faults = 0
    /\ cache = [u \in Users |-> [sl \in Slices |-> NoEntry]]
    /\ clock = 0 /\ alters = 0

-----------------------------------------------------------------------------
\* Mutant: an entry is still used at the instant its TTL has run out.
CachedToTheEnd(u, sl, ttl) == cache[u][sl].full /\ clock - cache[u][sl].at <= ttl

\* get_or_fetch, the reading half: a TTL of 0 reads nothing, an entry serves
\* while it is younger than the TTL of this reader.
Cached(u, sl, ttl) ==
    ttl # 0 /\ cache[u][sl].full /\ clock - cache[u][sl].at < ttl

\* get_or_fetch, the storing half: stamped with the time after the fetch, and
\* not stored under a TTL of 0.
Stored(u, sl, ttl, v) ==
    IF ttl = 0 THEN cache
    ELSE [cache EXCEPT ![u][sl] = [full |-> TRUE, at |-> clock, ver |-> v]]

drop_tools(u) == [cache EXCEPT ![u]["tools"] = NoEntry]

\* fetch_tools_fresh and single requests go past the cache.
Uncached(k) == k \in {"fresh", "call"}

\* A statement begins: resolve first; a failed resolution is the outcome and no
\* request is sent.  A generated table looks into the cache before it needs a
\* session; every other statement enters with_session.
Begin(u, k, ttl) ==
    /\ st.stage = "idle" /\ st.count < MaxStatements
    /\ LET r == resolve(u)
           s == [Statement0 EXCEPT !.stage = "lookup", !.user = u, !.kind = k,
                   !.floor = ver, !.count = st.count + 1, !.url = r.url,
                   !.phase = IF k = "call" THEN "call" ELSE "list",
                   !.loop = is_loopback(r.url, catalog.dns),
                   !.ttl = IF Uncached(k) THEN 0
                           ELSE IF ttl \in TableTtls THEN ttl ELSE r.ttl]
       IN  \/ /\ r.err # "Ok"
              /\ st' = [st EXCEPT !.count = @ + 1]
              /\ UNCHANGED sessions
           \/ /\ r.err = "Ok" /\ k = "pertool"
              /\ st' = s
              /\ UNCHANGED sessions
           \/ /\ r.err = "Ok" /\ k # "pertool"
              /\ st' = Enter(s, u)
              /\ sessions' = [sessions EXCEPT ![u] = NoSession]
    /\ UNCHANGED <<catalog, served, ver, faults, catVars>>

\* resolve_tool: the list of a generated table, from the cache or the server.
LookUp ==
    /\ st.stage = "lookup"
    /\ IF Cached(st.user, "tools", st.ttl)
       THEN /\ st' = [st EXCEPT !.stage = "planned", !.lo = cache[st.user]["tools"].ver,
                                !.answer = cache[st.user]["tools"].ver]
            /\ UNCHANGED sessions
       ELSE /\ st' = Enter(st, st.user)
            /\ sessions' = [sessions EXCEPT ![st.user] = NoSession]
    /\ UNCHANGED <<catalog, served, ver, faults, catVars>>

\* Mutant: the flag is looked at and left set, and the slice kept.
PeekOnly(s) == [s |-> s, cache |-> cache]

\* fetch_list: the tools table consumes the session's flag and drops the slice.
TakeFlag(s) ==
    IF s.kind = "tools" /\ s.sess.changed
    THEN [s |-> [s EXCEPT !.sess.changed = FALSE], cache |-> drop_tools(s.user)]
    ELSE [s |-> s, cache |-> cache]

\* The body of with_session starts.  A scan of a catalog table polls the flag
\* and may be answered from the cache; otherwise the first request goes out.
ScanFromCache ==
    /\ st.stage = "ready" /\ st.phase = "list"
    /\ st.kind \in {"tools", "prompts", "server"}
    /\ LET sl == SliceOf(st.kind)
       IN  /\ Cached(st.user, sl, st.ttl)
           /\ TakeFlag(st).s = st
           /\ st' = [Over(st) EXCEPT !.answer = cache[st.user][sl].ver]
           /\ sessions' = Returned(st, "Ok")
    /\ UNCHANGED <<catalog, served, ver, faults, catVars>>

StartRequest ==
    /\ st.stage = "ready"
    /\ LET t == TakeFlag(st)
       IN  /\ \/ st.phase = "call"
              \/ st.kind \in {"pertool", "fresh"}
              \/ ~Cached(st.user, SliceOf(st.kind), st.ttl)
              \/ t.s # st
           /\ st' = [t.s EXCEPT !.stage = "try", !.told = st.sess.told]
           /\ cache' = t.cache
    /\ UNCHANGED <<catalog, sessions, served, ver, faults, clock, alters>>

-----------------------------------------------------------------------------
\* Mutant: every cursor is followed.
FollowAny(c) == c # 0

\* list_all: a cursor is followed unless it was followed before or one page more
\* would be one too many.
Follow(c) ==
    c # 0 /\ c \notin st.followed /\ Cardinality(st.followed) + 1 < MAX_LIST_PAGES

\* A page that names a next cursor (0: none) is followed by another request, or
\* the scan fails.
NextPage(c) ==
    /\ st.stage = "answered" /\ st.phase = "list" /\ st.out = "Ok"
    /\ st.kind # "server" /\ c # 0
    /\ IF Follow(c)
       THEN /\ st' = [st EXCEPT !.stage = "try", !.again = FALSE, !.followed = @ \cup {c}]
            /\ UNCHANGED sessions
       ELSE /\ st' = Over(st)
            /\ sessions' = Returned(st, "Transport")
    /\ UNCHANGED <<catalog, served, ver, faults, catVars>>

\* A scan whose method the server does not have reads an empty list.
FailOpen(s) == s.out = "MethodNotFound" /\ s.kind \in {"tools", "prompts"}

\* The last page: the list is stored and answers the scan; a generated table
\* goes on to plan with it.
LastPage ==
    /\ st.stage = "answered" /\ st.phase = "list"
    /\ st.out = "Ok" \/ FailOpen(st)
    /\ cache' = Stored(st.user, SliceOf(st.kind), st.ttl, st.lo)
    /\ sessions' = Returned(st, "Ok")
    /\ st' = IF st.kind = "pertool"
             THEN [st EXCEPT !.stage = "planned", !.sess = NoSession, !.followed = {},
                             !.again = FALSE, !.answer = st.lo]
             ELSE [Over(st) EXCEPT !.answer = st.lo]
    /\ UNCHANGED <<catalog, served, ver, faults, clock, alters>>

\* resolve_tool, once it has the list: the flag of the cached session is peeked
\* at, the slice dropped when it is set; the tool must be in the list it has.
\* Then the call enters with_session.
PlanTool ==
    /\ st.stage = "planned"
    /\ LET u == st.user
       IN  /\ cache' = IF sessions[u].changed THEN drop_tools(u) ELSE cache
           /\ IF st.lo \in ToolListed
              THEN /\ st' = Enter([st EXCEPT !.phase = "call"], u)
                   /\ sessions' = [sessions EXCEPT ![u] = NoSession]
              ELSE /\ st' = Over(st)
                   /\ UNCHANGED sessions
    /\ UNCHANGED <<catalog, served, ver, faults, clock, alters>>

\* The statement's request is answered, or a page is refused: with_session ends.
EndStatement ==
    /\ st.stage = "answered"
    /\ st.phase = "call" \/ (st.out # "Ok" /\ ~FailOpen(st))
    /\ sessions' = Returned(st, st.out)
    /\ st' = Over(st)
    /\ UNCHANGED <<catalog, served, ver, faults, catVars>>

-----------------------------------------------------------------------------
\* The world stands still once the last statement has ended.
Going == st.stage # "idle" \/ st.count < MaxStatements

\* mcp.refresh: the role's session and lists are dropped.
refresh(u) ==
    /\ st.stage = "idle" /\ st.count < MaxStatements
    /\ st' = [st EXCEPT !.count = @ + 1]
    /\ IF ~lookup_foreign_server THEN UNCHANGED <<sessions, cache>>
       ELSE /\ sessions' = [sessions EXCEPT ![u] = NoSession]
            /\ cache' = [cache EXCEPT ![u] = [sl \in Slices |-> NoEntry]]
    /\ UNCHANGED <<catalog, served, ver, faults, clock, alters>>

\* The diagnostic of the cached session (0: none is cached).
initialize_count(u) == sessions[u].inits

\* The backend exits: sessions and lists die with it, and another takes over.
BackendExit ==
    /\ st.stage = "idle" /\ st.count < MaxStatements
    /\ sessions' = [u \in Users |-> NoSession]
    /\ cache' = [u \in Users |-> [sl \in Slices |-> NoEntry]]
    /\ st' = [st EXCEPT !.count = @ + 1]
    /\ UNCHANGED <<catalog, served, ver, faults, clock, alters>>

\* ALTER SERVER and DROP SERVER; CREATE, ALTER and DROP USER MAPPING: the
\* validator decides whether an option list is accepted.
AlterServer ==
    \E o \in ServerChoices :
        /\ mcp_fdw_validator("server", o, catalog.dns) = "Ok"
        /\ catalog' = [catalog EXCEPT !.server = o]

DropServer == catalog' = [catalog EXCEPT !.server = <<>>]

AlterMapping ==
    \E m \in MappingChoices, u \in Users \cup {"PUBLIC"} :
        /\ mcp_fdw_validator("mapping", m, catalog.dns) = "Ok"
        /\ catalog' = [catalog EXCEPT !.mapping[u] = m]

DropMapping == \E u \in Users \cup {"PUBLIC"} : catalog' = [catalog EXCEPT !.mapping[u] = <<>>]

\* The resolver answers differently for a name; the secret table is emptied.
Resolver == \/ catalog' = [catalog EXCEPT !.dns = ~@]
            \/ catalog' = [catalog EXCEPT !.secret = ~@]

\* A statement reads the catalog once, when it begins: a change in the middle of
\* one is a change after it, and one before the first is another Init.
Alter ==
    /\ st.stage = "idle" /\ Going /\ st.count > 0
    /\ alters < MaxAlters /\ alters' = alters + 1
    /\ AlterServer \/ DropServer \/ AlterMapping \/ DropMapping \/ Resolver
    /\ UNCHANGED <<sessions, st, served, ver, faults, cache, clock>>

Tick ==
    /\ Going
    /\ clock < MaxClock /\ clock' = clock + 1
    /\ UNCHANGED <<connVars, cache, alters>>

\* The statement in progress takes a step.
Step ==
    \/ (SendInitialize \/ SendInitialized \/ SendRequest) /\ UNCHANGED catVars
    \/ LookUp \/ ScanFromCache \/ StartRequest \/ LastPage \/ PlanTool \/ EndStatement
    \/ \E c \in 1 .. MAX_LIST_PAGES : NextPage(c)

\* What happens around it.
World ==
    \/ (Cancel \/ Expire \/ Change(MaxVersion)) /\ Going /\ UNCHANGED catVars
    \/ Alter
    \/ Tick

Next ==
    \/ \E u \in Users, k \in Kinds, ttl \in TableTtls \cup {NoTtl} : Begin(u, k, ttl)
    \/ \E u \in Users : refresh(u)
    \/ BackendExit
    \/ Step \/ World

Spec == Init /\ [][Next]_vars

\* A statement in progress goes on: every exchange ends, with the answer or with
\* the timeout the agent and the stream reader put on it.
FairSpec == Spec /\ WF_vars(Step)

-----------------------------------------------------------------------------
Session ==
    [url : {Get(o, "url", NoUrl) : o \in FirstServers \cup ServerChoices} \cup {NoUrl},
     sid : Nat, changed : BOOLEAN, inits : Nat, gone : Nat, told : Nat]

\* Every variable keeps its shape; the stages are the ones of the client, and no
\* more cursors are held than list_all follows.
TypeOK ==
    /\ sessions \in [Users -> Session]
    /\ st.stage \in {"idle", "lookup", "init", "note", "ready", "try", "answered", "planned"}
    /\ st.user \in Users \cup {""} /\ st.kind \in Kinds /\ st.phase \in {"list", "call"}
    /\ st.sess \in Session /\ st.out \in McpError \cup {"Ok"}
    /\ Cardinality(st.followed) < MAX_LIST_PAGES
    /\ cache \in [Users -> [Slices -> [full : BOOLEAN, at : 0 .. MaxClock, ver : 0 .. MaxVersion]]]

\* However the session is lost, expired or refused in the middle of it, a
\* statement has its tool call carried out at most once, unless the server both
\* carried it out and answered in the words of an expired session; and a call
\* that succeeded was carried out (request, exchange_checked).
CallsOnce ==
    /\ st.ran > 1 => st.ran = 2 /\ st.misread
    /\ st.stage = "answered" /\ st.phase = "call" /\ st.out = "Ok" => st.ran >= 1

\* A request or notification carries only a session id that the server at the
\* statement's URL issued to the statement's role, across ALTER SERVER and a map
\* shared by all roles of the backend (with_session, SessionKey).
OwnSession ==
    st.stage \in {"note", "try"} /\ st.sess.sid # 0 => Issued(st.url, st.sess.sid, st.user)

\* A session is initialized once for all its requests, and once more only for
\* each time a server disowned it (with_session, request).
InitializedOnce ==
    \A u \in Users : initialize_count(u) <= 1 + sessions[u].gone

\* A statement exchanges nothing in clear text with a host that was not loopback
\* when the statement began, whatever the resolver said when the options were
\* set (ServerOptions::parse, called by resolve for every statement).
ClearOnlyToLoopback ==
    st.stage \in {"init", "note", "try"} => st.url.scheme = "https" \/ st.loop

\* A scan of the tools table never answers with a list older than the last
\* list_changed notification its session had read before the scan (fetch_list,
\* Notifications): the flag survives failed fetches, scans of other tables and
\* generated tables.
NoticeHonoured ==
    [][/\ ScanFromCache /\ st.kind = "tools" => st'.answer >= st.sess.told
       /\ LastPage /\ st.kind = "tools" => st'.answer >= st.told]_vars

\* The readers of the lists see what PgCache promises.
Readers == INSTANCE PgCache WITH
    Ttls <- TableTtls \cup {0} \cup
              {Get(o, "cache_ttl_ms", DEFAULT_CACHE_TTL_MS) : o \in FirstServers \cup ServerChoices},
    slots <- cache, answer <- st.answer,
    reader <- [on |-> st.stage # "idle", floor |-> st.floor, ttl |-> st.ttl]

\* The cache, with its sessions, pages, retries, flags and failures, implements
\* the bounded-staleness contract of PgCache (cache.rs, fetch_list, list_all,
\* resolve_tool).
FreshEnough == Readers!CacheSpec

\* Every statement ends: pages, retries and exchanges are all bounded.
StatementEnds == st.stage # "idle" ~> st.stage = "idle"

\* "one silent re-initialize if the server 404s or reports an expired session":
\* a statement whose first answer disowned the session does not end with that
\* answer as its error (exchange_checked).
ExpiredIsRenewed ==
    st.stage = "answered" => ~(st.expired /\ ~st.again)
=============================================================================
