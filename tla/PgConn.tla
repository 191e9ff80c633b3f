------------------------------- MODULE PgConn -------------------------------
(***************************************************************************)
(* The MCP client of one PostgreSQL backend of the pg_mcp extension: the   *)
(* per-backend session map (session.rs), the Streamable HTTP client        *)
(* (client.rs) and its event-stream reader (sse.rs), and the MCP servers   *)
(* it talks to (external).                                                 *)
(*                                                                         *)
(* A backend runs one statement at a time (st).  A statement resolves the  *)
(* catalog, takes the session of (server, role) out of the map or opens    *)
(* one, runs a body that sends requests, and puts the session back.  One   *)
(* action is one HTTP exchange, so that session expiry, list changes, time *)
(* and cancels fall between any two of them.  The foreign server has one   *)
(* OID, so the map is keyed by role.                                       *)
(***************************************************************************)
EXTENDS PgOptions, Sequences

CONSTANTS
    Users,          \* roles that run statements
    MaxFaults       \* exchanges that may go wrong and sessions that may expire

VARIABLES
    catalog,        \* the foreign server, the user mappings and the resolver
    sessions,       \* SESSIONS: the cached session of each role
    st,             \* the statement being executed, or the last one
    served,         \* server side: the sessions issued, and whether they still live
    ver,            \* server side: how often the tool list has changed
    faults          \* exchanges gone wrong and sessions expired so far

connVars == <<catalog, sessions, st, served, ver, faults>>

-----------------------------------------------------------------------------
\* A session: endpoint, Mcp-Session-Id (0: none), the shared tools-changed
\* flag, how often it was initialized; and, for the properties, how often a
\* server disowned it and the last list version it was told of.
NoUrl == [scheme |-> "", host |-> "missing"]

NoSession == [url |-> NoUrl, sid |-> 0, changed |-> FALSE, inits |-> 0,
              gone |-> 0, told |-> 0]

\* What HTTP brings back: a status (0: no answer at all), a JSON body or an
\* event stream, and what the body holds (code 0: a result, 1: neither a result
\* nor an error, otherwise a JSON-RPC error code with its message).
Json(code, msg) ==
    [status |-> 200, frames |-> <<>>, code |-> code, msg |-> msg]

Stream(frames, code) ==
    [status |-> 200, frames |-> frames, code |-> code, msg |-> "plain"]

Status(n) == [status |-> n, frames |-> <<>>, code |-> 0, msg |-> "plain"]

\* read_until_id_observed: the frames are read in order until the answer; each
\* one read is offered to the notification flags; the end of the stream before
\* an answer (a close, a deadline, a read error) is a transport failure, and
\* what follows the answer is never read.
Answered(frames) == \E i \in DOMAIN frames : frames[i] = "answer"

Observed(frames) ==
    \E i \in DOMAIN frames :
        frames[i] = "changed" /\ \A j \in 1 .. (i - 1) : frames[j] # "answer"

\* classify_status and dispatch: what one exchange is to the client.
dispatch(h) ==
    CASE h.status = 0 -> "Failed"
      [] h.status = 404 -> "SessionGone"
      [] h.status = 202 -> "Accepted"
      [] h.status = 200 /\ h.frames # <<>> -> "Sse"
      [] h.status = 200 /\ h.frames = <<>> -> "Json"
      [] OTHER -> "Failed"

StatusError(h) == IF h.status = 0 THEN "Transport" ELSE from_http_status(h.status)

\* finish and rpc_error: the result, or the error the body carries.
finish(h) ==
    CASE h.code = 0 -> "Ok"
      [] h.code = 1 -> "Transport"
      [] OTHER -> from_rpc(h.code, h.msg)

\* read_stream, then finish.
StreamOutcome(h) == IF Answered(h.frames) THEN finish(h) ELSE "Transport"

\* Mutant: any refusal of the server is taken for a lost session.
RefusalIsGone(h) ==
    CASE dispatch(h) = "Json" -> IF finish(h) = "Ok" THEN "Ok" ELSE "Gone"
      [] dispatch(h) = "Sse" -> StreamOutcome(h)
      [] dispatch(h) = "Accepted" -> "Transport"
      [] dispatch(h) = "SessionGone" -> "Gone"
      [] OTHER -> StatusError(h)

\* exchange_checked: "Gone" is its Ok(None).  Only a JSON body is looked into for
\* an expired-session message.
exchange_checked(h) ==
    CASE dispatch(h) = "Json" ->
            IF finish(h) # "Ok" /\ is_expired_session(h.msg) THEN "Gone" ELSE finish(h)
      [] dispatch(h) = "Sse" -> StreamOutcome(h)
      [] dispatch(h) = "Accepted" -> "Transport"
      [] dispatch(h) = "SessionGone" -> "Gone"
      [] OTHER -> StatusError(h)

\* exchange, as initialize uses it: a lost session is fatal.
exchange(h) ==
    CASE dispatch(h) = "Json" -> finish(h)
      [] dispatch(h) = "Sse" -> StreamOutcome(h)
      [] dispatch(h) \in {"Accepted", "SessionGone"} -> "Transport"
      [] OTHER -> StatusError(h)

\* notify: only a failed exchange is an error.
notify(h) == IF dispatch(h) = "Failed" THEN StatusError(h) ELSE "Ok"

-----------------------------------------------------------------------------
\* The servers (external).  A request names a session the server knows for that
\* role, or it is refused: with 400 when it names none, otherwise with 404 or an
\* error saying that the session has expired, in either framing.
Issued(url, sid, u) == \E s \in served : s.sid = sid /\ s.url = url /\ s.user = u

Knows(url, sid, u) ==
    \E s \in served : s.sid = sid /\ s.url = url /\ s.user = u /\ s.alive

GoodAnswers == {Json(0, "plain"), Stream(<<"answer">>, 0),
                Stream(<<"changed", "answer">>, 0), Stream(<<"answer", "changed">>, 0)}

GoneAnswers == {Status(404), Json(-32000, "expired"),
                [Stream(<<"answer">>, -32000) EXCEPT !.msg = "expired"]}

\* What may go wrong with a request a server could have answered: no answer, a
\* status, an acknowledgement, a cut stream, an error or an empty response.  A
\* server error may read like an expired session.
FaultAnswers == {Status(0), Status(500), Status(401), Status(405), Status(202),
                 Stream(<<"changed">>, 0), Json(-32601, "plain"), Json(-32602, "plain"),
                 Json(-32000, "authz"), Json(-32603, "expired"), Json(1, "plain")}

\* The answers to a request on a session: [h, ran, cost], ran saying whether the
\* server carried the request out and cost whether the exchange went wrong.
RequestAnswers(url, sid, u) ==
    IF Knows(url, sid, u)
    THEN [h : GoodAnswers, ran : {TRUE}, cost : {0}]
           \cup [h : FaultAnswers, ran : BOOLEAN, cost : {1}]
    ELSE IF sid = 0 THEN [h : {Status(400)}, ran : {FALSE}, cost : {0}]
    ELSE [h : GoneAnswers, ran : {FALSE}, cost : {0}]

InitAnswers ==
    [h : {Json(0, "plain")}, cost : {0}]
      \cup [h : {Stream(<<"answer">>, 0), Status(0), Status(401), Status(404),
                 Json(-32603, "plain")}, cost : {1}]

NoteAnswers(url, sid, u) ==
    IF Knows(url, sid, u)
    THEN [h : {Status(202)}, cost : {0}] \cup [h : {Status(0), Status(401)}, cost : {1}]
    ELSE [h : {IF sid = 0 THEN Status(400) ELSE Status(404)}, cost : {0}]

\* A session ends on the server: idle timeout, restart, termination.
Expire ==
    /\ faults < MaxFaults
    /\ \E s \in served :
         s.alive /\ served' = (served \ {s}) \cup {[s EXCEPT !.alive = FALSE]}
    /\ faults' = faults + 1
    /\ UNCHANGED <<catalog, sessions, st, ver>>

-----------------------------------------------------------------------------
\* lookup_user_mapping: the role's own mapping, else PUBLIC's, else none (an
\* empty option list).
lookup_user_mapping(u) ==
    IF DOMAIN catalog.mapping[u] # {} THEN catalog.mapping[u]
    ELSE catalog.mapping["PUBLIC"]

\* resolve_bearer, with read_token_secret: what stands in the way of a bearer.
resolve_bearer(u) ==
    LET m == lookup_user_mapping(u)
    IN  CASE DOMAIN m = {} -> "NoAuthMapping"
          [] DOMAIN m # {} /\ ParseMapping(m) # "Ok" -> ParseMapping(m)
          [] ParseMapping(m) = "Ok" /\ "token_secret" \in DOMAIN m /\ ~catalog.secret -> "NoAuthMapping"
          [] OTHER -> "Ok"

\* lookup_foreign_server: an empty option list stands for no such server.
lookup_foreign_server == DOMAIN catalog.server # {}

\* Mutant: a statement keeps to the options as they were validated when set.
ResolveAsSet(u) ==
    IF ~lookup_foreign_server THEN [err |-> "UndefinedObject"]
    ELSE ParseShapeOnly(catalog.server, catalog.dns)

\* resolve: the server by name, its options parsed again for every statement,
\* and the credential of the role unless the server wants none.
resolve(u) ==
    IF ~lookup_foreign_server THEN [err |-> "UndefinedObject"]
    ELSE LET o == ParseServer(catalog.server, catalog.dns)
         IN  IF o.err = "Ok" /\ o.auth = "bearer" /\ resolve_bearer(u) # "Ok"
             THEN [err |-> resolve_bearer(u)] ELSE o

-----------------------------------------------------------------------------
\* Mutant: a cached session is reused whatever the server's URL is now.
EnterAnyUrl(s, u) ==
    IF sessions[u].inits # 0
    THEN [s EXCEPT !.stage = "ready", !.sess = sessions[u], !.again = FALSE]
    ELSE [s EXCEPT !.stage = "init", !.opening = TRUE, !.again = FALSE,
                   !.sess = [NoSession EXCEPT !.url = s.url]]

\* with_session, before the body: take the session out of the map and use it if
\* it is one for the URL of now, else open another.
Enter(s, u) ==
    IF sessions[u].inits # 0 /\ sessions[u].url = s.url
    THEN [s EXCEPT !.stage = "ready", !.sess = sessions[u], !.again = FALSE]
    ELSE [s EXCEPT !.stage = "init", !.opening = TRUE, !.again = FALSE,
                   !.sess = [NoSession EXCEPT !.url = s.url]]

\* No statement: the shape of st, and what is left of it when a statement ends.
Statement0 ==
    [stage |-> "idle", user |-> "", kind |-> "call", phase |-> "call",
     url |-> NoUrl, ttl |-> 0, sess |-> NoSession, opening |-> FALSE,
     again |-> FALSE, followed |-> {}, lo |-> 0, out |-> "Ok", floor |-> 0,
     told |-> 0, answer |-> 0, ran |-> 0, misread |-> FALSE, expired |-> FALSE,
     loop |-> TRUE, count |-> 0]

Over(s) ==
    [Statement0 EXCEPT !.answer = s.answer, !.count = s.count]

\* with_session, after the body: the session goes back unless the transport
\* failed.
Returned(s, out) ==
    [sessions EXCEPT ![s.user] = IF out = "Transport" THEN NoSession ELSE s.sess]

-----------------------------------------------------------------------------
\* initialize, its first exchange: without session id.  The fields of the
\* session are set as soon as it is answered, before the notification.
SendInitialize ==
    /\ st.stage = "init"
    /\ \E a \in InitAnswers :
         LET e == exchange(a.h)
             sid == Cardinality(served) + 1
             s == [sid |-> sid, url |-> st.url, user |-> st.user, alive |-> TRUE]
         IN  /\ faults + a.cost <= MaxFaults
             /\ faults' = faults + a.cost
             /\ served' = IF e = "Ok" THEN served \cup {s} ELSE served
             /\ st' = IF e = "Ok"
                      THEN [st EXCEPT !.stage = "note",
                              !.sess.sid = IF dispatch(a.h) = "Json" THEN sid ELSE 0,
                              !.sess.inits = @ + 1]
                      ELSE IF st.opening THEN Over(st)
                      ELSE [st EXCEPT !.stage = "answered", !.out = e]
    /\ UNCHANGED <<catalog, sessions, ver>>

\* initialize, its second exchange: notifications/initialized.
SendInitialized ==
    /\ st.stage = "note"
    /\ \E a \in NoteAnswers(st.url, st.sess.sid, st.user) :
         LET e == notify(a.h)
         IN  /\ faults + a.cost <= MaxFaults
             /\ faults' = faults + a.cost
             /\ st' = IF e = "Ok"
                      THEN [st EXCEPT !.stage = IF st.opening THEN "ready" ELSE "try",
                                      !.opening = FALSE]
                      ELSE IF st.opening THEN Over(st)
                      ELSE [st EXCEPT !.stage = "answered", !.out = e]
    /\ UNCHANGED <<catalog, sessions, served, ver>>

\* observe: a list_changed frame that was read sets the flag of the session.
Observe(s, h) ==
    IF dispatch(h) = "Sse" /\ Observed(h.frames)
    THEN [s EXCEPT !.sess.changed = TRUE, !.sess.told = ver] ELSE s

\* request: what one try makes of the statement.  A lost session is initialized
\* again once and the request tried again once; a second loss is the error.
AfterTry(s, e) ==
    IF e = "Gone" /\ ~s.again
    THEN [s EXCEPT !.stage = "init", !.again = TRUE, !.sess.sid = 0]
    ELSE [s EXCEPT !.stage = "answered", !.out = IF e = "Gone" THEN "Transport" ELSE e]

\* try_request: one POST of the request on the session in hand.  For the
\* properties: whether the server carried a call out (ran), whether it did and
\* was then taken to have lost the session (misread), whether the first answer
\* disowned the session (expired), and the list version the first page shows.
SendRequest ==
    /\ st.stage = "try"
    /\ \E a \in RequestAnswers(st.url, st.sess.sid, st.user) :
         LET e == exchange_checked(a.h)
             s == Observe(st, a.h)
             gone == a.h.status = 404 \/ is_expired_session(a.h.msg)
         IN  /\ faults + a.cost <= MaxFaults
             /\ faults' = faults + a.cost
             /\ st' = AfterTry(
                  [s EXCEPT
                     !.ran = IF st.phase = "call" /\ a.ran THEN @ + 1 ELSE @,
                     !.misread = @ \/ (st.phase = "call" /\ a.ran /\ gone),
                     !.expired = ~st.again /\ gone,
                     !.sess.gone = IF gone THEN @ + 1 ELSE @,
                     !.lo = IF st.followed = {} THEN ver ELSE @],
                  e)
    /\ UNCHANGED <<catalog, sessions, served, ver>>

\* PgInterrupts: a query cancel or a statement timeout unwinds out of the
\* exchange, and the session in hand is never put back.
Cancel ==
    /\ st.stage \in {"init", "note", "try"}
    /\ st' = Over(st)
    /\ UNCHANGED <<catalog, sessions, served, ver, faults>>

\* The tool list of the servers changes.
Change(max) ==
    /\ ver < max
    /\ ver' = ver + 1
    /\ UNCHANGED <<catalog, sessions, st, served, faults>>
=============================================================================
