------------------------------- MODULE Session -------------------------------
(***************************************************************************)
(* One server session (lib/noizu/mcp/server/session.ex): a GenServer that  *)
(* owns a Peer, runs every feature request in a task of its own, asks the  *)
(* client on behalf of those tasks (sampling, elicitation, roots) under a  *)
(* timer, and stops when it is idle, closed or fails to initialise.        *)
(*                                                                         *)
(* Session state: peer, tasks (ids with a task entry), refs (ids whose     *)
(* monitor reference is known), out_timers (ids of its own requests with a *)
(* timer entry), idle and reason (why it stopped, or "none").              *)
(* Tasks: proc[id] is the process that runs the handler of request id:     *)
(* "none", "running", "asking" (inside server_request) or "dead";          *)
(* killed holds those with an exit signal on its way; ask[n] is the task   *)
(* that the session's request n was made for.                              *)
(* Mailbox: results, downs and timeouts are the messages that wait there.  *)
(* Messages of different senders arrive in any order, so a delivery, a     *)
(* call or a message above is handled in any order too; what a cancelled   *)
(* timer or a killed task had already sent stays in the mailbox.           *)
(* Client: asks holds the session's requests it has not answered.          *)
(* History: asked and answered count requests and responses by id,         *)
(* silenced holds the ids cancelled in flight, replies counts the replies  *)
(* given to the caller of the session's request n.                         *)
(***************************************************************************)
EXTENDS Peer

CONSTANTS Ids,       \* request ids of the client
          MaxOut,    \* bound: requests the session makes
          MaxSends,  \* bound: times the client sends one id
          IdleOn     \* idle_timeout is finite

ASSUME SessionAssumption == MaxOut \in Nat /\ MaxSends \in Nat /\ IdleOn \in BOOLEAN

VARIABLES peer, tasks, refs, out_timers, idle, reason, proc, killed, ask,
          results, downs, armed, timeouts, asks, asked, answered, silenced, replies

session == <<peer, tasks, refs, out_timers>>
procs == <<proc, killed, ask>>
mailbox == <<results, downs, armed, timeouts>>
history == <<asked, answered, silenced, replies>>
vars == <<session, idle, reason, procs, mailbox, asks, history>>

Outs == 1 .. MaxOut

up == reason = "none"

Init ==
  /\ peer = new /\ tasks = {} /\ refs = {} /\ out_timers = {}
  /\ idle = (IF IdleOn THEN "armed" ELSE "off") /\ reason = "none"
  /\ proc = [id \in Ids |-> "none"] /\ killed = {} /\ ask = [n \in {} |-> n]
  /\ results = {} /\ downs = {} /\ armed = {} /\ timeouts = {} /\ asks = {}
  /\ asked = [id \in Ids |-> 0] /\ answered = [id \in Ids |-> 0] /\ silenced = {}
  /\ replies = [n \in Outs |-> 0]

-----------------------------------------------------------------------------
(* The tasks: whatever a handler does, seen from the session *)

\* The handler returns: its result is sent to the session.
TaskReturns(id) ==
  /\ proc[id] = "running"
  /\ proc' = [proc EXCEPT ![id] = "dead"]
  /\ results' = results \cup {id}
  /\ UNCHANGED <<session, idle, reason, killed, ask, downs, armed, timeouts, asks, history>>

\* The handler raises or exits: a :DOWN reaches whoever still monitors it.
\* A task inside server_request exits when the session is gone.
TaskCrashes(id) ==
  /\ proc[id] = "running" \/ (proc[id] = "asking" /\ ~up)
  /\ proc' = [proc EXCEPT ![id] = "dead"]
  /\ downs' = IF id \in refs THEN downs \cup {id} ELSE downs
  /\ UNCHANGED <<session, idle, reason, killed, ask, results, armed, timeouts, asks, history>>

\* The exit signal of a cancellation arrives.
TaskKilled(id) ==
  /\ id \in killed /\ proc[id] # "dead"
  /\ proc' = [proc EXCEPT ![id] = "dead"]
  /\ UNCHANGED <<session, idle, reason, killed, ask, mailbox, asks, history>>

\* Mutant: the request is made without a timer.
server_requestUntimed(id) ==
  LET n == peer.next_id IN
  /\ up /\ proc[id] = "running" /\ n <= MaxOut
  /\ peer.phase = "ready"
  /\ peer' = request(peer)
  /\ ask' = [m \in DOMAIN ask \cup {n} |-> IF m = n THEN id ELSE ask[m]]
  /\ proc' = [proc EXCEPT ![id] = "asking"]
  /\ asks' = asks \cup {n}
  /\ UNCHANGED <<tasks, refs, out_timers, idle, reason, killed, mailbox, history>>

\* handle_call {:server_request, ...} from the task of request id.
server_request(id) ==
  LET n == peer.next_id IN
  /\ up /\ proc[id] = "running" /\ n <= MaxOut
  /\ peer.phase = "ready"
  /\ peer' = request(peer)
  /\ out_timers' = out_timers \cup {n} /\ armed' = armed \cup {n}
  /\ ask' = [m \in DOMAIN ask \cup {n} |-> IF m = n THEN id ELSE ask[m]]
  /\ proc' = [proc EXCEPT ![id] = "asking"]
  /\ asks' = asks \cup {n}
  /\ UNCHANGED <<tasks, refs, idle, reason, killed, results, downs, timeouts, history>>

-----------------------------------------------------------------------------
(* Timers.  Process.cancel_timer takes a timer out of armed; a message     *)
(* that has been sent stays.                                               *)

TimerFires(n) ==
  /\ up /\ n \in armed
  /\ armed' = armed \ {n} /\ timeouts' = timeouts \cup {n}
  /\ UNCHANGED <<session, idle, reason, procs, results, downs, asks, history>>

IdleFires ==
  /\ up /\ idle = "armed" /\ idle' = "due"
  /\ UNCHANGED <<session, reason, procs, mailbox, asks, history>>

\* "due": :idle_timeout waits in the mailbox and nothing came since;
\* "stale": it still waits there after a delivery armed the next timer.
rearm_idle_timer == idle' = IF idle = "due" THEN "stale" ELSE idle

-----------------------------------------------------------------------------
(* Messages the session handles *)

\* reply_result: the response is sent unless the peer drops it.
Answered(id) == IF responds(peer, id) THEN [answered EXCEPT ![id] = @ + 1] ELSE answered

\* {ref, {:mcp_task, id, result}}.
HandleResult(id) ==
  /\ up /\ id \in results
  /\ results' = results \ {id}
  /\ downs' = downs \ {id}
  /\ IF id \in refs
     THEN /\ refs' = refs \ {id} /\ tasks' = tasks \ {id}
          /\ peer' = finish_inbound(peer, id) /\ answered' = Answered(id)
     ELSE UNCHANGED <<refs, tasks, peer, answered>>
  /\ UNCHANGED <<out_timers, idle, reason, procs, armed, timeouts, asks, asked, silenced, replies>>

\* Mutant: a crashed handler is logged and forgotten.
HandleDownSilent(id) ==
  /\ up /\ id \in downs
  /\ downs' = downs \ {id}
  /\ refs' = refs \ {id} /\ tasks' = tasks \ {id}
  /\ UNCHANGED <<peer, out_timers, idle, reason, procs, results, armed, timeouts, asks, history>>

\* :DOWN of a task: the request is answered with a failure.
HandleDown(id) ==
  /\ up /\ id \in downs
  /\ downs' = downs \ {id}
  /\ IF id \in refs
     THEN /\ refs' = refs \ {id} /\ tasks' = tasks \ {id}
          /\ peer' = finish_inbound(peer, id) /\ answered' = Answered(id)
     ELSE UNCHANGED <<refs, tasks, peer, answered>>
  /\ UNCHANGED <<out_timers, idle, reason, procs, results, armed, timeouts, asks, asked, silenced,
                 replies>>

\* GenServer.reply to the caller of the session's request n.
Reply(n) ==
  /\ replies' = [replies EXCEPT ![n] = @ + 1]
  /\ proc' = IF proc[ask[n]] = "asking" THEN [proc EXCEPT ![ask[n]] = "running"] ELSE proc

\* {:server_request_timeout, n}: abandoned, and the client is told.
HandleTimeout(n) ==
  /\ up /\ n \in timeouts
  /\ timeouts' = timeouts \ {n}
  /\ IF n \in out_timers
     THEN /\ out_timers' = out_timers \ {n}
          /\ peer' = cancel_out(peer, n)
          /\ IF resolves(peer, n) THEN Reply(n) ELSE UNCHANGED <<replies, proc>>
     ELSE UNCHANGED <<out_timers, peer, replies, proc>>
  /\ UNCHANGED <<tasks, refs, idle, reason, killed, ask, results, downs, armed, asks, asked,
                 answered, silenced>>

\* :idle_timeout.
HandleIdle ==
  /\ up /\ idle \in {"due", "stale"}
  /\ reason' = "idle"
  /\ UNCHANGED <<session, idle, procs, mailbox, asks, history>>

-----------------------------------------------------------------------------
(* Deliveries from the client: decode, ingest and run_effects in one go.   *)
(* The client uses an id once; the same request may arrive again (a        *)
(* transport that sends twice) while the first is in flight.               *)

\* initialize, ping, undecodable input, progress and other notices: answered
\* at once or ignored.  Only initialize moves the peer.
Deliver ==
  /\ up /\ rearm_idle_timer
  /\ peer' \in {peer, ingest_initialize(peer)}
  /\ UNCHANGED <<tasks, refs, out_timers, reason, procs, mailbox, asks, history>>

\* notifications/initialized: user_init may fail, and halts the session.
DeliverInitialized ==
  /\ up /\ rearm_idle_timer
  /\ peer' = ingest_initialized(peer)
  /\ reason' \in {"none"} \cup (IF peer'.phase # peer.phase THEN {"init_failed"} ELSE {})
  /\ UNCHANGED <<tasks, refs, out_timers, procs, mailbox, asks, history>>

Asks(id) ==
  /\ up /\ rearm_idle_timer
  /\ asked[id] < MaxSends
  /\ asked[id] = 0 \/ id \in peer.pending_in
  /\ asked' = [asked EXCEPT ![id] = @ + 1]

\* Not ready, not a method of a server, or a duplicate of one in flight.
RefuseRequest(id) ==
  /\ Asks(id)
  /\ answered' = [answered EXCEPT ![id] = @ + 1]
  /\ UNCHANGED <<session, reason, procs, mailbox, asks, silenced, replies>>

\* dispatch to a method served in the session process: setLevel, subscribe,
\* unsubscribe, and whatever the server module does not export.
AnswerRequest(id) ==
  /\ Asks(id) /\ dispatches(peer, id)
  /\ peer' = finish_inbound(ingest_request(peer, id), id)
  /\ answered' = IF responds(ingest_request(peer, id), id)
                 THEN [answered EXCEPT ![id] = @ + 1] ELSE answered
  /\ UNCHANGED <<tasks, refs, out_timers, reason, procs, mailbox, asks, silenced, replies>>

\* dispatch to a feature: spawn_task.
spawn_task(id) ==
  /\ Asks(id) /\ dispatches(peer, id)
  /\ peer' = ingest_request(peer, id)
  /\ tasks' = tasks \cup {id} /\ refs' = refs \cup {id}
  /\ proc' = [proc EXCEPT ![id] = "running"]
  /\ UNCHANGED <<out_timers, reason, killed, ask, mailbox, asks, answered, silenced, replies>>

\* notifications/cancelled: the task loses its entry, its monitor and its life.
cancel_in(id) ==
  /\ up /\ rearm_idle_timer
  /\ asked[id] > 0
  /\ peer' = ingest_cancelled(peer, id)
  /\ IF id \in peer.pending_in
     THEN /\ silenced' = silenced \cup {id}
          /\ tasks' = tasks \ {id}
          /\ refs' = IF id \in tasks THEN refs \ {id} ELSE refs
          /\ downs' = IF id \in tasks THEN downs \ {id} ELSE downs
          /\ killed' = IF id \in tasks THEN killed \cup {id} ELSE killed
     ELSE UNCHANGED <<silenced, tasks, refs, downs, killed>>
  /\ UNCHANGED <<out_timers, reason, proc, ask, results, armed, timeouts, asks, asked, answered,
                 replies>>

\* The client answers the session's request n, in time or not.
DeliverResponse(n) ==
  /\ up /\ rearm_idle_timer
  /\ n \in asks /\ asks' = asks \ {n}
  /\ IF resolves(peer, n)
     THEN /\ peer' = resolve_out(peer, n)
          /\ out_timers' = out_timers \ {n} /\ armed' = armed \ {n}
          /\ Reply(n)
     ELSE UNCHANGED <<peer, out_timers, armed, replies, proc>>
  /\ UNCHANGED <<tasks, refs, reason, killed, ask, results, downs, timeouts, asked, answered,
                 silenced>>

\* The transport ends the session (DELETE, a closed stdin), its supervisor
\* does, or a callback that runs in the session process raises.
Terminate ==
  /\ up /\ reason' = "closed"
  /\ UNCHANGED <<session, idle, procs, mailbox, asks, history>>

-----------------------------------------------------------------------------
Tasks(id) == TaskReturns(id) \/ TaskCrashes(id) \/ TaskKilled(id) \/ server_request(id)

Handlers == \/ \E id \in Ids : HandleResult(id) \/ HandleDown(id)
            \/ \E n \in Outs : HandleTimeout(n)
            \/ HandleIdle

Deliveries == \/ Deliver \/ DeliverInitialized
              \/ \E id \in Ids : RefuseRequest(id) \/ AnswerRequest(id) \/ spawn_task(id)
                                 \/ cancel_in(id)
              \/ \E n \in Outs : DeliverResponse(n)

Next == \/ \E id \in Ids : Tasks(id)
        \/ \E n \in Outs : TimerFires(n)
        \/ IdleFires \/ Handlers \/ Deliveries \/ Terminate

Spec == Init /\ [][Next]_vars

\* The session handles its mailbox, timers run, a handler ends by itself and
\* an exit signal arrives.  Nothing is asked of the client.
Fairness ==
  /\ \A id \in Ids : /\ WF_vars(TaskReturns(id) \/ TaskCrashes(id)) /\ WF_vars(TaskKilled(id))
                     /\ WF_vars(HandleResult(id)) /\ WF_vars(HandleDown(id))
  /\ \A n \in Outs : WF_vars(TimerFires(n)) /\ WF_vars(HandleTimeout(n))

FairSpec == Spec /\ Fairness

-----------------------------------------------------------------------------
(* Properties *)

\* The session's tables, its mailbox and its history have their types.
TypeOK ==
  /\ peer \in PeerRecords(Ids, Outs) /\ peer.next_id \in 1 .. MaxOut + 1
  /\ tasks \subseteq Ids /\ refs \subseteq Ids /\ out_timers \subseteq Outs
  /\ idle \in {"off", "armed", "due", "stale"}
  /\ reason \in {"none", "idle", "init_failed", "closed"}
  /\ proc \in [Ids -> {"none", "running", "asking", "dead"}] /\ killed \subseteq Ids
  /\ ask \in [1 .. peer.next_id - 1 -> Ids]
  /\ results \subseteq Ids /\ downs \subseteq Ids /\ armed \subseteq Outs
  /\ timeouts \subseteq Outs /\ asks \subseteq Outs
  /\ asked \in [Ids -> Nat] /\ answered \in [Ids -> Nat] /\ silenced \subseteq Ids
  /\ replies \in [Outs -> Nat]

Count(b) == IF b THEN 1 ELSE 0

\* Every request the client sent is answered exactly once, or still in
\* flight, or was cancelled in flight and then never answered, whatever its
\* task still sends ("don't answer twice"; "the spec forbids responding after
\* cancellation", peer.ex).
RequestsAccounted ==
  \A id \in Ids : asked[id] = answered[id] + Count(id \in peer.pending_in)
                                            + Count(id \in silenced)

\* The request table of the peer, the task table and the monitor table name
\* the same requests, so a :DOWN always finds its entry; and while the
\* session runs each of them still has a process at work or a message in the
\* mailbox that will answer it.
EntriesLive ==
  /\ peer.pending_in = tasks /\ tasks = refs
  /\ up => \A id \in tasks : \/ proc[id] \in {"running", "asking"} /\ id \notin killed
                             \/ id \in results \cup downs

\* Each call of server_request is replied to exactly once, by the response or
\* by its timeout, however the two race; until then its caller is covered by
\* a timer that is running or has its message in the mailbox.
AsksAccounted ==
  /\ peer.pending_out = out_timers
  /\ \A n \in 1 .. peer.next_id - 1 : replies[n] = Count(n \notin peer.pending_out)
  /\ up => out_timers \subseteq armed \cup timeouts
  /\ \A id \in Ids : proc[id] = "asking" => \E n \in peer.pending_out : ask[n] = id

\* A dispatched request does not stay in flight for ever.
RequestSettled ==
  \A id \in Ids : id \in peer.pending_in ~> (id \notin peer.pending_in \/ ~up)

\* A task that asks the client is released although server_request waits
\* without a limit of its own, the client may never answer, and the session
\* may stop in between.
AskReleased ==
  \A id \in Ids : proc[id] = "asking" ~> proc[id] # "asking"

\* A session expires "with no client activity" only (guides/streamable_http.md):
\* it never stops for idleness after a delivery restarted the period.
StopsOnlyWhenIdle ==
  [][reason = "none" /\ reason' = "idle" => idle = "due"]_vars
=============================================================================
