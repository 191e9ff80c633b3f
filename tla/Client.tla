-------------------------------- MODULE Client --------------------------------
(***************************************************************************)
(* The calling half of the MCP client (lib/noizu/mcp/client.ex): a         *)
(* GenServer that owns a Peer and a transport process, queues calls until  *)
(* the handshake is over, and answers each caller from the response, a     *)
(* timeout, a cancellation or the loss of the transport.                   *)
(*                                                                         *)
(* Client state: peer, status, pending, queued, waiters; why says why the  *)
(* process stopped ("none" while it runs).                                 *)
(* pending[n] is the entry of request n: "none", "open" or "held" (a       *)
(* terminal result waits for await/3), the caller to reply to, the result. *)
(* Callers: call[c] is "idle", "ref" (async/4 returned a reference),       *)
(* "calling" (inside GenServer.call, without a limit) or "done";           *)
(* reply[c] is what its last call returned, ref[c] its reference.          *)
(* Around it: link is the transport ("starting", "up", "dead": it is gone  *)
(* and its {:down, _} or :EXIT is in the mailbox), armed and timeouts are  *)
(* timers running and fired, unanswered holds the requests the server may  *)
(* still answer.  Request 1 is initialize.                                 *)
(* Messages of different senders reach the mailbox in any order, so they   *)
(* are handled in any order; a timer that fired before it was cancelled    *)
(* leaves its message there.                                               *)
(***************************************************************************)
EXTENDS Peer, Sequences, FiniteSets

CONSTANTS Calls,       \* calls made to the client, each by its own process
          Untimed,     \* those made with timeout: :infinity
          Cancellable, \* those somebody may cancel/3
          Nobody       \* no caller attached: from is nil

ASSUME ClientAssumption ==
  /\ IsFiniteSet(Calls) /\ Untimed \subseteq Calls /\ Cancellable \subseteq Calls
  /\ Nobody \notin Calls

VARIABLES peer, status, pending, queued, waiters, why,
          call, ref, reply, link, armed, timeouts, unanswered

client == <<peer, status, pending, queued, waiters, why>>
callers == <<call, ref, reply>>
around == <<link, armed, timeouts, unanswered>>
vars == <<client, callers, around>>

Outs == 2 .. Cardinality(Calls) + 1

Outcomes == {"result", "timeout", "cancelled", "closed"}
Replies == Outcomes \cup {"none", "ok", "failed", "not_ready", "unknown_request", "exit"}

Entries == [st : {"none", "open", "held"}, from : Calls \cup {Nobody},
            result : Outcomes \cup {"none"}]

NoEntry == [st |-> "none", from |-> Nobody, result |-> "none"]
Open(from) == [st |-> "open", from |-> from, result |-> "none"]
Held(result) == [st |-> "held", from |-> Nobody, result |-> result]

up == why = "none"

Init ==
  /\ peer = new /\ status = "connecting" /\ pending = [n \in Outs |-> NoEntry]
  /\ queued = <<>> /\ waiters = {} /\ why = "none"
  /\ call = [c \in Calls |-> "idle"] /\ ref = [c \in Calls |-> 0]
  /\ reply = [c \in Calls |-> "none"]
  /\ link = "starting" /\ armed = {} /\ timeouts = {} /\ unanswered = {}

-----------------------------------------------------------------------------
(* GenServer.reply, and the end of the process *)

\* The callers in cs return with r.
Return(cs, r) ==
  /\ call' = [c \in Calls |-> IF c \in cs THEN "done" ELSE call[c]]
  /\ reply' = [c \in Calls |-> IF c \in cs THEN r ELSE reply[c]]

\* The caller of entry e, if one is attached, returns with r.
ReturnFrom(e, r) == Return({e.from} \ {Nobody}, r)

\* Mutant: the outcome of a request nobody awaits yet is dropped.
SettledDropped(e, r) == NoEntry

\* What is left of entry e once its outcome r is known: nothing when it was
\* handed to a caller, else r is held for await/3.
Settled(e, r) == IF e.from = Nobody THEN Held(r) ELSE NoEntry

\* The process ends: whoever is inside a call, the callers in cs included,
\* gets an exit.
Stop(w, cs) ==
  /\ why' = w
  /\ Return(cs \cup {c \in Calls : call[c] = "calling"}, "exit")
  /\ UNCHANGED <<peer, status, pending, queued, waiters, ref, around>>

\* send_message calls the transport process: with that gone, the client exits.
Sends(cs, Done) == IF link = "dead" THEN Stop("send_exit", cs) ELSE Done

-----------------------------------------------------------------------------
(* Calls *)

\* issue_request: entry, timer and message for the callers of cs, in order.
issue_request(p, cs, froms) ==
  LET n == p.next_id
      new_ids == n .. n + Len(cs) - 1 IN
  /\ peer' = [p EXCEPT !.next_id = @ + Len(cs), !.pending_out = @ \cup new_ids]
  /\ pending' = [m \in Outs |-> IF m \in new_ids THEN Open(froms[m - n + 1]) ELSE pending[m]]
  /\ armed' = armed \cup {m \in new_ids : cs[m - n + 1] \notin Untimed}
  /\ unanswered' = (unanswered \cup new_ids) \ {1}

\* request/4.
Request(c) ==
  /\ up /\ call[c] = "idle"
  /\ \/ /\ status = "ready"
        /\ Sends({c}, /\ issue_request(peer, <<c>>, <<c>>)
                      /\ call' = [call EXCEPT ![c] = "calling"]
                      /\ UNCHANGED <<status, queued, waiters, why, ref, reply, link, timeouts>>)
     \/ /\ status = "connecting"
        /\ queued' = Append(queued, c)
        /\ call' = [call EXCEPT ![c] = "calling"]
        /\ UNCHANGED <<peer, status, pending, waiters, why, ref, reply, around>>
     \/ /\ status = "failed"
        /\ Return({c}, "failed")
        /\ UNCHANGED <<client, ref, around>>

\* async/4: the reference is the id just issued.
Async(c) ==
  /\ up /\ call[c] = "idle"
  /\ IF status = "ready"
     THEN Sends({c}, /\ issue_request(peer, <<c>>, <<Nobody>>)
                     /\ call' = [call EXCEPT ![c] = "ref"]
                     /\ ref' = [ref EXCEPT ![c] = peer.next_id]
                     /\ UNCHANGED <<status, queued, waiters, why, reply, link, timeouts>>)
     ELSE /\ Return({c}, "not_ready")
          /\ UNCHANGED <<client, ref, around>>

\* await/3.
Await(c) ==
  /\ up /\ call[c] = "ref"
  /\ LET e == pending[ref[c]] IN
     IF e.st = "open"
     THEN /\ pending' = [pending EXCEPT ![ref[c]].from = c]
          /\ call' = [call EXCEPT ![c] = "calling"]
          /\ UNCHANGED reply
     ELSE /\ pending' = [pending EXCEPT ![ref[c]] = NoEntry]
          /\ Return({c}, IF e.st = "held" THEN e.result ELSE "unknown_request")
  /\ UNCHANGED <<peer, status, queued, waiters, why, ref, around>>

\* await_ready/2.
AwaitReady(c) ==
  /\ up /\ call[c] = "idle"
  /\ \/ /\ status = "connecting"
        /\ waiters' = waiters \cup {c}
        /\ call' = [call EXCEPT ![c] = "calling"]
        /\ UNCHANGED reply
     \/ /\ status # "connecting"
        /\ Return({c}, IF status = "ready" THEN "ok" ELSE "failed")
        /\ UNCHANGED waiters
  /\ UNCHANGED <<peer, status, pending, queued, why, ref, around>>

\* Any call once the process is gone.
CallGone(c) ==
  /\ ~up /\ call[c] \in {"idle", "ref"}
  /\ Return({c}, "exit")
  /\ UNCHANGED <<client, ref, around>>

-----------------------------------------------------------------------------
(* The ends of a request *)

\* Mutant: the caller is not told.
AbandonSilent(n, r) ==
  /\ peer' = cancel_out(peer, n)
  /\ pending' = [pending EXCEPT ![n] = Settled(@, r)]
  /\ UNCHANGED <<call, reply>>

\* cancel_out sends a notification only for a request the peer still waits for.
Abandon(n, r) ==
  /\ peer' = cancel_out(peer, n)
  /\ pending' = [pending EXCEPT ![n] = Settled(@, r)]
  /\ ReturnFrom(pending[n], r)

\* cancel/3, by any process that knows the reference.
Cancel(c) ==
  LET n == ref[c] IN
  /\ up /\ c \in Cancellable /\ n # 0
  /\ pending[n].st # "none"
  /\ LET Done == /\ Abandon(n, "cancelled")
                 /\ armed' = armed \ {n}
                 /\ UNCHANGED <<status, queued, waiters, why, ref, link, timeouts, unanswered>>
     IN IF resolves(peer, n) THEN Sends({}, Done) ELSE Done

\* {:request_timeout, n}.
HandleTimeout(n) ==
  /\ up /\ n \in timeouts
  /\ IF pending[n].st = "none"
     THEN /\ timeouts' = timeouts \ {n}
          /\ UNCHANGED <<client, callers, link, armed, unanswered>>
     ELSE LET Done == /\ Abandon(n, "timeout")
                      /\ timeouts' = timeouts \ {n}
                      /\ UNCHANGED <<status, queued, waiters, why, ref, link, armed, unanswered>>
          IN IF resolves(peer, n) THEN Sends({}, Done) ELSE Done

\* {:message, _} with the response to request n, in time or not.
Response(n) ==
  /\ up /\ n \in unanswered \ {1}
  /\ unanswered' = unanswered \ {n}
  /\ IF resolves(peer, n)
     THEN /\ peer' = resolve_out(peer, n)
          /\ pending' = [pending EXCEPT ![n] = Settled(@, "result")]
          /\ armed' = armed \ {n}
          /\ ReturnFrom(pending[n], "result")
     ELSE UNCHANGED <<peer, pending, armed, call, reply>>
  /\ UNCHANGED <<status, queued, waiters, why, ref, link, timeouts>>

\* Callers of entries, of the queue and of await_ready.
Attached == {pending[n].from : n \in Outs} \ {Nobody}
Queuers == {queued[i] : i \in DOMAIN queued}

\* Mutant: the queue is emptied and its callers are not told.
fail_allQueueless(r) ==
  /\ pending' = [n \in Outs |-> IF pending[n].st = "none" \/ pending[n].from # Nobody
                                THEN NoEntry ELSE Held(r)]
  /\ armed' = {}
  /\ queued' = <<>> /\ waiters' = {} /\ status' = "failed"
  /\ Return(Attached \cup waiters, r)

\* fail_all: every attached caller gets r, every other entry holds it.
fail_all(r) ==
  /\ pending' = [n \in Outs |-> IF pending[n].st = "none" \/ pending[n].from # Nobody
                                THEN NoEntry ELSE Held(r)]
  /\ armed' = {}
  /\ queued' = <<>> /\ waiters' = {} /\ status' = "failed"
  /\ Return(Attached \cup Queuers \cup waiters, r)

-----------------------------------------------------------------------------
(* The transport *)

\* start_link of the transport fails, before any call is handled.
TransportStartFails ==
  /\ up /\ link = "starting" /\ \A c \in Calls : call[c] = "idle"
  /\ Stop("start_failed", {})

\* {:up, _}: initialize is sent, without a timer.
TransportUp ==
  /\ up /\ peer.phase = "handshake"
  /\ Sends({}, /\ link' = "up" /\ peer' = init_request(peer) /\ unanswered' = {1}
               /\ UNCHANGED <<status, pending, queued, waiters, why, callers, armed, timeouts>>)

\* The initialize result: initialized is sent, then waiters and queue go.
InitializeResult ==
  /\ up /\ 1 \in unanswered
  /\ Sends({}, /\ issue_request(initialized(resolve_out(peer, 1)), queued, queued)
               /\ status' = "ready" /\ waiters' = {} /\ queued' = <<>>
               /\ Return(waiters, "ok")
               /\ UNCHANGED <<why, ref, link, timeouts>>)

\* An error, or a version the client does not speak.
InitializeFailed ==
  /\ up /\ 1 \in unanswered
  /\ unanswered' = unanswered \ {1}
  /\ peer' = client_initialize_outcome(resolve_out(peer, 1), FALSE)
  /\ fail_all("closed")
  /\ UNCHANGED <<why, ref, link, timeouts>>

\* The transport process ends, perhaps with {:up, _} still in the mailbox.
TransportDies ==
  /\ link # "dead" /\ link' = "dead"
  /\ UNCHANGED <<client, callers, armed, timeouts, unanswered>>

\* {:down, _} or :EXIT: everyone is told, and the client stops.
HandleTransportDown ==
  /\ up /\ link = "dead"
  /\ fail_all("closed")
  /\ why' = "transport_down"
  /\ UNCHANGED <<peer, ref, link, timeouts, unanswered>>

\* notify, set_roots, the answer to a ping or to an undecodable message: a
\* message, and no change.
OtherMessage == up /\ link = "dead" /\ Stop("send_exit", {})

\* close/1.
Close == up /\ Stop("closed", {})

TimerFires(n) ==
  /\ up /\ n \in armed
  /\ armed' = armed \ {n} /\ timeouts' = timeouts \cup {n}
  /\ UNCHANGED <<client, callers, link, unanswered>>

-----------------------------------------------------------------------------
Next ==
  \/ \E c \in Calls : Request(c) \/ Async(c) \/ Await(c) \/ AwaitReady(c) \/ CallGone(c) \/ Cancel(c)
  \/ \E n \in Outs : Response(n) \/ TimerFires(n) \/ HandleTimeout(n)
  \/ TransportStartFails \/ TransportUp \/ InitializeResult \/ InitializeFailed \/ TransportDies
  \/ HandleTransportDown \/ OtherMessage \/ Close

Spec == Init /\ [][Next]_vars

\* Timers run and the client handles its mailbox.  Nothing is asked of the
\* server: it may leave any request unanswered.
Fairness ==
  /\ \A n \in Outs : WF_vars(TimerFires(n)) /\ WF_vars(HandleTimeout(n))
  /\ WF_vars(TransportUp) /\ WF_vars(HandleTransportDown)

FairSpec == Spec /\ Fairness

-----------------------------------------------------------------------------
(* Properties *)

\* The client's tables, its callers and the wire have their types.
TypeOK ==
  /\ peer \in PeerRecords({}, Outs \cup {1})
  /\ status \in {"connecting", "ready", "failed"}
  /\ pending \in [Outs -> Entries]
  /\ Queuers \subseteq Calls /\ waiters \subseteq Calls
  /\ why \in {"none", "closed", "start_failed", "transport_down", "send_exit"}
  /\ call \in [Calls -> {"idle", "ref", "calling", "done"}]
  /\ ref \in [Calls -> Outs \cup {0}] /\ reply \in [Calls -> Replies]
  /\ link \in {"starting", "up", "dead"}
  /\ armed \subseteq Outs /\ timeouts \subseteq Outs /\ unanswered \subseteq Outs \cup {1}

\* A caller blocked in the client is known to it in exactly one place: one
\* entry, the queue or the list of await_ready; and the client never keeps a
\* caller that has already been replied to.  GenServer.call waits without a
\* limit, so a caller lost here would never return.
CallsAccounted ==
  up => /\ {c \in Calls : call[c] = "calling"} = Attached \cup Queuers \cup waiters
        /\ Attached \cap Queuers = {} /\ (Attached \cup Queuers) \cap waiters = {}
        /\ Cardinality(Queuers) = Len(queued)
        /\ \A m, n \in Outs : pending[m].from = pending[n].from /\ m # n
                                => pending[m].from = Nobody

\* The entries without a result are the requests the peer waits for, and the
\* caller of a timed one is covered by a timer that runs or has fired.
EntriesAgree ==
  up => /\ {n \in Outs : pending[n].st = "open"} = peer.pending_out \ {1}
        /\ \A n \in Outs : pending[n].from \in Calls \ Untimed => n \in armed \cup timeouts

\* Whatever ends an async/4 request, its outcome is there for a late await/3:
\* it "must see the timeout, not :unknown_request" (client.ex).
AwaitFindsOutcome == \A c \in Calls : reply[c] # "unknown_request"

\* Once the handshake is over, a call made with a timeout returns, although
\* the server may never answer.
CallsReturn ==
  \A c \in Calls \ Untimed :
    (call[c] = "calling" /\ status # "connecting") ~> call[c] = "done"

\* A call made with a timeout returns, also when it is queued behind the
\* handshake ("auto-cancel the request on expiry", client.ex).
QueuedCallsReturn ==
  \A c \in Calls \ Untimed : c \in Queuers ~> call[c] = "done"

\* A result held "for await/3" (client.ex) stays until it is awaited, as long
\* as the client runs.
HeldResultKept ==
  [][\A n \in Outs : pending[n] = Held("result") /\ up'
                    => pending'[n] \in {NoEntry, Held("result")}]_vars
=============================================================================
