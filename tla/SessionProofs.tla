---------------------------- MODULE SessionProofs ----------------------------
(***************************************************************************)
(* The safety of a session for every set of requests and every number of   *)
(* requests of its own.  The three tables of Session's properties are not  *)
(* inductive by themselves: SessionInv adds what ties the peer's           *)
(* cancelled_in to the cancelled requests, the killed tasks to those, and  *)
(* the ids not yet issued to calls nobody has been answered for.           *)
(***************************************************************************)
EXTENDS Session, TLAPS

\* A cancelled request is in the peer's cancelled_in and nowhere else; only
\* tasks of cancelled requests are killed.
Cancelled ==
  /\ peer.cancelled_in = silenced /\ silenced \cap peer.pending_in = {}
  /\ killed \subseteq silenced

\* The requests of the session are those it has issued.
Issued ==
  /\ peer.pending_out \subseteq 1 .. peer.next_id - 1
  /\ \A n \in Outs : n >= peer.next_id => replies[n] = 0

SessionInv == TypeOK /\ RequestsAccounted /\ EntriesLive /\ AsksAccounted /\ Cancelled /\ Issued

\* The session starts with empty tables (init/1 of session.ex).
LEMMA SessionInitInv == Init => SessionInv
BY SessionAssumption
   DEF Init, SessionInv, TypeOK, RequestsAccounted, EntriesLive, AsksAccounted, Cancelled, Issued,
       new, PeerRecords, Phases, Outs, Count, up

\* What a task does by itself leaves the request tables alone and keeps every
\* entry accountable: it returns, crashes or is killed.
LEMMA TaskStepInv ==
  ASSUME SessionInv, NEW id \in Ids, TaskReturns(id) \/ TaskCrashes(id) \/ TaskKilled(id)
  PROVE  SessionInv'
<1> USE DEF session, mailbox, history
<1>1. CASE TaskReturns(id)
  <2>1. TypeOK'
    BY <1>1 DEF SessionInv, TypeOK, TaskReturns
  <2>2. RequestsAccounted' /\ Cancelled' /\ Issued'
    BY <1>1 DEF SessionInv, TypeOK, RequestsAccounted, Cancelled, Issued, TaskReturns
  <2>3. EntriesLive'
    BY <1>1 DEF SessionInv, TypeOK, EntriesLive, TaskReturns, up
  <2>4. AsksAccounted'
    BY <1>1 DEF SessionInv, TypeOK, AsksAccounted, TaskReturns, up
  <2> QED BY <2>1, <2>2, <2>3, <2>4 DEF SessionInv
<1>2. CASE TaskCrashes(id)
  <2>1. TypeOK'
    BY <1>2 DEF SessionInv, TypeOK, TaskCrashes
  <2>2. RequestsAccounted' /\ Cancelled' /\ Issued'
    BY <1>2 DEF SessionInv, TypeOK, RequestsAccounted, Cancelled, Issued, TaskCrashes
  <2>3. EntriesLive'
    BY <1>2 DEF SessionInv, TypeOK, EntriesLive, TaskCrashes, up
  <2>4. AsksAccounted'
    BY <1>2 DEF SessionInv, TypeOK, AsksAccounted, TaskCrashes, up
  <2> QED BY <2>1, <2>2, <2>3, <2>4 DEF SessionInv
<1>3. CASE TaskKilled(id)
  <2>1. TypeOK'
    BY <1>3 DEF SessionInv, TypeOK, TaskKilled
  <2>2. RequestsAccounted' /\ Cancelled' /\ Issued'
    BY <1>3 DEF SessionInv, TypeOK, RequestsAccounted, Cancelled, Issued, TaskKilled
  <2>3. EntriesLive'
    BY <1>3 DEF SessionInv, TypeOK, EntriesLive, Cancelled, TaskKilled, up
  <2>4. AsksAccounted'
    BY <1>3 DEF SessionInv, TypeOK, AsksAccounted, TaskKilled, up
  <2> QED BY <2>1, <2>2, <2>3, <2>4 DEF SessionInv
<1> QED BY <1>1, <1>2, <1>3

\* Timers, the idle message and the end of the session touch no table.
LEMMA TimerStepInv ==
  ASSUME SessionInv, (\E n \in Outs : TimerFires(n)) \/ IdleFires \/ HandleIdle \/ Terminate
  PROVE  SessionInv'
<1> USE DEF session, procs, mailbox, history
<1>1. ASSUME NEW n \in Outs, TimerFires(n) PROVE SessionInv'
  <2>1. TypeOK' /\ RequestsAccounted' /\ Cancelled' /\ Issued'
    BY <1>1 DEF SessionInv, TypeOK, RequestsAccounted, Cancelled, Issued, TimerFires
  <2>2. EntriesLive' /\ AsksAccounted'
    BY <1>1 DEF SessionInv, TypeOK, EntriesLive, AsksAccounted, TimerFires, up
  <2> QED BY <2>1, <2>2 DEF SessionInv
<1>2. CASE IdleFires \/ HandleIdle \/ Terminate
  <2>1. TypeOK' /\ RequestsAccounted' /\ Cancelled' /\ Issued'
    BY <1>2 DEF SessionInv, TypeOK, RequestsAccounted, Cancelled, Issued, IdleFires, HandleIdle,
                Terminate
  <2>2. EntriesLive' /\ AsksAccounted'
    BY <1>2, Zenon DEF SessionInv, TypeOK, EntriesLive, AsksAccounted, IdleFires, HandleIdle, Terminate, up
  <2> QED BY <2>1, <2>2 DEF SessionInv
<1> QED BY <1>1, <1>2

\* A task's server_request issues the next id with its timer.
LEMMA ServerRequestInv ==
  ASSUME SessionInv, NEW id \in Ids, server_request(id)
  PROVE  SessionInv'
<1> USE DEF session, procs, mailbox, history
<1> DEFINE n == peer.next_id
<1>1. /\ n \in Outs /\ peer' \in PeerRecords(Ids, Outs) /\ peer'.next_id = n + 1
      /\ peer'.pending_out = peer.pending_out \cup {n} /\ peer'.pending_in = peer.pending_in
      /\ peer'.cancelled_in = peer.cancelled_in /\ n \in 1 .. MaxOut /\ n + 1 \in 1 .. MaxOut + 1
  <2>1. n \in 1 .. MaxOut /\ n + 1 \in 1 .. MaxOut + 1 /\ n \in Outs /\ n + 1 \in Nat
    BY SessionAssumption DEF SessionInv, TypeOK, server_request, Outs
  <2>2. peer' = [peer EXCEPT !.next_id = n + 1, !.pending_out = @ \cup {n}]
    BY DEF server_request, request
  <2> QED BY <2>1, <2>2, Zenon DEF SessionInv, TypeOK, PeerRecords
<1>2. ask' \in [1 .. n -> Ids] /\ ask'[n] = id /\ \A m \in 1 .. n - 1 : ask'[m] = ask[m]
  <2>1. DOMAIN ask = 1 .. n - 1 /\ (1 .. n - 1) \cup {n} = 1 .. n /\ n \in Nat
    BY <1>1 DEF SessionInv, TypeOK
  <2> QED BY <2>1 DEF SessionInv, TypeOK, server_request
<1>3. TypeOK'
  <2>1. 1 .. peer'.next_id - 1 = 1 .. n
    BY <1>1
  <2> QED BY <1>1, <1>2, <2>1, SMTT(30) DEF SessionInv, TypeOK, server_request
<1>4. RequestsAccounted' /\ Cancelled' /\ Issued'
  BY <1>1 DEF SessionInv, TypeOK, RequestsAccounted, Cancelled, Issued, server_request, Outs
<1>5. EntriesLive'
  BY <1>1 DEF SessionInv, TypeOK, EntriesLive, server_request, up
<1>6. AsksAccounted'
  <2>1. peer'.pending_out = out_timers' /\ (up' => out_timers' \subseteq armed' \cup timeouts')
    BY <1>1 DEF SessionInv, AsksAccounted, server_request, up
  <2>2. ASSUME NEW m \in 1 .. peer'.next_id - 1
        PROVE  replies'[m] = Count(m \notin peer'.pending_out)
    BY <1>1, <2>2 DEF SessionInv, TypeOK, AsksAccounted, Issued, server_request, Count
  <2>3. ASSUME NEW j \in Ids, proc'[j] = "asking"
        PROVE  \E m \in peer'.pending_out : ask'[m] = j
    <3>1. CASE j = id
      BY <1>1, <1>2, <3>1
    <3>2. CASE j # id
      <4>1. PICK m \in peer.pending_out : ask[m] = j
        BY <2>3, <3>2 DEF SessionInv, TypeOK, AsksAccounted, server_request
      <4> QED BY <1>1, <1>2, <4>1 DEF SessionInv, Issued
    <3> QED BY <3>1, <3>2
  <2> QED BY <2>1, <2>2, <2>3 DEF AsksAccounted
<1> QED BY <1>3, <1>4, <1>5, <1>6 DEF SessionInv

\* The result or the :DOWN of a task answers its request and takes it out of
\* the three tables; without a reference it changes nothing.
LEMMA HandlerEndInv ==
  ASSUME SessionInv, NEW id \in Ids, HandleResult(id) \/ HandleDown(id)
  PROVE  SessionInv'
<1> USE DEF procs
<1>0. peer \in PeerRecords(Ids, Outs)
  BY DEF SessionInv, TypeOK
<1>1. CASE id \in refs
  <2>1. id \in peer.pending_in /\ id \notin peer.cancelled_in
    BY <1>1 DEF SessionInv, EntriesLive, Cancelled
  <2>2. peer' = finish_inbound(peer, id) /\ refs' = refs \ {id} /\ tasks' = tasks \ {id}
    BY <1>1 DEF HandleResult, HandleDown
  <2>3. /\ peer' \in PeerRecords(Ids, Outs) /\ peer'.next_id = peer.next_id
        /\ peer'.pending_out = peer.pending_out /\ peer'.pending_in = peer.pending_in \ {id}
        /\ peer'.cancelled_in = peer.cancelled_in
    <3>1. finish_inbound(peer, id) \in PeerRecords(Ids, Outs)
      BY <1>0 DEF finish_inbound, PeerRecords
    <3> QED BY <1>0, <2>1, <2>2, <3>1 DEF finish_inbound, PeerRecords
  <2>4. answered' = [answered EXCEPT ![id] = @ + 1]
    BY <1>1, <2>1 DEF HandleResult, HandleDown, Answered, responds
  <2>5. TypeOK'
    BY <2>2, <2>3, <2>4 DEF SessionInv, TypeOK, HandleResult, HandleDown
  <2>6. RequestsAccounted' /\ Cancelled' /\ Issued'
    BY <2>1, <2>3, <2>4 DEF SessionInv, TypeOK, RequestsAccounted, Cancelled, Issued, HandleResult,
                            HandleDown, Count
  <2>7. EntriesLive' /\ AsksAccounted'
    BY <2>2, <2>3 DEF SessionInv, TypeOK, EntriesLive, AsksAccounted, HandleResult, HandleDown, up
  <2> QED BY <2>5, <2>6, <2>7 DEF SessionInv
<1>2. CASE id \notin refs
  <2>1. UNCHANGED <<refs, tasks, peer, answered>>
    BY <1>2 DEF HandleResult, HandleDown
  <2>2. TypeOK' /\ RequestsAccounted' /\ Cancelled' /\ Issued'
    BY <2>1 DEF SessionInv, TypeOK, RequestsAccounted, Cancelled, Issued, HandleResult, HandleDown
  <2>3. EntriesLive' /\ AsksAccounted'
    BY <1>2, <2>1, Zenon DEF SessionInv, TypeOK, EntriesLive, AsksAccounted, HandleResult, HandleDown, up
  <2> QED BY <2>2, <2>3 DEF SessionInv
<1> QED BY <1>1, <1>2

\* The timeout and the response of a request of the session: whichever comes
\* first replies, the other finds nothing.
LEMMA AskEndInv ==
  ASSUME SessionInv, NEW n \in Outs, HandleTimeout(n) \/ DeliverResponse(n)
  PROVE  SessionInv'
<1>0. peer \in PeerRecords(Ids, Outs) /\ peer.pending_out = out_timers
  BY DEF SessionInv, TypeOK, AsksAccounted
<1>1. CASE n \in peer.pending_out
  <2>1. /\ out_timers' = out_timers \ {n} /\ Reply(n)
        /\ peer' = [peer EXCEPT !.pending_out = @ \ {n}]
    BY <1>0, <1>1 DEF HandleTimeout, DeliverResponse, resolves, cancel_out, resolve_out
  <2>2. /\ peer' \in PeerRecords(Ids, Outs) /\ peer'.next_id = peer.next_id
        /\ peer'.pending_out = peer.pending_out \ {n} /\ peer'.pending_in = peer.pending_in
        /\ peer'.cancelled_in = peer.cancelled_in
    BY <1>0, <2>1 DEF PeerRecords
  <2>3. n \in 1 .. peer.next_id - 1 /\ ask[n] \in Ids /\ replies[n] = 0
    BY <1>1 DEF SessionInv, TypeOK, AsksAccounted, Issued, Count
  <2>4. /\ replies' = [replies EXCEPT ![n] = 1]
        /\ proc' \in [Ids -> {"none", "running", "asking", "dead"}]
        /\ \A id \in Ids : /\ proc'[id] = proc[id] \/ (proc[id] = "asking" /\ proc'[id] = "running")
                           /\ proc'[id] = "asking" => id # ask[n]
    BY <2>1, <2>3 DEF Reply, SessionInv, TypeOK
  <2>5. TypeOK'
    BY <2>1, <2>2, <2>4 DEF SessionInv, TypeOK, HandleTimeout, DeliverResponse, rearm_idle_timer
  <2>6. RequestsAccounted' /\ Cancelled' /\ Issued'
    BY <2>2, <2>3, <2>4 DEF SessionInv, TypeOK, RequestsAccounted, Cancelled, Issued, HandleTimeout,
                            DeliverResponse
  <2>7. EntriesLive'
    <3>1. UNCHANGED <<tasks, refs, killed, results, downs, reason>>
      BY DEF HandleTimeout, DeliverResponse
    <3>2. /\ tasks \subseteq Ids /\ peer.pending_in = tasks /\ tasks = refs
          /\ up => \A id \in tasks : \/ proc[id] \in {"running", "asking"} /\ id \notin killed
                                     \/ id \in results \cup downs
      BY DEF SessionInv, TypeOK, EntriesLive
    <3>3. \A id \in Ids : proc[id] \in {"running", "asking"} => proc'[id] \in {"running", "asking"}
      BY <2>4
    <3> QED BY <2>2, <3>1, <3>2, <3>3 DEF EntriesLive, up
  <2>8. AsksAccounted'
    <3>1. peer'.pending_out = out_timers'
      BY <1>0, <2>1, <2>2
    <3>2. \A m \in 1 .. peer'.next_id - 1 : replies'[m] = Count(m \notin peer'.pending_out)
      BY <2>2, <2>3, <2>4 DEF SessionInv, TypeOK, AsksAccounted, Count
    <3>3. up' => out_timers' \subseteq armed' \cup timeouts'
      BY <2>1 DEF SessionInv, AsksAccounted, HandleTimeout, DeliverResponse, up
    <3>4. ASSUME NEW id \in Ids, proc'[id] = "asking"
          PROVE  \E m \in peer'.pending_out : ask'[m] = id
      <4>0. ask' = ask
        BY DEF HandleTimeout, DeliverResponse
      <4>1. proc[id] = "asking" /\ id # ask[n]
        BY <2>4, <3>4
      <4>2. PICK m \in peer.pending_out : ask[m] = id
        BY <4>1 DEF SessionInv, AsksAccounted
      <4> QED BY <2>2, <4>0, <4>1, <4>2
    <3> QED BY <3>1, <3>2, <3>3, <3>4 DEF AsksAccounted
  <2> QED BY <2>5, <2>6, <2>7, <2>8 DEF SessionInv
<1>2. CASE n \notin peer.pending_out
  <2>1. UNCHANGED <<peer, out_timers, proc, replies>>
    BY <1>0, <1>2 DEF HandleTimeout, DeliverResponse, resolves
  <2>2. TypeOK' /\ RequestsAccounted' /\ Cancelled' /\ Issued'
    BY <2>1 DEF SessionInv, TypeOK, RequestsAccounted, Cancelled, Issued, HandleTimeout,
                DeliverResponse, rearm_idle_timer
  <2>3. EntriesLive' /\ AsksAccounted'
    BY <1>0, <1>2, <2>1, Zenon DEF SessionInv, TypeOK, EntriesLive, AsksAccounted, HandleTimeout,
                            DeliverResponse, resolves, up
  <2> QED BY <2>2, <2>3 DEF SessionInv
<1> QED BY <1>1, <1>2

\* The handshake and everything that is answered at once moves the phase only.
LEMMA HandshakeInv ==
  ASSUME SessionInv, Deliver \/ DeliverInitialized
  PROVE  SessionInv'
<1> USE DEF procs, mailbox, history
<1>1. /\ peer' \in PeerRecords(Ids, Outs) /\ peer'.next_id = peer.next_id
      /\ peer'.pending_out = peer.pending_out /\ peer'.pending_in = peer.pending_in
      /\ peer'.cancelled_in = peer.cancelled_in
  <2>1. peer' = peer \/ \E x \in Phases : peer' = [peer EXCEPT !.phase = x]
    BY DEF Deliver, DeliverInitialized, ingest_initialize, ingest_initialized, Phases
  <2> QED BY <2>1, Zenon DEF SessionInv, TypeOK, PeerRecords
<1>2. reason' \in {"none", "init_failed"} /\ reason = "none"
  BY DEF Deliver, DeliverInitialized, up
<1>3. TypeOK'
  BY <1>1, <1>2 DEF SessionInv, TypeOK, Deliver, DeliverInitialized, rearm_idle_timer
<1>4. RequestsAccounted' /\ Cancelled' /\ Issued'
  BY <1>1 DEF SessionInv, RequestsAccounted, Cancelled, Issued, Deliver, DeliverInitialized
<1>5. EntriesLive' /\ AsksAccounted'
  BY <1>1, <1>2 DEF SessionInv, EntriesLive, AsksAccounted, Deliver, DeliverInitialized, up
<1> QED BY <1>3, <1>4, <1>5 DEF SessionInv

\* A request is refused or answered at once, or enters the three tables.
LEMMA RequestInv ==
  ASSUME SessionInv, NEW id \in Ids, RefuseRequest(id) \/ AnswerRequest(id) \/ spawn_task(id)
  PROVE  SessionInv'
<1> USE DEF session, procs, mailbox, Asks
<1>0. peer \in PeerRecords(Ids, Outs) /\ asked \in [Ids -> Nat] /\ answered \in [Ids -> Nat]
  BY DEF SessionInv, TypeOK
<1>1. CASE RefuseRequest(id)
  <2>1. TypeOK'
    BY <1>1, SMTT(30) DEF SessionInv, TypeOK, RefuseRequest, rearm_idle_timer
  <2>2. RequestsAccounted' /\ Cancelled' /\ Issued'
    BY <1>1 DEF SessionInv, TypeOK, RequestsAccounted, Cancelled, Issued, RefuseRequest, Count
  <2>3. EntriesLive' /\ AsksAccounted'
    BY <1>1, SMTT(30) DEF SessionInv, TypeOK, EntriesLive, AsksAccounted, RefuseRequest, up
  <2> QED BY <2>1, <2>2, <2>3 DEF SessionInv
<1>2. ASSUME AnswerRequest(id) \/ spawn_task(id)
      PROVE  /\ peer.phase = "ready" /\ id \notin peer.pending_in /\ asked[id] = 0
             /\ answered[id] = 0 /\ id \notin silenced
             /\ id \notin peer.cancelled_in /\ id \notin killed
             /\ ingest_request(peer, id) = [peer EXCEPT !.pending_in = @ \cup {id}]
  <2>1. peer.phase = "ready" /\ id \notin peer.pending_in /\ asked[id] = 0
    BY <1>2 DEF AnswerRequest, spawn_task, dispatches
  <2>2. answered[id] = 0 /\ id \notin silenced
    BY <1>0, <2>1 DEF SessionInv, RequestsAccounted, Count
  <2> QED BY <2>1, <2>2 DEF SessionInv, Cancelled, ingest_request, dispatches
<1>3. CASE AnswerRequest(id)
  <2> DEFINE q == ingest_request(peer, id)
  <2>1. q.cancelled_in = peer.cancelled_in /\ q.pending_in = peer.pending_in \cup {id}
    BY <1>0, <1>2, <1>3 DEF PeerRecords
  <2>2. peer' = [q EXCEPT !.pending_in = @ \ {id}] /\ answered' = [answered EXCEPT ![id] = @ + 1]
    <3> HIDE DEF q
    <3>1. id \notin q.cancelled_in /\ id \in q.pending_in
      BY <1>2, <1>3, <2>1
    <3> USE DEF q
    <3> QED BY <1>3, <3>1 DEF AnswerRequest, finish_inbound, responds
  <2>3. peer' = peer
    BY <1>0, <1>2, <1>3, <2>2 DEF PeerRecords
  <2>a. /\ answered' = [answered EXCEPT ![id] = @ + 1]
        /\ asked' = [asked EXCEPT ![id] = @ + 1] /\ rearm_idle_timer
        /\ UNCHANGED <<tasks, refs, out_timers, reason, procs, mailbox, asks, silenced, replies>>
    BY <1>3, <2>2, Zenon DEF AnswerRequest
  <2>4. TypeOK'
    BY <2>3, <2>a DEF SessionInv, TypeOK, rearm_idle_timer
  <2>5. RequestsAccounted' /\ Cancelled' /\ Issued'
    BY <2>3, <2>a DEF SessionInv, TypeOK, RequestsAccounted, Cancelled, Issued, Count
  <2>6. EntriesLive' /\ AsksAccounted'
    BY <1>3, <2>3 DEF SessionInv, TypeOK, EntriesLive, AsksAccounted, AnswerRequest, up
  <2> QED BY <2>4, <2>5, <2>6 DEF SessionInv
<1>4. CASE spawn_task(id)
  <2>1. /\ peer' \in PeerRecords(Ids, Outs) /\ peer'.next_id = peer.next_id
        /\ peer'.pending_out = peer.pending_out /\ peer'.pending_in = peer.pending_in \cup {id}
        /\ peer'.cancelled_in = peer.cancelled_in
    <3>1. peer' = [peer EXCEPT !.pending_in = @ \cup {id}]
      BY <1>2, <1>4 DEF spawn_task
    <3> QED BY <1>0, <3>1 DEF PeerRecords
  <2>2. TypeOK'
    BY <1>4, <2>1, SMTT(30) DEF SessionInv, TypeOK, spawn_task, rearm_idle_timer
  <2>3. RequestsAccounted' /\ Cancelled' /\ Issued'
    BY <1>2, <1>4, <2>1 DEF SessionInv, TypeOK, RequestsAccounted, Cancelled, Issued, spawn_task,
                            Count
  <2>4. EntriesLive' /\ AsksAccounted'
    BY <1>2, <1>4, <2>1 DEF SessionInv, TypeOK, EntriesLive, AsksAccounted, spawn_task, up
  <2> QED BY <2>2, <2>3, <2>4 DEF SessionInv
<1> QED BY <1>1, <1>3, <1>4

\* A cancellation takes the request out of the three tables for good.
LEMMA CancelInv ==
  ASSUME SessionInv, NEW id \in Ids, cancel_in(id)
  PROVE  SessionInv'
<1>0. peer \in PeerRecords(Ids, Outs) /\ tasks = peer.pending_in
  BY DEF SessionInv, TypeOK, EntriesLive
<1>1. CASE id \in peer.pending_in
  <2>1. /\ peer' \in PeerRecords(Ids, Outs) /\ peer'.next_id = peer.next_id
        /\ peer'.pending_out = peer.pending_out /\ peer'.pending_in = peer.pending_in \ {id}
        /\ peer'.cancelled_in = peer.cancelled_in \cup {id}
    <3>1. peer' = [peer EXCEPT !.pending_in = @ \ {id}, !.cancelled_in = @ \cup {id}]
      BY <1>1 DEF cancel_in, ingest_cancelled
    <3> QED BY <1>0, <3>1, Zenon DEF PeerRecords
  <2>2. /\ silenced' = silenced \cup {id} /\ tasks' = tasks \ {id} /\ refs' = refs \ {id}
        /\ downs' = downs \ {id} /\ killed' = killed \cup {id}
    BY <1>0, <1>1 DEF cancel_in
  <2>3. TypeOK'
    BY <2>1, <2>2 DEF SessionInv, TypeOK, cancel_in, rearm_idle_timer
  <2>4. RequestsAccounted' /\ Cancelled' /\ Issued'
    BY <1>1, <2>1, <2>2 DEF SessionInv, TypeOK, RequestsAccounted, Cancelled, Issued, cancel_in, Count
  <2>5. EntriesLive' /\ AsksAccounted'
    BY <2>1, <2>2 DEF SessionInv, TypeOK, EntriesLive, AsksAccounted, cancel_in, up
  <2> QED BY <2>3, <2>4, <2>5 DEF SessionInv
<1>2. CASE id \notin peer.pending_in
  <2>1. UNCHANGED <<peer, silenced, tasks, refs, downs, killed>>
    BY <1>2 DEF cancel_in, ingest_cancelled
  <2>2. TypeOK' /\ RequestsAccounted' /\ Cancelled' /\ Issued'
    BY <2>1 DEF SessionInv, TypeOK, RequestsAccounted, Cancelled, Issued, cancel_in, rearm_idle_timer
  <2>3. EntriesLive' /\ AsksAccounted'
    BY <2>1 DEF SessionInv, TypeOK, EntriesLive, AsksAccounted, cancel_in, up
  <2> QED BY <2>2, <2>3 DEF SessionInv
<1> QED BY <1>1, <1>2

\* A session answers every request exactly once or, once cancelled, never;
\* its request, task and monitor tables agree and each entry will be settled;
\* each server_request is replied to once and has a timer until then.
THEOREM SessionSafe ==
  Spec => [](TypeOK /\ RequestsAccounted /\ EntriesLive /\ AsksAccounted)
<1>1. Init => SessionInv
  BY SessionInitInv
<1>2. SessionInv /\ [Next]_vars => SessionInv'
  <2> SUFFICES ASSUME SessionInv, [Next]_vars PROVE SessionInv'
    OBVIOUS
  <2>1. ASSUME NEW id \in Ids, Tasks(id) PROVE SessionInv'
    BY <2>1, TaskStepInv, ServerRequestInv DEF Tasks
  <2>2. CASE (\E n \in Outs : TimerFires(n)) \/ IdleFires \/ HandleIdle \/ Terminate
    BY <2>2, TimerStepInv
  <2>3. CASE Handlers
    BY <2>2, <2>3, HandlerEndInv, AskEndInv DEF Handlers
  <2>4. CASE Deliveries
    BY <2>4, HandshakeInv, RequestInv, CancelInv, AskEndInv DEF Deliveries
  <2>5. CASE UNCHANGED vars
    BY <2>5 DEF SessionInv, TypeOK, RequestsAccounted, EntriesLive, AsksAccounted, Cancelled,
                Issued, up, vars, session, procs, mailbox, history
  <2> QED BY <2>1, <2>2, <2>3, <2>4, <2>5 DEF Next
<1>3. SessionInv => TypeOK /\ RequestsAccounted /\ EntriesLive /\ AsksAccounted
  BY DEF SessionInv
<1> QED BY <1>1, <1>2, <1>3, PTL DEF Spec

\* Each entry of the session's tables belongs to a task that will settle it, and
\* the three tables agree (handle_info of session.ex).
COROLLARY EntriesSafe == Spec => []EntriesLive
BY SessionSafe, PTL

\* Each server_request is replied to once and has a timer until then.
COROLLARY AsksSafe == Spec => []AsksAccounted
BY SessionSafe, PTL

=============================================================================
