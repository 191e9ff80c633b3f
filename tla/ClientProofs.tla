----------------------------- MODULE ClientProofs -----------------------------
(***************************************************************************)
(* The safety of the client (Client.tla) for every set of calls: no        *)
(* blocked caller is lost or kept twice, the entries agree with the peer   *)
(* and the timers, and an await always finds the outcome of its request.   *)
(* What the invariant adds to these three, while the process runs:         *)
(*   Counted    every id was issued to a call of its own that is no longer *)
(*              idle, so ids never run past the calls;                     *)
(*   Handshake  while the client connects nothing is issued, and callers   *)
(*              wait in the queue or in the list of await_ready; after     *)
(*              that only entries hold callers;                            *)
(*   Table      an entry with a caller is open, and none lies ahead of the *)
(*              next id;                                                   *)
(*   Refs       references are distinct, one not awaited yet has an entry  *)
(*              without a caller, an open one of a timed call a timer.     *)
(***************************************************************************)
EXTENDS Client, FiniteSetTheorems, TLAPS

Idle == {c \in Calls : call[c] = "idle"}

Issued == IF peer.next_id = 1 THEN 0 ELSE peer.next_id - 2

Counted == Issued + Len(queued) + Cardinality(Idle) <= Cardinality(Calls)

Connecting ==
  /\ peer.next_id \in {1, 2} /\ unanswered \subseteq {1} /\ armed = {} /\ timeouts = {}
  /\ \A c \in Calls : ref[c] = 0
  /\ 1 \in unanswered => peer.phase # "handshake"
  /\ \A c \in Calls : call[c] = "calling" <=> (c \in Queuers \/ c \in waiters)
  /\ Queuers \cap waiters = {}
  /\ \A i, j \in 1 .. Len(queued) : queued[i] = queued[j] => i = j
  /\ Cardinality(Queuers) = Len(queued)

Connected ==
  /\ peer.phase # "handshake" /\ queued = <<>> /\ waiters = {} /\ 1 \notin unanswered
  /\ \A c \in Calls : call[c] = "calling" <=> \E n \in Outs : pending[n].from = c
  /\ \A m, n \in Outs : pending[m].from = pending[n].from /\ m # n => pending[m].from = Nobody

Handshake ==
  /\ peer.phase = "handshake" <=> peer.next_id = 1
  /\ peer.next_id # 0
  /\ IF status = "connecting" THEN Connecting ELSE Connected

Table ==
  \A n \in Outs :
    /\ pending[n].st # "open" => pending[n].from = Nobody
    /\ n >= peer.next_id => pending[n] = NoEntry
    /\ pending[n].st = "open" <=> n \in peer.pending_out
    /\ pending[n].from \in Calls \ Untimed => n \in armed \cup timeouts

Refs ==
  \A c \in Calls :
    /\ ref[c] < peer.next_id
    /\ call[c] = "ref" => /\ ref[c] # 0 /\ pending[ref[c]].st # "none"
                          /\ pending[ref[c]].from = Nobody
    /\ c \notin Untimed /\ ref[c] # 0 /\ pending[ref[c]].st = "open"
         => ref[c] \in armed \cup timeouts
    /\ \A d \in Calls : ref[c] = ref[d] /\ ref[c] # 0 => c = d

Running == Counted /\ Handshake /\ Table /\ Refs

ClientInv == TypeOK /\ queued \in Seq(Calls) /\ AwaitFindsOutcome /\ (up => Running)

-----------------------------------------------------------------------------
(* Counting, and what a reply changes *)

\* The calls are counted by a natural number, and so are the idle ones.
LEMMA Counts ==
  /\ IsFiniteSet(Calls) /\ Cardinality(Calls) \in Nat
  /\ IsFiniteSet(Idle) /\ Cardinality(Idle) \in Nat
<1>1. IsFiniteSet(Calls) /\ Cardinality(Calls) \in Nat
  BY FS_CardinalityType, ClientAssumption
<1>2. Idle \subseteq Calls
  BY DEF Idle
<1>3. IsFiniteSet(Idle)
  BY <1>1, <1>2, FS_Subset
<1> QED
  BY <1>1, <1>3, FS_CardinalityType

\* No call becomes idle again: the count of idle ones does not grow.
LEMMA IdleShrinks ==
  ASSUME \A c \in Calls : call'[c] = "idle" => call[c] = "idle"
  PROVE  Cardinality(Idle') \in Nat /\ Cardinality(Idle') <= Cardinality(Idle)
<1>1. Idle' \subseteq Idle
  BY DEF Idle
<1>2. IsFiniteSet(Idle)
  BY Counts
<1>3. IsFiniteSet(Idle') /\ Cardinality(Idle') <= Cardinality(Idle)
  BY <1>1, <1>2, FS_Subset
<1> QED
  BY <1>3, FS_CardinalityType

\* A call that is made leaves one idle call fewer.
LEMMA IdleLoses ==
  ASSUME NEW c \in Calls, call[c] = "idle", call'[c] # "idle",
         \A d \in Calls : d # c => call'[d] = call[d]
  PROVE  Cardinality(Idle') \in Nat /\ Cardinality(Idle') + 1 = Cardinality(Idle)
<1>1. Idle' = Idle \ {c} /\ c \in Idle
  BY DEF Idle
<1>2. IsFiniteSet(Idle) /\ Cardinality(Idle) \in Nat
  BY Counts
<1>3. Cardinality(Idle \ {c}) = Cardinality(Idle) - 1 /\ IsFiniteSet(Idle \ {c})
  BY <1>1, <1>2, FS_RemoveElement
<1>4. Cardinality(Idle \ {c}) \in Nat
  BY <1>3, FS_CardinalityType
<1> QED
  BY <1>1, <1>2, <1>3, <1>4

\* GenServer.reply to the callers in cs: they are done and nobody else moves.
LEMMA Returned ==
  ASSUME TypeOK, AwaitFindsOutcome, NEW cs,
         NEW r \in Replies \ {"unknown_request"}, Return(cs, r)
  PROVE  /\ call' \in [Calls -> {"idle", "ref", "calling", "done"}]
         /\ reply' \in [Calls -> Replies]
         /\ AwaitFindsOutcome'
         /\ \A c \in Calls : call'[c] = IF c \in cs THEN "done" ELSE call[c]
<1>1. call \in [Calls -> {"idle", "ref", "calling", "done"}] /\ reply \in [Calls -> Replies]
  BY DEF TypeOK
<1> QED
  BY <1>1 DEF Return, AwaitFindsOutcome

\* The end of the process, with an exit for everyone inside a call.
LEMMA StopInv ==
  ASSUME ClientInv, NEW w \in {"closed", "start_failed", "transport_down", "send_exit"},
         NEW cs, Stop(w, cs)
  PROVE  ClientInv'
<1>1. "exit" \in Replies \ {"unknown_request"}
  BY DEF Replies, Outcomes
<1>2. Return(cs \cup {c \in Calls : call[c] = "calling"}, "exit")
  BY DEF Stop
<1>3. TypeOK /\ AwaitFindsOutcome /\ queued \in Seq(Calls)
  BY DEF ClientInv
<1>4. /\ call' \in [Calls -> {"idle", "ref", "calling", "done"}]
      /\ reply' \in [Calls -> Replies] /\ AwaitFindsOutcome'
  BY <1>1, <1>2, <1>3, Returned
<1>5. why' = w /\ ~up'
  BY DEF Stop, up
<1>6. TypeOK' /\ queued' \in Seq(Calls)
  BY <1>3, <1>4, <1>5 DEF TypeOK, Stop, around, Queuers
<1> QED
  BY <1>4, <1>5, <1>6 DEF ClientInv

-----------------------------------------------------------------------------
(* The ends of a request *)

\* An entry exists only once the handshake is over.
LEMMA EntryConnected ==
  ASSUME ClientInv, up, NEW n \in Outs, pending[n] # NoEntry
  PROVE  status # "connecting" /\ Connected
<1>1. Handshake /\ Table /\ Counted
  BY DEF ClientInv, Running
<1>2. ~(n >= peer.next_id)
  BY <1>1 DEF Table
<1>3. n \in Nat /\ n >= 2 /\ peer.next_id \in Nat
  BY Counts DEF Outs, ClientInv, TypeOK, PeerRecords
<1>4. status = "connecting" => peer.next_id \in {1, 2}
  BY <1>1 DEF Handshake, Connecting
<1>5. status # "connecting"
  BY <1>2, <1>3, <1>4
<1> QED
  BY <1>1, <1>5 DEF Handshake

\* Response, timeout and cancellation alike: the peer forgets request n, and
\* its outcome is handed to the caller or held.
LEMMA SettleInv ==
  ASSUME ClientInv, up, NEW n \in Outs, NEW r \in Outcomes, pending[n].st # "none",
         peer' = [peer EXCEPT !.pending_out = @ \ {n}],
         pending' = [pending EXCEPT ![n] = Settled(@, r)],
         ReturnFrom(pending[n], r),
         armed' \subseteq Outs, timeouts' \subseteq Outs,
         \A m \in Outs : m # n /\ m \in armed \cup timeouts => m \in armed' \cup timeouts',
         unanswered' \subseteq unanswered,
         UNCHANGED <<status, queued, waiters, why, ref, link>>
  PROVE  ClientInv'
<1> DEFINE cs == {pending[n].from} \ {Nobody}
<1>1. TypeOK /\ queued \in Seq(Calls) /\ AwaitFindsOutcome /\ Counted /\ Handshake /\ Table /\ Refs
  BY DEF ClientInv, Running
<1>2. r \in Replies \ {"unknown_request"} /\ r \in Outcomes \cup {"none"}
  BY DEF Replies, Outcomes
<1>3. Return(cs, r)
  BY DEF ReturnFrom
<1>4. /\ call' \in [Calls -> {"idle", "ref", "calling", "done"}]
      /\ reply' \in [Calls -> Replies] /\ AwaitFindsOutcome'
      /\ \A c \in Calls : call'[c] = IF c \in cs THEN "done" ELSE call[c]
  <2> HIDE DEF cs
  <2> QED BY <1>1, <1>2, <1>3, Returned
<1>5. /\ peer \in PeerRecords({}, Outs \cup {1}) /\ pending \in [Outs -> Entries]
      /\ peer.next_id \in Nat /\ peer.pending_out \subseteq Outs \cup {1}
  BY <1>1 DEF TypeOK, PeerRecords
<1>6. /\ peer' \in PeerRecords({}, Outs \cup {1}) /\ peer'.next_id = peer.next_id
      /\ peer'.phase = peer.phase /\ peer'.pending_out = peer.pending_out \ {n}
  BY <1>5 DEF PeerRecords
<1>7. pending[n] \in Entries /\ Settled(pending[n], r) \in Entries
  BY <1>2, <1>5 DEF Settled, Held, NoEntry, Entries
<1>8. /\ pending' \in [Outs -> Entries] /\ pending'[n] = Settled(pending[n], r)
      /\ \A m \in Outs : m # n => pending'[m] = pending[m]
  BY <1>5, <1>7
<1>9. /\ Settled(pending[n], r).from = Nobody /\ Settled(pending[n], r).st # "open"
      /\ pending[n].from = Nobody => Settled(pending[n], r).st # "none"
  BY DEF Settled, Held, NoEntry
<1>10. TypeOK' /\ queued' \in Seq(Calls)
  BY <1>1, <1>4, <1>6, <1>8 DEF TypeOK, Queuers
<1>11. pending[n] # NoEntry
  BY DEF NoEntry
<1>12. status # "connecting" /\ Connected
  BY <1>11, EntryConnected
<1>13. n < peer.next_id
  BY <1>1, <1>5, <1>11, Counts DEF Table, Outs
<1>14. Counted'
  <2>1. Cardinality(Idle') \in Nat /\ Cardinality(Idle') <= Cardinality(Idle)
    BY <1>4, IdleShrinks
  <2>2. Issued' = Issued /\ Issued \in Int /\ Len(queued') = Len(queued) /\ Len(queued) \in Nat
    BY <1>1, <1>5, <1>6 DEF Issued
  <2> QED
    BY <1>1, <2>1, <2>2, Counts DEF Counted
<1>15. Handshake'
  <2>1. \A c \in Calls : call'[c] = "calling" <=> \E m \in Outs : pending'[m].from = c
    <3> SUFFICES ASSUME NEW c \in Calls
                 PROVE  call'[c] = "calling" <=> \E m \in Outs : pending'[m].from = c
      OBVIOUS
    <3>1. call[c] = "calling" <=> \E m \in Outs : pending[m].from = c
      BY <1>12 DEF Connected
    <3>2. c # Nobody
      BY ClientAssumption
    <3>3. CASE c = pending[n].from
      <4>1. \A m \in Outs : pending'[m].from # c
        BY <1>8, <1>9, <1>12, <3>2, <3>3 DEF Connected
      <4> QED BY <1>4, <3>2, <3>3, <4>1
    <3>4. CASE c # pending[n].from
      BY <1>4, <1>8, <1>9, <3>1, <3>2, <3>4
    <3> QED BY <3>3, <3>4
  <2>2. \A m, k \in Outs : pending'[m].from = pending'[k].from /\ m # k
                            => pending'[m].from = Nobody
    BY <1>8, <1>9, <1>12 DEF Connected
  <2>3. Connected'
    BY <1>6, <1>12, <2>1, <2>2 DEF Connected
  <2> QED
    BY <1>1, <1>6, <1>12, <2>3 DEF Handshake
<1>16. Table'
  <2> SUFFICES ASSUME NEW m \in Outs
               PROVE  /\ pending'[m].st # "open" => pending'[m].from = Nobody
                      /\ m >= peer'.next_id => pending'[m] = NoEntry
                      /\ pending'[m].st = "open" <=> m \in peer'.pending_out
                      /\ pending'[m].from \in Calls \ Untimed => m \in armed' \cup timeouts'
    BY DEF Table
  <2>1. CASE m = n
    BY <1>5, <1>6, <1>8, <1>9, <1>13, <2>1, ClientAssumption DEF Outs
  <2>2. CASE m # n
    BY <1>1, <1>6, <1>8, <2>2 DEF Table
  <2> QED BY <2>1, <2>2
<1>17. Refs'
  <2> SUFFICES ASSUME NEW c \in Calls
               PROVE  /\ ref[c] < peer'.next_id
                      /\ call'[c] = "ref" => /\ ref[c] # 0 /\ pending'[ref[c]].st # "none"
                                             /\ pending'[ref[c]].from = Nobody
                      /\ c \notin Untimed /\ ref[c] # 0 /\ pending'[ref[c]].st = "open"
                           => ref[c] \in armed' \cup timeouts'
                      /\ \A d \in Calls : ref[c] = ref[d] /\ ref[c] # 0 => c = d
    BY DEF Refs
  <2>1. ref[c] \in Outs \cup {0}
    BY <1>1 DEF TypeOK
  <2>2. call'[c] = "ref" => call[c] = "ref"
    BY <1>4
  <2>3. CASE ref[c] = n
    BY <1>1, <1>6, <1>8, <1>9, <2>2, <2>3 DEF Refs
  <2>4. CASE ref[c] # n
    BY <1>1, <1>6, <1>8, <2>1, <2>2, <2>4 DEF Refs
  <2> QED BY <2>3, <2>4
<1> QED
  BY <1>4, <1>10, <1>14, <1>15, <1>16, <1>17 DEF ClientInv, Running

-----------------------------------------------------------------------------
(* A request is issued *)

\* The fields of the client's peer.
LEMMA PeerFields ==
  ASSUME TypeOK
  PROVE  /\ peer.phase \in Phases /\ peer.next_id \in Nat
         /\ peer.pending_out \in SUBSET (Outs \cup {1})
         /\ peer.pending_in \in SUBSET {} /\ peer.cancelled_in \in SUBSET {}
         /\ peer = [phase |-> peer.phase, next_id |-> peer.next_id,
                    pending_out |-> peer.pending_out, pending_in |-> peer.pending_in,
                    cancelled_in |-> peer.cancelled_in]
BY DEF TypeOK, PeerRecords

\* A ready client issues the request of an idle call: with its caller attached
\* (request/4), or with a reference for a later await (async/4).
LEMMA IssueInv ==
  ASSUME ClientInv, up, status = "ready", NEW c \in Calls, call[c] = "idle",
         NEW from \in {c, Nobody}, issue_request(peer, <<c>>, <<from>>),
         call' = [call EXCEPT ![c] = IF from = c THEN "calling" ELSE "ref"],
         ref' = IF from = c THEN ref ELSE [ref EXCEPT ![c] = peer.next_id],
         UNCHANGED <<status, queued, waiters, why, reply, link, timeouts>>
  PROVE  ClientInv'
<1> DEFINE n == peer.next_id
<1>1. TypeOK /\ queued \in Seq(Calls) /\ AwaitFindsOutcome /\ Counted /\ Handshake /\ Table /\ Refs
  BY DEF ClientInv, Running
<1>2. /\ peer \in PeerRecords({}, Outs \cup {1}) /\ pending \in [Outs -> Entries]
      /\ n \in Nat /\ peer.pending_out \subseteq Outs \cup {1}
      /\ call \in [Calls -> {"idle", "ref", "calling", "done"}]
      /\ ref \in [Calls -> Outs \cup {0}]
  BY <1>1 DEF TypeOK, PeerRecords
<1>3. Connected /\ n >= 2 /\ queued = <<>>
  BY <1>1, <1>2 DEF Handshake, Connected
<1>4. /\ call' \in [Calls -> {"idle", "ref", "calling", "done"}]
      /\ call'[c] = IF from = c THEN "calling" ELSE "ref"
      /\ \A d \in Calls : d # c => call'[d] = call[d]
  BY <1>2
<1>5. Cardinality(Idle') \in Nat /\ Cardinality(Idle') + 1 = Cardinality(Idle)
  BY <1>4, IdleLoses
<1>6. n - 2 + 1 <= Cardinality(Calls) /\ n - 2 + Cardinality(Idle) <= Cardinality(Calls)
  BY <1>1, <1>2, <1>3, <1>5, Counts DEF Counted, Issued
<1>7. n \in Outs
  BY <1>2, <1>3, <1>6, Counts DEF Outs
<1>8. n .. n + Len(<<c>>) - 1 = {n} /\ Len(<<c>>) = 1
  BY <1>2
<1>9. peer' = [peer EXCEPT !.next_id = @ + 1, !.pending_out = @ \cup {n}]
  BY <1>8, Zenon DEF issue_request
<1>10. /\ peer' \in PeerRecords({}, Outs \cup {1}) /\ peer'.next_id = n + 1
       /\ peer'.phase = peer.phase /\ peer'.pending_out = peer.pending_out \cup {n}
  <2>1. {n} \in SUBSET (Outs \cup {1})
    BY <1>7
  <2>2. peer' = [phase |-> peer.phase, next_id |-> n + 1,
                 pending_out |-> peer.pending_out \cup {n}, pending_in |-> peer.pending_in,
                 cancelled_in |-> peer.cancelled_in]
    BY <1>1, <1>9, PeerFields, Zenon
  <2>3. /\ peer.phase \in Phases /\ n + 1 \in Nat
        /\ peer.pending_out \cup {n} \in SUBSET (Outs \cup {1})
    BY <1>1, <2>1, PeerFields
  <2>4. peer.pending_in \in SUBSET {} /\ peer.cancelled_in \in SUBSET {}
    BY <1>1, PeerFields
  <2> QED BY <2>2, <2>3, <2>4 DEF PeerRecords
<1>11. pending' = [m \in Outs |-> IF m \in {n} THEN Open(<<from>>[m - n + 1]) ELSE pending[m]]
  BY <1>8 DEF issue_request
<1>12. pending'[n] = Open(from) /\ \A m \in Outs : m # n => pending'[m] = pending[m]
  BY <1>2, <1>7, <1>11
<1>13. Open(from) \in Entries /\ Open(from).st = "open" /\ Open(from).from = from
  BY DEF Open, Entries
<1>14. pending' \in [Outs -> Entries]
  BY <1>2, <1>11, <1>12, <1>13
<1>15. /\ armed' \subseteq Outs /\ armed \subseteq armed' /\ (c \notin Untimed => n \in armed')
       /\ unanswered' = (unanswered \cup {n}) \ {1}
  <2>1. armed' = armed \cup {m \in {n} : <<c>>[m - n + 1] \notin Untimed}
    BY <1>8 DEF issue_request
  <2>2. <<c>>[n - n + 1] = c
    BY <1>2
  <2>3. unanswered' = (unanswered \cup {n}) \ {1}
    BY <1>8 DEF issue_request
  <2> QED BY <1>1, <1>7, <2>1, <2>2, <2>3 DEF TypeOK
<1>16. /\ ref' \in [Calls -> Outs \cup {0}] /\ \A d \in Calls : d # c => ref'[d] = ref[d]
       /\ ref'[c] = IF from = c THEN ref[c] ELSE n
  BY <1>2, <1>7
<1>17. TypeOK' /\ queued' \in Seq(Calls) /\ AwaitFindsOutcome'
  BY <1>1, <1>4, <1>7, <1>10, <1>14, <1>15, <1>16 DEF TypeOK, Queuers, AwaitFindsOutcome
<1>18. Counted'
  BY <1>2, <1>3, <1>5, <1>6, <1>10, Counts, SMTT(30) DEF Counted, Issued
<1>19. c # Nobody /\ \A m \in Outs : pending[m].from # c
  BY <1>3, ClientAssumption DEF Connected
<1>20. pending[n] = NoEntry
  BY <1>1, <1>2, <1>7 DEF Table
<1>21. Handshake'
  <2>1. \A d \in Calls : call'[d] = "calling" <=> \E m \in Outs : pending'[m].from = d
    <3> SUFFICES ASSUME NEW d \in Calls
                 PROVE  call'[d] = "calling" <=> \E m \in Outs : pending'[m].from = d
      OBVIOUS
    <3>1. CASE d = c
      BY <1>4, <1>7, <1>12, <1>13, <1>19, <3>1
    <3>2. CASE d # c
      <4>1. d # Nobody /\ pending[n].from = Nobody /\ pending'[n].from # d
        BY <1>12, <1>13, <1>20, <3>2, ClientAssumption DEF NoEntry
      <4> QED BY <1>3, <1>4, <1>12, <3>2, <4>1 DEF Connected
    <3> QED BY <3>1, <3>2
  <2>2. \A m, k \in Outs : pending'[m].from = pending'[k].from /\ m # k
                            => pending'[m].from = Nobody
    BY <1>3, <1>12, <1>13, <1>19 DEF Connected
  <2>3. Connected'
    BY <1>3, <1>10, <1>15, <2>1, <2>2 DEF Connected
  <2> QED
    BY <1>1, <1>2, <1>3, <1>10, <2>3 DEF Handshake, Connected
<1>22. Table'
  <2> SUFFICES ASSUME NEW m \in Outs
               PROVE  /\ pending'[m].st # "open" => pending'[m].from = Nobody
                      /\ m >= peer'.next_id => pending'[m] = NoEntry
                      /\ pending'[m].st = "open" <=> m \in peer'.pending_out
                      /\ pending'[m].from \in Calls \ Untimed => m \in armed' \cup timeouts'
    BY DEF Table
  <2>1. CASE m = n
    BY <1>2, <1>10, <1>12, <1>13, <1>15, <2>1, ClientAssumption
  <2>2. CASE m # n
    <3>1. m \in Nat
      BY Counts DEF Outs
    <3> QED BY <1>1, <1>2, <1>10, <1>12, <1>15, <2>2, <3>1 DEF Table
  <2> QED BY <2>1, <2>2
<1>23. Refs'
  <2> SUFFICES ASSUME NEW d \in Calls
               PROVE  /\ ref'[d] < peer'.next_id
                      /\ call'[d] = "ref" => /\ ref'[d] # 0 /\ pending'[ref'[d]].st # "none"
                                             /\ pending'[ref'[d]].from = Nobody
                      /\ d \notin Untimed /\ ref'[d] # 0 /\ pending'[ref'[d]].st = "open"
                           => ref'[d] \in armed' \cup timeouts'
                      /\ \A e \in Calls : ref'[d] = ref'[e] /\ ref'[d] # 0 => d = e
    BY DEF Refs
  <2>1. \A e \in Calls : ref[e] < n /\ ref[e] \in Nat /\ ref[e] \in Outs \cup {0}
    BY <1>1, <1>2, Counts DEF Refs, Outs
  <2>2. \A e \in Calls : ref'[e] = ref[e] \/ (e = c /\ ref'[e] = n /\ from = Nobody)
    BY <1>16
  <2>3. \A e \in Calls : ref'[d] = ref'[e] /\ ref'[d] # 0 => d = e
    BY <1>1, <1>2, <2>1, <2>2 DEF Refs
  <2>4. CASE ref'[d] = n
    BY <1>2, <1>3, <1>10, <1>12, <1>13, <1>15, <2>1, <2>2, <2>3, <2>4
  <2>5. CASE ref'[d] # n
    <3>1. ref'[d] = ref[d] /\ ref[d] < n + 1
      BY <1>2, <2>1, <2>2, <2>5
    <3>2. call'[d] = "ref" => call[d] = "ref"
      BY <1>4, <1>16, <2>5
    <3> QED BY <1>1, <1>10, <1>12, <1>15, <2>1, <2>3, <2>5, <3>1, <3>2 DEF Refs
  <2> QED BY <2>4, <2>5
<1> QED
  BY <1>17, <1>18, <1>21, <1>22, <1>23 DEF ClientInv, Running

-----------------------------------------------------------------------------
(* The handshake *)

\* {:up, _}: initialize takes id 1, and nothing else changes hands.
LEMMA TransportUpInv ==
  ASSUME ClientInv, TransportUp
  PROVE  ClientInv'
<1>1. CASE link = "dead"
  BY <1>1, StopInv DEF TransportUp, Sends
<1>2. CASE link # "dead"
  <2>1. /\ TypeOK /\ queued \in Seq(Calls) /\ AwaitFindsOutcome
        /\ Counted /\ Handshake /\ Table /\ Refs
    BY DEF ClientInv, Running, TransportUp
  <2>2. /\ peer.phase = "handshake" /\ link' = "up" /\ unanswered' = {1}
        /\ peer' = init_request(peer)
        /\ UNCHANGED <<status, pending, queued, waiters, why, call, ref, reply, armed, timeouts>>
    BY <1>2 DEF TransportUp, Sends, callers
  <2>3. peer.next_id = 1 /\ status = "connecting" /\ Connecting
    BY <2>1, <2>2 DEF Handshake, Connected
  <2>4. request(peer) = [phase |-> peer.phase, next_id |-> peer.next_id + 1,
                         pending_out |-> peer.pending_out \cup {peer.next_id},
                         pending_in |-> peer.pending_in, cancelled_in |-> peer.cancelled_in]
    <3>1. request(peer) = [peer EXCEPT !.next_id = peer.next_id + 1,
                                       !.pending_out = peer.pending_out \cup {peer.next_id}]
      BY DEF request
    <3> QED BY <2>1, <3>1, PeerFields, Zenon
  <2>5. peer' = [phase |-> "initializing", next_id |-> 2,
                 pending_out |-> peer.pending_out \cup {1},
                 pending_in |-> peer.pending_in, cancelled_in |-> peer.cancelled_in]
    BY <2>2, <2>3, <2>4 DEF init_request
  <2>6. /\ peer' \in PeerRecords({}, Outs \cup {1}) /\ peer'.phase = "initializing"
        /\ peer'.next_id = 2 /\ peer'.pending_out = peer.pending_out \cup {1}
    BY <2>1, <2>5, PeerFields DEF PeerRecords, Phases
  <2>7. TypeOK' /\ queued' \in Seq(Calls) /\ AwaitFindsOutcome'
    BY <2>1, <2>2, <2>6 DEF TypeOK, Queuers, AwaitFindsOutcome
  <2>8. Counted'
    <3>1. Idle' = Idle
      BY <2>2 DEF Idle
    <3> QED BY <2>1, <2>2, <2>3, <2>6, <3>1 DEF Counted, Issued
  <2>9. Handshake'
    BY <2>2, <2>3, <2>6 DEF Handshake, Connecting, Queuers
  <2>10. Table'
    <3>1. \A n \in Outs : n \in Nat /\ n >= 2
      BY Counts DEF Outs
    <3> QED BY <2>1, <2>2, <2>3, <2>6, <3>1 DEF Table
  <2>11. Refs'
    BY <2>1, <2>2, <2>3, <2>6 DEF Refs, Connecting
  <2> QED
    BY <2>7, <2>8, <2>9, <2>10, <2>11 DEF ClientInv, Running
<1> QED
  BY <1>1, <1>2

\* While the initialize result is outstanding the client connects: it has
\* issued request 1 only, and its table is empty.
LEMMA Initializing ==
  ASSUME ClientInv, up, 1 \in unanswered
  PROVE  /\ status = "connecting" /\ Connecting /\ peer.next_id = 2
         /\ \A n \in Outs : pending[n] = NoEntry /\ n \notin peer.pending_out
         /\ Len(queued) \in Nat /\ Len(queued) + Cardinality(Idle) <= Cardinality(Calls)
<1>1. /\ TypeOK /\ queued \in Seq(Calls) /\ Counted /\ Handshake /\ Table
  BY DEF ClientInv, Running
<1>2. status = "connecting" /\ Connecting
  BY <1>1 DEF Handshake, Connected
<1>3. peer.next_id = 2
  BY <1>1, <1>2 DEF Handshake, Connecting
<1>4. \A n \in Outs : n \in Nat /\ n >= 2
  BY Counts DEF Outs
<1>5. \A n \in Outs : pending[n] = NoEntry /\ n \notin peer.pending_out
  BY <1>1, <1>3, <1>4 DEF Table, NoEntry
<1>6. Len(queued) \in Nat /\ Len(queued) + Cardinality(Idle) <= Cardinality(Calls)
  BY <1>1, <1>3, Counts DEF Counted, Issued
<1> QED
  BY <1>2, <1>3, <1>5, <1>6

\* The initialize result: the queue becomes entries 2, 3, ... in its order, and
\* the waiters return.
LEMMA InitializeResultInv ==
  ASSUME ClientInv, InitializeResult
  PROVE  ClientInv'
<1>1. CASE link = "dead"
  BY <1>1, StopInv DEF InitializeResult, Sends
<1>2. CASE link # "dead"
  <2> DEFINE L == Len(queued)
             new_ids == 2 .. L + 1
             p == initialized(resolve_out(peer, 1))
  <2>1. /\ TypeOK /\ queued \in Seq(Calls) /\ AwaitFindsOutcome
        /\ Counted /\ Handshake /\ Table /\ Refs /\ up /\ 1 \in unanswered
    BY DEF ClientInv, Running, InitializeResult
  <2>2. /\ status = "connecting" /\ Connecting /\ peer.next_id = 2
        /\ \A n \in Outs : pending[n] = NoEntry /\ n \notin peer.pending_out
        /\ L \in Nat /\ L + Cardinality(Idle) <= Cardinality(Calls)
    BY <2>1, Initializing
  <2>3. /\ issue_request(p, queued, queued) /\ Return(waiters, "ok")
        /\ status' = "ready" /\ waiters' = {} /\ queued' = <<>>
        /\ UNCHANGED <<why, ref, link, timeouts>>
    BY <1>2 DEF InitializeResult, Sends
  <2>4. p = [phase |-> "ready", next_id |-> peer.next_id, pending_out |-> peer.pending_out \ {1},
             pending_in |-> peer.pending_in, cancelled_in |-> peer.cancelled_in]
    <3>1. resolve_out(peer, 1) = [peer EXCEPT !.pending_out = peer.pending_out \ {1}]
      BY DEF resolve_out
    <3>2. resolve_out(peer, 1) = [phase |-> peer.phase, next_id |-> peer.next_id,
                                  pending_out |-> peer.pending_out \ {1},
                                  pending_in |-> peer.pending_in,
                                  cancelled_in |-> peer.cancelled_in]
      BY <2>1, <3>1, PeerFields
    <3> QED BY <3>2 DEF initialized
  <2>5. p.next_id = 2 /\ p.next_id .. p.next_id + Len(queued) - 1 = new_ids
    BY <2>2, <2>4
  <2>6. new_ids \subseteq Outs
    BY <2>2, Counts DEF Outs
  <2>7. /\ peer' \in PeerRecords({}, Outs \cup {1}) /\ peer'.phase = "ready"
        /\ peer'.next_id = 2 + L /\ peer'.pending_out = (peer.pending_out \ {1}) \cup new_ids
    <3>1. peer' = [p EXCEPT !.next_id = p.next_id + L, !.pending_out = p.pending_out \cup new_ids]
      <4> HIDE DEF p
      <4> QED BY <2>3, <2>5 DEF issue_request
    <3>2. peer' = [phase |-> "ready", next_id |-> 2 + L,
                   pending_out |-> (peer.pending_out \ {1}) \cup new_ids,
                   pending_in |-> peer.pending_in, cancelled_in |-> peer.cancelled_in]
      <4> HIDE DEF p
      <4> QED BY <2>2, <2>4, <3>1, Zenon
    <3>3. 2 + L \in Nat /\ (peer.pending_out \ {1}) \cup new_ids \in SUBSET (Outs \cup {1})
      BY <2>1, <2>2, <2>6, PeerFields
    <3>4. "ready" \in Phases /\ peer.pending_in \in SUBSET {} /\ peer.cancelled_in \in SUBSET {}
      BY <2>1, PeerFields DEF Phases
    <3> HIDE DEF new_ids, L
    <3> QED BY <3>2, <3>3, <3>4 DEF PeerRecords
  <2>8. pending' = [m \in Outs |-> IF m \in new_ids THEN Open(queued[m - 2 + 1]) ELSE pending[m]]
    <3> HIDE DEF p
    <3> QED BY <2>3, <2>5 DEF issue_request
  <2>9. \A m \in new_ids : m - 2 + 1 = m - 1 /\ m - 1 \in 1 .. L /\ queued[m - 1] \in Calls
    BY <2>1, <2>2
  <2>10. /\ \A m \in new_ids : pending'[m] = Open(queued[m - 1])
         /\ \A m \in Outs \ new_ids : pending'[m] = NoEntry
    BY <2>2, <2>6, <2>8, <2>9, Zenon
  <2>11. /\ armed' = {m \in new_ids : queued[m - 1] \notin Untimed}
         /\ unanswered' = new_ids
    <3>1. /\ armed' = armed \cup {m \in new_ids : queued[m - 2 + 1] \notin Untimed}
          /\ unanswered' = (unanswered \cup new_ids) \ {1}
      <4> HIDE DEF p
      <4> QED BY <2>3, <2>5 DEF issue_request
    <3>2. 1 \notin new_ids
      BY <2>2
    <3>3. armed' = {m \in new_ids : queued[m - 1] \notin Untimed}
      BY <2>2, <2>9, <3>1 DEF Connecting
    <3> QED BY <2>2, <3>1, <3>2, <3>3, Zenon DEF Connecting
  <2>12. \A c \in Calls : Open(c) \in Entries /\ Open(c).st = "open" /\ Open(c).from = c
    BY DEF Open, Entries
  <2>13. NoEntry \in Entries /\ NoEntry.st = "none" /\ NoEntry.from = Nobody
    BY DEF NoEntry, Entries
  <2>14. pending' \in [Outs -> Entries]
    <3>1. \A m \in Outs : pending'[m] \in Entries
      BY <2>9, <2>10, <2>12, <2>13
    <3> QED BY <2>8, <3>1
  <2>15. /\ call' \in [Calls -> {"idle", "ref", "calling", "done"}]
         /\ reply' \in [Calls -> Replies] /\ AwaitFindsOutcome'
         /\ \A c \in Calls : call'[c] = IF c \in waiters THEN "done" ELSE call[c]
    <3>1. "ok" \in Replies \ {"unknown_request"}
      BY DEF Replies, Outcomes
    <3> QED BY <2>1, <2>3, <3>1, Returned
  <2>16. queued' \in Seq(Calls) /\ Queuers' = {}
    BY <2>3 DEF Queuers
  <2>17. TypeOK'
    BY <2>1, <2>3, <2>6, <2>7, <2>11, <2>14, <2>15, <2>16 DEF TypeOK
  <2>18. Counted'
    <3>1. Cardinality(Idle') \in Nat /\ Cardinality(Idle') <= Cardinality(Idle)
      BY <2>15, IdleShrinks
    <3>2. Issued' = L /\ Len(queued') = 0
      BY <2>2, <2>3, <2>7 DEF Issued
    <3> QED BY <2>2, <3>1, <3>2, Counts DEF Counted
  <2>19. \A c \in Calls : c \in Queuers <=> \E m \in new_ids : queued[m - 1] = c
    <3>1. DOMAIN queued = 1 .. L
      BY <2>1
    <3>2. \A i \in 1 .. L : i + 1 \in new_ids /\ (i + 1) - 1 = i
      BY <2>2
    <3> QED BY <2>9, <3>1, <3>2, Zenon DEF Queuers
  <2>20. Connected'
    <3>1. \A c \in Calls : call'[c] = "calling" <=> \E m \in Outs : pending'[m].from = c
      <4> SUFFICES ASSUME NEW c \in Calls
                   PROVE  call'[c] = "calling" <=> \E m \in Outs : pending'[m].from = c
        OBVIOUS
      <4>1. call'[c] = "calling" <=> c \in Queuers
        BY <2>2, <2>15 DEF Connecting
      <4>2. c # Nobody
        BY ClientAssumption
      <4>3. (\E m \in Outs : pending'[m].from = c) <=> \E m \in new_ids : queued[m - 1] = c
        BY <2>6, <2>9, <2>10, <2>12, <2>13, <4>2, SMTT(30)
      <4> QED BY <2>19, <4>1, <4>3
    <3>2. \A m, k \in Outs : pending'[m].from = pending'[k].from /\ m # k
                              => pending'[m].from = Nobody
      <4> SUFFICES ASSUME NEW m \in Outs, NEW k \in Outs, pending'[m].from = pending'[k].from,
                          m # k, pending'[m].from # Nobody
                   PROVE  FALSE
        OBVIOUS
      <4>1. m \in new_ids /\ k \in new_ids
        BY <2>10, <2>13
      <4>2. queued[m - 1] = queued[k - 1]
        BY <2>9, <2>10, <2>12, <4>1
      <4>3. m - 1 = k - 1
        BY <2>2, <2>9, <4>1, <4>2 DEF Connecting
      <4> QED BY <4>1, <4>3
    <3> QED BY <2>2, <2>3, <2>7, <2>11, <3>1, <3>2 DEF Connected
  <2>21. Handshake'
    BY <2>2, <2>3, <2>7, <2>20 DEF Handshake
  <2>22. Table'
    <3> SUFFICES ASSUME NEW m \in Outs
                 PROVE  /\ pending'[m].st # "open" => pending'[m].from = Nobody
                        /\ m >= peer'.next_id => pending'[m] = NoEntry
                        /\ pending'[m].st = "open" <=> m \in peer'.pending_out
                        /\ pending'[m].from \in Calls \ Untimed => m \in armed' \cup timeouts'
      BY DEF Table
    <3>1. CASE m \in new_ids
      <4>1. ~(m >= 2 + L)
        BY <2>2, <3>1
      <4> HIDE DEF new_ids
      <4> QED BY <2>7, <2>9, <2>10, <2>11, <2>12, <3>1, <4>1
    <3>2. CASE m \notin new_ids
      BY <2>2, <2>7, <2>10, <2>13, <3>2, ClientAssumption, SMTT(30)
    <3> QED BY <3>1, <3>2
  <2>23. Refs'
    BY <2>1, <2>2, <2>3, <2>7, <2>15 DEF Refs, Connecting
  <2> QED
    BY <2>15, <2>16, <2>17, <2>18, <2>21, <2>22, <2>23 DEF ClientInv, Running
<1> QED
  BY <1>1, <1>2

\* fail_all empties the queue and the waiters, whatever the entries hold.
LEMMA FailAll ==
  ASSUME ClientInv, fail_all("closed")
  PROVE  /\ pending' \in [Outs -> Entries]
         /\ \A n \in Outs : pending[n] = NoEntry => pending'[n] = NoEntry
         /\ armed' = {} /\ queued' = <<>> /\ waiters' = {} /\ status' = "failed"
         /\ queued' \in Seq(Calls) /\ Queuers' = {}
         /\ call' \in [Calls -> {"idle", "ref", "calling", "done"}]
         /\ reply' \in [Calls -> Replies] /\ AwaitFindsOutcome'
         /\ \A c \in Calls : call'[c] = IF c \in Attached \cup Queuers \cup waiters
                                        THEN "done" ELSE call[c]
<1>1. TypeOK /\ AwaitFindsOutcome
  BY DEF ClientInv
<1>2. NoEntry \in Entries /\ Held("closed") \in Entries /\ NoEntry.st = "none"
  BY DEF NoEntry, Held, Entries, Outcomes
<1>3. pending' = [n \in Outs |-> IF pending[n].st = "none" \/ pending[n].from # Nobody
                                 THEN NoEntry ELSE Held("closed")]
  BY DEF fail_all
<1>4. /\ pending' \in [Outs -> Entries]
      /\ \A n \in Outs : pending[n] = NoEntry => pending'[n] = NoEntry
  BY <1>2, <1>3
<1>5. "closed" \in Replies \ {"unknown_request"}
  BY DEF Replies, Outcomes
<1>6. Return(Attached \cup Queuers \cup waiters, "closed")
  BY DEF fail_all
<1>7. /\ call' \in [Calls -> {"idle", "ref", "calling", "done"}]
      /\ reply' \in [Calls -> Replies] /\ AwaitFindsOutcome'
      /\ \A c \in Calls : call'[c] = IF c \in Attached \cup Queuers \cup waiters
                                     THEN "done" ELSE call[c]
  BY <1>1, <1>5, <1>6, Returned
<1>8. queued' = <<>> /\ queued' \in Seq(Calls) /\ Queuers' = {}
  BY DEF fail_all, Queuers
<1> QED
  BY <1>4, <1>7, <1>8 DEF fail_all

\* A refused handshake: queue and waiters are told, and the client goes on
\* without entries.
LEMMA InitializeFailedInv ==
  ASSUME ClientInv, InitializeFailed
  PROVE  ClientInv'
<1>1. /\ TypeOK /\ Counted /\ Handshake /\ Table /\ Refs /\ up /\ 1 \in unanswered
      /\ fail_all("closed") /\ unanswered' = unanswered \ {1}
      /\ peer' = client_initialize_outcome(resolve_out(peer, 1), FALSE)
      /\ UNCHANGED <<why, ref, link, timeouts>>
  BY DEF ClientInv, Running, InitializeFailed
<1>2. /\ status = "connecting" /\ Connecting /\ peer.next_id = 2
      /\ \A n \in Outs : pending[n] = NoEntry /\ n \notin peer.pending_out
      /\ Len(queued) \in Nat /\ Len(queued) + Cardinality(Idle) <= Cardinality(Calls)
  BY <1>1, Initializing
<1>3. /\ pending' \in [Outs -> Entries]
      /\ \A n \in Outs : pending[n] = NoEntry => pending'[n] = NoEntry
      /\ armed' = {} /\ queued' = <<>> /\ waiters' = {} /\ status' = "failed"
      /\ queued' \in Seq(Calls) /\ Queuers' = {}
      /\ call' \in [Calls -> {"idle", "ref", "calling", "done"}]
      /\ reply' \in [Calls -> Replies] /\ AwaitFindsOutcome'
      /\ \A c \in Calls : call'[c] = IF c \in Attached \cup Queuers \cup waiters
                                     THEN "done" ELSE call[c]
  BY <1>1, FailAll
<1>4. /\ peer' \in PeerRecords({}, Outs \cup {1}) /\ peer'.phase = "closing"
      /\ peer'.next_id = 2 /\ peer'.pending_out = peer.pending_out \ {1}
  <2>1. resolve_out(peer, 1) = [peer EXCEPT !.pending_out = peer.pending_out \ {1}]
    BY DEF resolve_out
  <2>2. resolve_out(peer, 1) = [phase |-> peer.phase, next_id |-> peer.next_id,
                                pending_out |-> peer.pending_out \ {1},
                                pending_in |-> peer.pending_in,
                                cancelled_in |-> peer.cancelled_in]
    BY <1>1, <2>1, PeerFields
  <2>3. peer' = [phase |-> "closing", next_id |-> peer.next_id,
                 pending_out |-> peer.pending_out \ {1}, pending_in |-> peer.pending_in,
                 cancelled_in |-> peer.cancelled_in]
    BY <1>1, <2>2 DEF client_initialize_outcome
  <2>4. "closing" \in Phases /\ peer.pending_out \ {1} \in SUBSET (Outs \cup {1})
    BY <1>1, PeerFields DEF Phases
  <2>5. peer.next_id \in Nat /\ peer.pending_in \in SUBSET {} /\ peer.cancelled_in \in SUBSET {}
    BY <1>1, PeerFields
  <2> QED BY <1>2, <2>3, <2>4, <2>5 DEF PeerRecords
<1>5. TypeOK'
  BY <1>1, <1>3, <1>4, Zenon DEF TypeOK
<1>6. Counted'
  <2>1. Cardinality(Idle') \in Nat /\ Cardinality(Idle') <= Cardinality(Idle)
    BY <1>3, IdleShrinks
  <2>2. Issued' = 0 /\ Len(queued') = 0
    BY <1>3, <1>4 DEF Issued
  <2> QED BY <1>2, <2>1, <2>2, Counts DEF Counted
<1>7. \A n \in Outs : pending'[n] = NoEntry /\ pending'[n].st = "none" /\ pending'[n].from = Nobody
  BY <1>2, <1>3 DEF NoEntry
<1>8. Handshake'
  <2>1. \A c \in Calls : call'[c] # "calling"
    BY <1>2, <1>3 DEF Connecting
  <2>2. \A c \in Calls : c # Nobody
    BY ClientAssumption
  <2>3. Connected'
    BY <1>1, <1>3, <1>4, <1>7, <2>1, <2>2, Zenon DEF Connected
  <2> QED BY <1>3, <1>4, <2>3 DEF Handshake
<1>9. Table'
  BY <1>2, <1>4, <1>7, ClientAssumption DEF Table
<1>10. Refs'
  <2>1. \A c \in Calls : ref'[c] = 0 /\ call'[c] # "ref"
    BY <1>1, <1>2, <1>3 DEF Refs, Connecting
  <2> QED BY <1>4, <2>1, SMTT(30) DEF Refs
<1> QED
  BY <1>3, <1>5, <1>6, <1>8, <1>9, <1>10 DEF ClientInv, Running

\* The loss of the transport: everyone is told, and the process ends.
LEMMA TransportDownInv ==
  ASSUME ClientInv, HandleTransportDown
  PROVE  ClientInv'
<1>1. fail_all("closed") /\ why' = "transport_down"
  BY DEF HandleTransportDown
<1>2. /\ pending' \in [Outs -> Entries] /\ armed' = {} /\ waiters' = {} /\ status' = "failed"
      /\ queued' \in Seq(Calls) /\ Queuers' = {}
      /\ call' \in [Calls -> {"idle", "ref", "calling", "done"}]
      /\ reply' \in [Calls -> Replies] /\ AwaitFindsOutcome'
  BY <1>1, FailAll
<1>3. TypeOK'
  BY <1>1, <1>2 DEF TypeOK, ClientInv, HandleTransportDown
<1> QED
  BY <1>1, <1>2, <1>3 DEF ClientInv, up

-----------------------------------------------------------------------------
(* Calls that only wait or only return *)

\* A call is answered at once, with everything else as it was.
LEMMA AnswerInv ==
  ASSUME ClientInv, NEW c \in Calls, call[c] = "idle" \/ ~up,
         NEW r \in Replies \ {"unknown_request"}, Return({c}, r),
         UNCHANGED <<peer, status, pending, queued, waiters, why, ref,
                     link, armed, timeouts, unanswered>>
  PROVE  ClientInv'
<1>1. TypeOK /\ AwaitFindsOutcome /\ queued \in Seq(Calls)
  BY DEF ClientInv
<1>2. /\ call' \in [Calls -> {"idle", "ref", "calling", "done"}]
      /\ reply' \in [Calls -> Replies] /\ AwaitFindsOutcome'
      /\ \A d \in Calls : call'[d] = IF d \in {c} THEN "done" ELSE call[d]
  BY <1>1, Returned
<1>3. TypeOK' /\ queued' \in Seq(Calls)
  BY <1>1, <1>2 DEF TypeOK, Queuers
<1>4. ASSUME up' PROVE Running'
  <2>1. up /\ call[c] = "idle"
    BY <1>4 DEF up
  <2>2. Counted /\ Handshake /\ Table /\ Refs
    BY <2>1 DEF ClientInv, Running
  <2>3. \A d \in Calls : /\ call'[d] = "calling" <=> call[d] = "calling"
                         /\ call'[d] = "ref" <=> call[d] = "ref"
                         /\ call'[d] = "idle" => call[d] = "idle"
    BY <1>2, <2>1
  <2>4. Counted'
    <3>1. Cardinality(Idle') \in Nat /\ Cardinality(Idle') <= Cardinality(Idle)
      BY <2>3, IdleShrinks
    <3>2. Issued' = Issued /\ Issued \in Int /\ Len(queued') = Len(queued) /\ Len(queued) \in Nat
      BY <1>1, PeerFields, SMTT(30) DEF Issued
    <3> QED BY <2>2, <3>1, <3>2, Counts DEF Counted
  <2>5. Handshake'
    BY <2>2, <2>3, SMTT(30) DEF Handshake, Connecting, Connected, Queuers
  <2>6. Table' /\ Refs'
    BY <2>2, <2>3 DEF Table, Refs
  <2> QED BY <2>4, <2>5, <2>6 DEF Running
<1> QED
  BY <1>2, <1>3, <1>4 DEF ClientInv

\* A call made while the client connects waits, in the queue (request/4) or
\* in the list of await_ready/2, and in one of them only.
LEMMA WaitInv ==
  ASSUME ClientInv, up, status = "connecting", NEW c \in Calls, call[c] = "idle",
         call' = [call EXCEPT ![c] = "calling"],
         \/ queued' = Append(queued, c) /\ waiters' = waiters
         \/ queued' = queued /\ waiters' = waiters \cup {c},
         UNCHANGED <<peer, status, pending, why, ref, reply, link, armed, timeouts, unanswered>>
  PROVE  ClientInv'
<1>1. /\ TypeOK /\ queued \in Seq(Calls) /\ AwaitFindsOutcome
      /\ Counted /\ Handshake /\ Table /\ Refs
  BY DEF ClientInv, Running
<1>2. call \in [Calls -> {"idle", "ref", "calling", "done"}]
  BY <1>1 DEF TypeOK
<1>3. /\ call' \in [Calls -> {"idle", "ref", "calling", "done"}]
      /\ call'[c] = "calling" /\ \A d \in Calls : d # c => call'[d] = call[d]
  BY <1>2
<1>4. Connecting /\ c \notin Queuers /\ c \notin waiters
  BY <1>1 DEF Handshake, Connecting
<1>5. Len(queued) \in Nat /\ DOMAIN queued = 1 .. Len(queued)
  BY <1>1
<1>6. IsFiniteSet(Queuers)
  <2>1. Queuers \subseteq Calls
    BY <1>1 DEF TypeOK
  <2> QED BY <2>1, Counts, FS_Subset
<1>7. \/ /\ queued' \in Seq(Calls) /\ Queuers' = Queuers \cup {c} /\ waiters' = waiters
         /\ Len(queued') = Len(queued) + 1 /\ Cardinality(Queuers') = Len(queued')
         /\ \A i, j \in 1 .. Len(queued') : queued'[i] = queued'[j] => i = j
      \/ /\ queued' = queued /\ Queuers' = Queuers /\ waiters' = waiters \cup {c}
  <2>1. CASE queued' = Append(queued, c) /\ waiters' = waiters
    <3>1. /\ queued' \in Seq(Calls) /\ Len(queued') = Len(queued) + 1
          /\ DOMAIN queued' = 1 .. Len(queued) + 1
          /\ queued'[Len(queued) + 1] = c
          /\ \A i \in 1 .. Len(queued) : queued'[i] = queued[i]
      BY <1>1, <1>5, <2>1
    <3>2. Queuers' = Queuers \cup {c}
      <4>1. \A i \in 1 .. Len(queued) + 1 : i \in 1 .. Len(queued) \/ i = Len(queued) + 1
        BY <1>5
      <4>2. \A i \in 1 .. Len(queued) : i \in 1 .. Len(queued) + 1
        BY <1>5
      <4>3. Len(queued) + 1 \in 1 .. Len(queued) + 1
        BY <1>5
      <4> QED BY <1>5, <3>1, <4>1, <4>2, <4>3 DEF Queuers
    <3>3. Cardinality(Queuers \cup {c}) = Cardinality(Queuers) + 1
      BY <1>4, <1>6, FS_AddElement, Zenon
    <3>4. \A i, j \in 1 .. Len(queued') : queued'[i] = queued'[j] => i = j
      <4> SUFFICES ASSUME NEW i \in 1 .. Len(queued'), NEW j \in 1 .. Len(queued'),
                          queued'[i] = queued'[j]
                   PROVE  i = j
        OBVIOUS
      <4>1. \A k \in 1 .. Len(queued) : queued[k] # c
        BY <1>4, <1>5 DEF Queuers
      <4>2. /\ i \in 1 .. Len(queued) \/ i = Len(queued) + 1
            /\ j \in 1 .. Len(queued) \/ j = Len(queued) + 1
        BY <1>5, <3>1
      <4> QED BY <1>4, <3>1, <4>1, <4>2 DEF Connecting
    <3> QED BY <1>4, <2>1, <3>1, <3>2, <3>3, <3>4 DEF Connecting
  <2>2. CASE queued' = queued /\ waiters' = waiters \cup {c}
    BY <2>2 DEF Queuers
  <2> QED BY <2>1, <2>2
<1>8. TypeOK' /\ queued' \in Seq(Calls) /\ AwaitFindsOutcome'
  BY <1>1, <1>3, <1>7 DEF TypeOK, AwaitFindsOutcome
<1>9. Counted'
  <2>1. Cardinality(Idle') \in Nat /\ Cardinality(Idle') + 1 = Cardinality(Idle)
    BY <1>3, IdleLoses
  <2>2. Issued' = Issued /\ Issued \in Int
    BY <1>1, PeerFields DEF Issued
  <2>3. Len(queued') \in Nat /\ Len(queued') <= Len(queued) + 1
    BY <1>5, <1>7
  <2> QED BY <1>1, <1>5, <2>1, <2>2, <2>3, Counts DEF Counted
<1>10. Handshake'
  <2>1. \A d \in Calls : call'[d] = "calling" <=> (d \in Queuers' \/ d \in waiters')
    BY <1>3, <1>4, <1>7 DEF Connecting
  <2>2. (Queuers \cap waiters)' = {} /\ Cardinality(Queuers') = Len(queued')
    BY <1>4, <1>7 DEF Connecting
  <2>3. \A i, j \in 1 .. Len(queued') : queued'[i] = queued'[j] => i = j
    BY <1>4, <1>7 DEF Connecting
  <2>4. Connecting'
    BY <1>4, <2>1, <2>2, <2>3, SMTT(30) DEF Connecting
  <2> QED BY <1>1, <2>4 DEF Handshake
<1>11. Table' /\ Refs'
  BY <1>1, <1>3, SMTT(30) DEF Table, Refs
<1> QED
  BY <1>8, <1>9, <1>10, <1>11 DEF ClientInv, Running

\* await/3: the entry of the reference exists, so the caller is attached to it
\* or takes the outcome it holds.
LEMMA AwaitInv ==
  ASSUME ClientInv, NEW c \in Calls, Await(c)
  PROVE  ClientInv'
<1> DEFINE n == ref[c]
<1>1. /\ TypeOK /\ queued \in Seq(Calls) /\ AwaitFindsOutcome
      /\ Counted /\ Handshake /\ Table /\ Refs /\ up /\ call[c] = "ref"
  BY DEF ClientInv, Running, Await
<1>2. UNCHANGED <<peer, status, queued, waiters, why, ref, link, armed, timeouts, unanswered>>
  BY DEF Await, around
<1>3. /\ pending \in [Outs -> Entries] /\ peer.next_id \in Nat
      /\ call \in [Calls -> {"idle", "ref", "calling", "done"}]
      /\ ref \in [Calls -> Outs \cup {0}]
  BY <1>1, PeerFields DEF TypeOK
<1>4. n \in Outs /\ pending[n].st # "none" /\ pending[n].from = Nobody /\ n < peer.next_id
  BY <1>1, <1>3 DEF Refs
<1>5. status # "connecting" /\ Connected
  <2>1. pending[n] # NoEntry
    BY <1>4 DEF NoEntry
  <2> QED BY <1>1, <1>4, <2>1, EntryConnected
<1>6. c # Nobody /\ \A m \in Outs : pending[m].from # c
  BY <1>1, <1>5, ClientAssumption DEF Connected
<1>7. \A d \in Calls : d # c => ref[d] # n
  BY <1>1, <1>3, <1>4, SMTT(30) DEF Refs
<1>8. \E k \in {"calling", "done"}, f \in {c, Nobody} :
        /\ (k = "calling" <=> f = c)
        /\ call' \in [Calls -> {"idle", "ref", "calling", "done"}]
        /\ call'[c] = k /\ \A d \in Calls : d # c => call'[d] = call[d]
        /\ reply' \in [Calls -> Replies] /\ AwaitFindsOutcome'
        /\ pending' \in [Outs -> Entries] /\ pending'[n].from = f
        /\ pending'[n].st = "open" <=> pending[n].st = "open"
        /\ f = c => pending[n].st = "open"
        /\ \A m \in Outs : m # n => pending'[m] = pending[m]
  <2>1. CASE pending[n].st = "open"
    <3>1. /\ pending' = [pending EXCEPT ![n].from = c]
          /\ call' = [call EXCEPT ![c] = "calling"] /\ reply' = reply
      BY <2>1 DEF Await
    <3>2. pending[n] \in Entries
      BY <1>3, <1>4
    <3>3. /\ [pending[n] EXCEPT !.from = c] \in Entries
          /\ [pending[n] EXCEPT !.from = c].from = c
          /\ [pending[n] EXCEPT !.from = c].st = pending[n].st
      BY <3>2 DEF Entries
    <3>4. /\ pending'[n] = [pending[n] EXCEPT !.from = c] /\ pending' \in [Outs -> Entries]
          /\ \A m \in Outs : m # n => pending'[m] = pending[m]
      BY <1>3, <1>4, <3>1, <3>3
    <3>5. /\ call' \in [Calls -> {"idle", "ref", "calling", "done"}] /\ call'[c] = "calling"
          /\ \A d \in Calls : d # c => call'[d] = call[d]
      BY <1>3, <3>1
    <3>6. reply' \in [Calls -> Replies] /\ AwaitFindsOutcome'
      BY <1>1, <3>1, SMTT(30) DEF TypeOK, AwaitFindsOutcome
    <3> HIDE DEF n
    <3> QED BY <2>1, <3>3, <3>4, <3>5, <3>6
  <2>2. CASE pending[n].st # "open"
    <3>1. pending[n].st = "held" /\ pending[n].result \in Outcomes \cup {"none"}
      <4>1. pending[n] \in Entries
        BY <1>3, <1>4
      <4> QED BY <1>4, <2>2, <4>1 DEF Entries
    <3>2. /\ pending' = [pending EXCEPT ![n] = NoEntry] /\ Return({c}, pending[n].result)
      BY <2>2, <3>1 DEF Await
    <3>3. pending[n].result \in Replies \ {"unknown_request"}
      BY <3>1, SMTT(30) DEF Replies, Outcomes
    <3>4. /\ call' \in [Calls -> {"idle", "ref", "calling", "done"}]
          /\ reply' \in [Calls -> Replies] /\ AwaitFindsOutcome'
          /\ \A d \in Calls : call'[d] = IF d \in {c} THEN "done" ELSE call[d]
      BY <1>1, <3>2, <3>3, Returned
    <3>5. NoEntry \in Entries /\ NoEntry.from = Nobody /\ NoEntry.st = "none"
      BY DEF NoEntry, Entries
    <3>6. /\ pending' \in [Outs -> Entries] /\ pending'[n] = NoEntry
          /\ \A m \in Outs : m # n => pending'[m] = pending[m]
      BY <1>3, <1>4, <3>2, <3>5, SMTT(30)
    <3> HIDE DEF n
    <3> QED BY <1>6, <2>2, <3>4, <3>5, <3>6, SMTT(30)
  <2> QED BY <2>1, <2>2
<1>9. PICK k \in {"calling", "done"}, f \in {c, Nobody} :
        /\ (k = "calling" <=> f = c)
        /\ call' \in [Calls -> {"idle", "ref", "calling", "done"}]
        /\ call'[c] = k /\ \A d \in Calls : d # c => call'[d] = call[d]
        /\ reply' \in [Calls -> Replies] /\ AwaitFindsOutcome'
        /\ pending' \in [Outs -> Entries] /\ pending'[n].from = f
        /\ pending'[n].st = "open" <=> pending[n].st = "open"
        /\ f = c => pending[n].st = "open"
        /\ \A m \in Outs : m # n => pending'[m] = pending[m]
  <2> HIDE DEF n
  <2> QED BY <1>8, SMTT(30)
<1>10. TypeOK' /\ queued' \in Seq(Calls)
  BY <1>1, <1>2, <1>9 DEF TypeOK, Queuers
<1>11. Counted'
  <2>1. Cardinality(Idle') \in Nat /\ Cardinality(Idle') <= Cardinality(Idle)
    BY <1>1, <1>9, IdleShrinks
  <2>2. Issued' = Issued /\ Issued \in Int /\ Len(queued') = Len(queued) /\ Len(queued) \in Nat
    BY <1>1, <1>2, <1>3 DEF Issued
  <2> QED BY <1>1, <2>1, <2>2, Counts, SMTT(30) DEF Counted
<1>12. Handshake'
  <2>1. \A d \in Calls : call'[d] = "calling" <=> \E m \in Outs : pending'[m].from = d
    <3> SUFFICES ASSUME NEW d \in Calls
                 PROVE  call'[d] = "calling" <=> \E m \in Outs : pending'[m].from = d
      BY Zenon
    <3>1. CASE d = c
      BY <1>4, <1>6, <1>9, <3>1, SMTT(30)
    <3>2. CASE d # c
      <4>1. d # Nobody /\ (call[d] = "calling" <=> \E m \in Outs : pending[m].from = d)
        BY <1>5, ClientAssumption DEF Connected
      <4> QED BY <1>4, <1>9, <3>2, <4>1
    <3> QED BY <3>1, <3>2
  <2>2. \A m, j \in Outs : pending'[m].from = pending'[j].from /\ m # j
                            => pending'[m].from = Nobody
    BY <1>5, <1>6, <1>9, SMTT(30) DEF Connected
  <2>3. Connected'
    BY <1>2, <1>5, <2>1, <2>2, SMTT(30) DEF Connected
  <2> QED BY <1>1, <1>2, <1>5, <2>3 DEF Handshake
<1>13. Table'
  <2> SUFFICES ASSUME NEW m \in Outs
               PROVE  /\ pending'[m].st # "open" => pending'[m].from = Nobody
                      /\ m >= peer.next_id => pending'[m] = NoEntry
                      /\ pending'[m].st = "open" <=> m \in peer.pending_out
                      /\ pending'[m].from \in Calls \ Untimed => m \in armed \cup timeouts
    BY <1>2 DEF Table
  <2>1. CASE m = n
    <3>1. ~(n >= peer.next_id)
      BY <1>3, <1>4, Counts, SMTT(30) DEF Outs
    <3>2. c \notin Untimed /\ pending[n].st = "open" => n \in armed \cup timeouts
      BY <1>1, <1>4, Counts DEF Refs, Outs
    <3>3. pending[n].st = "open" <=> n \in peer.pending_out
      BY <1>1, <1>4, SMTT(30) DEF Table
    <3> HIDE DEF n
    <3> QED BY <1>9, <2>1, <3>1, <3>2, <3>3, ClientAssumption
  <2>2. CASE m # n
    BY <1>1, <1>9, <2>2, SMTT(30) DEF Table
  <2> QED BY <2>1, <2>2
<1>14. Refs'
  <2> SUFFICES ASSUME NEW d \in Calls
               PROVE  /\ ref[d] < peer.next_id
                      /\ call'[d] = "ref" => /\ ref[d] # 0 /\ pending'[ref[d]].st # "none"
                                             /\ pending'[ref[d]].from = Nobody
                      /\ d \notin Untimed /\ ref[d] # 0 /\ pending'[ref[d]].st = "open"
                           => ref[d] \in armed \cup timeouts
                      /\ \A e \in Calls : ref[d] = ref[e] /\ ref[d] # 0 => d = e
    BY <1>2, Zenon DEF Refs
  <2>1. CASE d = c
    <3>1. call'[d] # "ref" /\ (pending'[ref[d]].st = "open" <=> pending[ref[d]].st = "open")
      BY <1>9, <2>1
    <3> QED BY <1>1, <3>1 DEF Refs
  <2>2. CASE d # c
    <3>1. ref[d] # n /\ ref[d] \in Outs \cup {0} /\ call'[d] = call[d]
      BY <1>3, <1>7, <1>9, <2>2, SMTT(30)
    <3>2. ref[d] # 0 => pending'[ref[d]] = pending[ref[d]]
      BY <1>9, <3>1
    <3> QED BY <1>1, <3>1, <3>2 DEF Refs
  <2> QED BY <2>1, <2>2, SMTT(30)
<1> QED
  BY <1>9, <1>10, <1>11, <1>12, <1>13, <1>14 DEF ClientInv, Running

-----------------------------------------------------------------------------
(* Every step keeps the invariant *)

\* A timer fires: it was armed and its message is in the mailbox.
LEMMA TimerInv ==
  ASSUME ClientInv, NEW n \in Outs, TimerFires(n)
  PROVE  ClientInv'
<1>1. /\ TypeOK /\ queued \in Seq(Calls) /\ AwaitFindsOutcome
      /\ Counted /\ Handshake /\ Table /\ Refs /\ up /\ n \in armed
  BY DEF ClientInv, Running, TimerFires
<1>2. /\ armed' = armed \ {n} /\ timeouts' = timeouts \cup {n}
      /\ UNCHANGED <<peer, status, pending, queued, waiters, why, call, ref, reply, link, unanswered>>
  BY DEF TimerFires, client, callers
<1>3. (armed \cup timeouts)' = armed \cup timeouts
  BY <1>1, <1>2
<1>4. status # "connecting" /\ Connected
  BY <1>1, SMTT(30) DEF Handshake, Connecting
<1>5. TypeOK' /\ queued' \in Seq(Calls) /\ AwaitFindsOutcome'
  BY <1>1, <1>2 DEF TypeOK, Queuers, AwaitFindsOutcome
<1>6. Counted'
  BY <1>1, <1>2, SMTT(30) DEF Counted, Issued, Idle
<1>7. Handshake'
  BY <1>1, <1>2, <1>4, SMTT(30) DEF Handshake, Connected
<1>8. Table' /\ Refs'
  BY <1>1, <1>2, <1>3 DEF Table, Refs
<1> QED
  BY <1>5, <1>6, <1>7, <1>8 DEF ClientInv, Running

\* The calls of a client that runs or is gone.
LEMMA CallInv ==
  ASSUME ClientInv, NEW c \in Calls,
         Request(c) \/ Async(c) \/ AwaitReady(c) \/ CallGone(c)
  PROVE  ClientInv'
<1>1. {"failed", "not_ready", "ok", "exit"} \subseteq Replies \ {"unknown_request"}
  BY DEF Replies, Outcomes
<1>2. c # Nobody
  BY ClientAssumption
<1>3. CASE Request(c)
  <2>1. up /\ call[c] = "idle"
    BY <1>3 DEF Request
  <2>2. CASE status = "ready"
    <3>1. CASE link = "dead"
      BY <1>3, <2>2, <3>1, StopInv DEF Request, Sends
    <3>2. CASE link # "dead"
      <4>1. /\ issue_request(peer, <<c>>, <<c>>) /\ call' = [call EXCEPT ![c] = "calling"]
            /\ UNCHANGED <<status, queued, waiters, why, ref, reply, link, timeouts>>
        BY <1>3, <2>2, <3>2 DEF Request, Sends
      <4>2. ref' = IF c = c THEN ref ELSE [ref EXCEPT ![c] = peer.next_id]
        BY <4>1
      <4>3. call' = [call EXCEPT ![c] = IF c = c THEN "calling" ELSE "ref"]
        BY <4>1, SMTT(30)
      <4> QED BY <2>1, <2>2, <4>1, <4>2, <4>3, IssueInv, Zenon
    <3> QED BY <3>1, <3>2
  <2>3. CASE status = "connecting"
    BY <1>3, <2>1, <2>3, WaitInv, SMTT(30) DEF Request, around
  <2>4. CASE status = "failed"
    BY <1>1, <1>3, <2>1, <2>4, AnswerInv DEF Request, client, around
  <2> QED BY <1>3, <2>2, <2>3, <2>4, Zenon DEF Request
<1>4. CASE Async(c)
  <2>1. up /\ call[c] = "idle"
    BY <1>4 DEF Async
  <2>2. CASE status = "ready"
    <3>1. CASE link = "dead"
      BY <1>4, <2>2, <3>1, StopInv DEF Async, Sends
    <3>2. CASE link # "dead"
      <4>1. /\ issue_request(peer, <<c>>, <<Nobody>>) /\ call' = [call EXCEPT ![c] = "ref"]
            /\ ref' = [ref EXCEPT ![c] = peer.next_id]
            /\ UNCHANGED <<status, queued, waiters, why, reply, link, timeouts>>
        BY <1>4, <2>2, <3>2 DEF Async, Sends
      <4>2. ref' = IF Nobody = c THEN ref ELSE [ref EXCEPT ![c] = peer.next_id]
        BY <1>2, <4>1
      <4>3. call' = [call EXCEPT ![c] = IF Nobody = c THEN "calling" ELSE "ref"]
        BY <1>2, <4>1, Zenon
      <4> QED BY <2>1, <2>2, <4>1, <4>2, <4>3, IssueInv, Zenon
    <3> QED BY <3>1, <3>2
  <2>3. CASE status # "ready"
    BY <1>1, <1>4, <2>1, <2>3, AnswerInv DEF Async, client, around
  <2> QED BY <2>2, <2>3
<1>5. CASE AwaitReady(c)
  <2>1. /\ up /\ call[c] = "idle"
        /\ UNCHANGED <<peer, status, pending, queued, why, ref, link, armed, timeouts, unanswered>>
    BY <1>5 DEF AwaitReady, around
  <2>2. CASE status = "connecting"
    BY <1>5, <2>1, <2>2, WaitInv DEF AwaitReady
  <2>3. CASE status # "connecting"
    <3>1. Return({c}, IF status = "ready" THEN "ok" ELSE "failed") /\ waiters' = waiters
      BY <1>5, <2>3 DEF AwaitReady
    <3>2. (IF status = "ready" THEN "ok" ELSE "failed") \in Replies \ {"unknown_request"}
      BY <1>1
    <3> QED BY <2>1, <3>1, <3>2, AnswerInv
  <2> QED BY <2>2, <2>3
<1>6. CASE CallGone(c)
  BY <1>1, <1>6, AnswerInv DEF CallGone, client, around
<1> QED
  BY <1>3, <1>4, <1>5, <1>6

\* A response, a timeout or a cancellation, in time or late, with the
\* transport up or gone.
LEMMA EndInv ==
  ASSUME ClientInv,
         \/ \E c \in Calls : Cancel(c)
         \/ \E n \in Outs : Response(n) \/ HandleTimeout(n)
  PROVE  ClientInv'
<1>1. TypeOK /\ up
  BY Zenon DEF ClientInv, Cancel, Response, HandleTimeout
<1>2. {"result", "timeout", "cancelled"} \subseteq Outcomes
  BY DEF Outcomes
<1>3. armed \subseteq Outs /\ timeouts \subseteq Outs
  BY <1>1 DEF TypeOK
<1>4. ASSUME NEW c \in Calls, Cancel(c) PROVE ClientInv'
  <2> DEFINE n == ref[c]
  <2>1. n \in Outs /\ pending[n].st # "none"
    BY <1>1, <1>4 DEF Cancel, TypeOK
  <2>2. CASE resolves(peer, n) /\ link = "dead"
    BY <1>4, <2>2, StopInv, Zenon DEF Cancel, Sends
  <2>3. CASE ~(resolves(peer, n) /\ link = "dead")
    <3>1. /\ Abandon(n, "cancelled") /\ armed' = armed \ {n}
          /\ UNCHANGED <<status, queued, waiters, why, ref, link, timeouts, unanswered>>
      BY <1>4, <2>3, Zenon DEF Cancel, Sends
    <3> HIDE DEF n
    <3>2. /\ peer' = [peer EXCEPT !.pending_out = @ \ {n}]
          /\ pending' = [pending EXCEPT ![n] = Settled(@, "cancelled")]
          /\ ReturnFrom(pending[n], "cancelled")
      BY <3>1 DEF Abandon, cancel_out
    <3>3. armed' \subseteq Outs /\ timeouts' \subseteq Outs
      BY <1>3, <3>1
    <3>4. \A m \in Outs : m # n /\ m \in armed \cup timeouts => m \in armed' \cup timeouts'
      BY <3>1
    <3> QED BY <1>1, <1>2, <2>1, <3>1, <3>2, <3>3, <3>4, SettleInv, Zenon
  <2> QED BY <2>2, <2>3
<1>5. ASSUME NEW n \in Outs, HandleTimeout(n) PROVE ClientInv'
  <2>1. CASE pending[n].st = "none"
    <3>1. /\ timeouts' = timeouts \ {n}
          /\ UNCHANGED <<peer, status, pending, queued, waiters, why, call, ref, reply,
                         link, armed, unanswered>>
      BY <1>5, <2>1 DEF HandleTimeout, client, callers
    <3>2. /\ queued \in Seq(Calls) /\ AwaitFindsOutcome
          /\ Counted /\ Handshake /\ Table /\ Refs /\ n \in timeouts
      BY <1>1, <1>5, Zenon DEF ClientInv, Running, HandleTimeout
    <3>3. TypeOK' /\ queued' \in Seq(Calls) /\ AwaitFindsOutcome'
      <4>1. queued' \in Seq(Calls) /\ AwaitFindsOutcome'
        BY <3>1, <3>2 DEF AwaitFindsOutcome
      <4>2. Queuers' = Queuers
        BY <3>1 DEF Queuers
      <4> QED BY <1>1, <3>1, <4>1, <4>2, SMTT(30) DEF TypeOK
    <3>4. Counted'
      BY <3>1, <3>2, SMTT(30) DEF Counted, Issued, Idle
    <3>5. Handshake'
      <4>1. status # "connecting" /\ Connected
        BY <3>2 DEF Handshake, Connecting
      <4> QED BY <3>1, <3>2, <4>1 DEF Handshake, Connected
    <3>6. pending[n].from = Nobody
      BY <2>1, <3>2, SMTT(30) DEF Table
    <3>7. Table'
      BY <3>1, <3>2, <3>6, ClientAssumption, SMTT(30) DEF Table
    <3>8. Refs'
      BY <2>1, <3>1, <3>2 DEF Refs
    <3> QED BY <3>3, <3>4, <3>5, <3>7, <3>8, SMTT(30) DEF ClientInv, Running
  <2>2. CASE pending[n].st # "none" /\ resolves(peer, n) /\ link = "dead"
    BY <1>5, <2>2, StopInv, Zenon DEF HandleTimeout, Sends
  <2>3. CASE pending[n].st # "none" /\ ~(resolves(peer, n) /\ link = "dead")
    <3>1. /\ Abandon(n, "timeout") /\ timeouts' = timeouts \ {n}
          /\ UNCHANGED <<status, queued, waiters, why, ref, link, armed, unanswered>>
      BY <1>5, <2>3 DEF HandleTimeout, Sends
    <3>2. /\ peer' = [peer EXCEPT !.pending_out = @ \ {n}]
          /\ pending' = [pending EXCEPT ![n] = Settled(@, "timeout")]
          /\ ReturnFrom(pending[n], "timeout")
      BY <3>1 DEF Abandon, cancel_out
    <3>3. armed' \subseteq Outs /\ timeouts' \subseteq Outs
      BY <1>3, <3>1
    <3>4. \A m \in Outs : m # n /\ m \in armed \cup timeouts => m \in armed' \cup timeouts'
      BY <3>1
    <3> QED BY <1>1, <1>2, <2>3, <3>1, <3>2, <3>3, <3>4, SettleInv, Zenon
  <2> QED BY <2>1, <2>2, <2>3
<1>6. ASSUME NEW n \in Outs, Response(n) PROVE ClientInv'
  <2>1. /\ unanswered' = unanswered \ {n}
        /\ UNCHANGED <<status, queued, waiters, why, ref, link, timeouts>>
    BY <1>6 DEF Response
  <2>2. CASE resolves(peer, n)
    <3>1. /\ peer' = [peer EXCEPT !.pending_out = @ \ {n}]
          /\ pending' = [pending EXCEPT ![n] = Settled(@, "result")]
          /\ ReturnFrom(pending[n], "result") /\ armed' = armed \ {n}
      BY <1>6, <2>2, SMTT(30) DEF Response, resolve_out
    <3>2. pending[n].st # "none"
      BY <1>1, <2>2 DEF ClientInv, Running, Table, resolves
    <3>3. armed' \subseteq Outs /\ timeouts' \subseteq Outs
      BY <1>3, <2>1, <3>1
    <3>4. \A m \in Outs : m # n /\ m \in armed \cup timeouts => m \in armed' \cup timeouts'
      BY <2>1, <3>1
    <3> QED BY <1>1, <1>2, <2>1, <3>1, <3>2, <3>3, <3>4, SettleInv, Zenon
  <2>3. CASE ~resolves(peer, n)
    <3>1. UNCHANGED <<peer, pending, armed, call, reply>>
      BY <1>6, <2>3 DEF Response
    <3>2. /\ queued \in Seq(Calls) /\ AwaitFindsOutcome
          /\ Counted /\ Handshake /\ Table /\ Refs
      BY <1>1, SMTT(30) DEF ClientInv, Running
    <3>3. TypeOK' /\ queued' \in Seq(Calls) /\ AwaitFindsOutcome'
      BY <1>1, <2>1, <3>1, <3>2, SMTT(30) DEF TypeOK, Queuers, AwaitFindsOutcome
    <3>4. Counted' /\ Table' /\ Refs'
      BY <2>1, <3>1, <3>2, SMTT(30) DEF Counted, Issued, Idle, Table, Refs
    <3>5. Handshake'
      BY <2>1, <3>1, <3>2 DEF Handshake, Connecting, Connected, Queuers
    <3> QED BY <3>3, <3>4, <3>5 DEF ClientInv, Running
  <2> QED BY <2>2, <2>3
<1> QED
  BY <1>4, <1>5, <1>6

\* The client starts in the invariant.
LEMMA InitClient == Init => ClientInv
<1> SUFFICES ASSUME Init PROVE ClientInv
  BY Zenon
<1>1. peer = new /\ new \in PeerRecords({}, Outs \cup {1}) /\ new.phase = "handshake"
      /\ new.next_id = 1 /\ new.pending_out = {}
  BY DEF Init, new, PeerRecords, Phases
<1>2. NoEntry \in Entries /\ NoEntry.st = "none" /\ NoEntry.from = Nobody
  BY DEF NoEntry, Entries
<1>3. /\ \A n \in Outs : pending[n] = NoEntry
      /\ \A c \in Calls : call[c] = "idle" /\ ref[c] = 0 /\ reply[c] = "none"
      /\ queued = <<>> /\ Len(queued) = 0 /\ Queuers = {} /\ waiters = {} /\ up
      /\ status = "connecting" /\ unanswered = {} /\ armed = {} /\ timeouts = {}
  BY DEF Init, Queuers, up
<1>4. queued \in Seq(Calls) /\ AwaitFindsOutcome
  BY <1>3 DEF AwaitFindsOutcome
<1>5. TypeOK
  BY <1>1, <1>2, <1>3 DEF Init, TypeOK, Replies
<1>6. Counted
  <2>1. Idle = Calls
    BY <1>3 DEF Idle
  <2> QED BY <1>1, <1>3, <2>1, Counts DEF Counted, Issued
<1>7. Handshake
  <2>1. Cardinality({}) = 0
    BY FS_EmptySet, SMTT(30)
  <2> QED BY <1>1, <1>3, <2>1 DEF Handshake, Connecting
<1>8. Table /\ Refs
  BY <1>1, <1>2, <1>3, ClientAssumption DEF Table, Refs
<1> QED
  BY <1>4, <1>5, <1>6, <1>7, <1>8 DEF ClientInv, Running

\* The invariant does not look at the transport.
LEMMA LinkInv ==
  ASSUME ClientInv, link' \in {"starting", "up", "dead"},
         UNCHANGED <<peer, status, pending, queued, waiters, why, call, ref, reply,
                     armed, timeouts, unanswered>>
  PROVE  ClientInv'
<1>1. TypeOK' /\ queued' \in Seq(Calls) /\ AwaitFindsOutcome'
  BY DEF ClientInv, TypeOK, Queuers, AwaitFindsOutcome
<1>2. Counted' <=> Counted
  BY DEF Counted, Issued, Idle
<1>3. Queuers' = Queuers
  BY SMTT(30) DEF Queuers
<1>4. (Connecting' <=> Connecting) /\ (Connected' <=> Connected)
  BY <1>3 DEF Connecting, Connected
<1>5. Handshake' <=> Handshake
  BY <1>4, SMTT(30) DEF Handshake
<1>6. (Table' <=> Table) /\ (Refs' <=> Refs) /\ (up' <=> up)
  BY DEF Table, Refs, up
<1> QED
  BY <1>1, <1>2, <1>5, <1>6, SMTT(30) DEF ClientInv, Running

\* Every step of the client keeps the invariant.
LEMMA NextClient == ClientInv /\ [Next]_vars => ClientInv'
<1> SUFFICES ASSUME ClientInv, [Next]_vars PROVE ClientInv'
  OBVIOUS
<1>1. CASE UNCHANGED vars
  <2>1. TypeOK
    BY DEF ClientInv
  <2>2. link' \in {"starting", "up", "dead"}
    BY <1>1, <2>1 DEF vars, around, TypeOK
  <2> QED BY <1>1, <2>2, LinkInv, Zenon DEF vars, client, callers, around
<1>2. CASE \E c \in Calls : Request(c) \/ Async(c) \/ AwaitReady(c) \/ CallGone(c)
  BY <1>2, CallInv
<1>3. CASE \E c \in Calls : Await(c)
  BY <1>3, AwaitInv
<1>4. CASE \/ \E c \in Calls : Cancel(c)
           \/ \E n \in Outs : Response(n) \/ HandleTimeout(n)
  BY <1>4, EndInv
<1>5. CASE \E n \in Outs : TimerFires(n)
  BY <1>5, TimerInv
<1>6. CASE TransportUp \/ InitializeResult \/ InitializeFailed \/ HandleTransportDown
  BY <1>6, TransportUpInv, InitializeResultInv, InitializeFailedInv, TransportDownInv
<1>7. CASE TransportStartFails \/ OtherMessage \/ Close
  BY <1>7, StopInv DEF TransportStartFails, OtherMessage, Close
<1>8. CASE TransportDies
  <2>1. /\ link' = "dead"
        /\ UNCHANGED <<peer, status, pending, queued, waiters, why, call, ref, reply,
                       armed, timeouts, unanswered>>
    BY <1>8 DEF TransportDies, client, callers
  <2> QED BY <2>1, LinkInv
<1> QED
  BY <1>1, <1>2, <1>3, <1>4, <1>5, <1>6, <1>7, <1>8 DEF Next

\* The invariant holds throughout, for every set of calls.
LEMMA ClientAlways == Spec => []ClientInv
BY InitClient, NextClient, PTL DEF Spec

-----------------------------------------------------------------------------
(* Results *)

\* Callers are attached only after the handshake, queued or waiting only before.
LEMMA AccountedByStatus == ClientInv => CallsAccounted
<1> SUFFICES ASSUME ClientInv, up
             PROVE  /\ {c \in Calls : call[c] = "calling"} = Attached \cup Queuers \cup waiters
                    /\ Attached \cap Queuers = {} /\ (Attached \cup Queuers) \cap waiters = {}
                    /\ Cardinality(Queuers) = Len(queued)
                    /\ \A m, n \in Outs : pending[m].from = pending[n].from /\ m # n
                                            => pending[m].from = Nobody
  BY DEF CallsAccounted
<1>1. TypeOK /\ Handshake /\ Table
  BY DEF ClientInv, Running
<1>2. Queuers \subseteq Calls /\ waiters \subseteq Calls /\ pending \in [Outs -> Entries]
  BY <1>1 DEF TypeOK
<1>3. Attached \subseteq Calls
  BY <1>2, SMTT(30) DEF Attached, Entries
<1>4. CASE status = "connecting"
  <2>1. Connecting
    BY <1>1, <1>4, SMTT(30) DEF Handshake
  <2>2. \A n \in Outs : pending[n] = NoEntry
    <3>1. \A n \in Outs : n \in Nat /\ n >= 2
      BY Counts DEF Outs
    <3> QED BY <1>1, <2>1, <3>1 DEF Table, Connecting
  <2>3. Attached = {} /\ \A n \in Outs : pending[n].from = Nobody
    BY <2>2 DEF Attached, NoEntry
  <2> QED BY <1>2, <2>1, <2>3 DEF Connecting
<1>5. CASE status # "connecting"
  <2>1. Connected
    BY <1>1, <1>5 DEF Handshake
  <2>2. queued = <<>> /\ Queuers = {} /\ waiters = {}
    BY <2>1 DEF Connected, Queuers
  <2>3. \A c \in Calls : c \in Attached <=> call[c] = "calling"
    BY <2>1, ClientAssumption DEF Connected, Attached
  <2>4. Cardinality({}) = 0 /\ Len(<<>>) = 0
    BY FS_EmptySet
  <2> QED BY <1>3, <2>1, <2>2, <2>3, <2>4 DEF Connected
<1> QED
  BY <1>4, <1>5

\* The open entries are what the peer waits for besides initialize.
LEMMA EntriesByTable == ClientInv => EntriesAgree
<1> SUFFICES ASSUME ClientInv, up
             PROVE  /\ {n \in Outs : pending[n].st = "open"} = peer.pending_out \ {1}
                    /\ \A n \in Outs : pending[n].from \in Calls \ Untimed => n \in armed \cup timeouts
  BY DEF EntriesAgree
<1>1. TypeOK /\ Table
  BY DEF ClientInv, Running
<1>2. peer.pending_out \subseteq Outs \cup {1} /\ 1 \notin Outs
  BY <1>1, PeerFields, Counts DEF Outs
<1> QED
  BY <1>1, <1>2 DEF Table

\* At every moment each caller blocked in the client is known to it in exactly
\* one place, and the client keeps nobody it has replied to (client.ex: entries,
\* queue and waiters through handshake, response, timeout, cancel and failure).
THEOREM CallersSafe == Spec => []CallsAccounted
BY ClientAlways, AccountedByStatus, PTL

\* The entries without a result are the peer's outstanding requests, and every
\* timed caller attached to one has a timer that runs or has fired.
THEOREM RequestsSafe == Spec => []EntriesAgree
BY ClientAlways, EntriesByTable, PTL

\* No await/3 answers :unknown_request for a reference async/4 returned,
\* whatever ended the request and whenever it is awaited.
THEOREM AwaitSafe == Spec => []AwaitFindsOutcome
<1>1. ClientInv => AwaitFindsOutcome
  BY DEF ClientInv
<1> QED
  BY <1>1, ClientAlways, PTL

=============================================================================
