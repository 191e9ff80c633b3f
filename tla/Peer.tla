-------------------------------- MODULE Peer --------------------------------
(***************************************************************************)
(* The JSON-RPC peer both ends of an MCP connection are built on           *)
(* (lib/noizu/mcp/peer.ex): a pure value and the functions that advance    *)
(* it.  The caller sends what a function returns and runs the effects.     *)
(*                                                                         *)
(* A request is its id; method, parameters and result are left out.  The   *)
(* tag of an outbound request and its progress token are functions of its  *)
(* id here, kept by whoever issued it, so pending_out is a set of ids and  *)
(* progress_index (a second index of pending_out) has no field.            *)
(***************************************************************************)
EXTENDS Naturals

Phases == {"handshake", "initializing", "ready", "closing"}

PeerRecords(In, Out) ==
  [phase : Phases, next_id : Nat, pending_out : SUBSET Out,
   pending_in : SUBSET In, cancelled_in : SUBSET In]

new ==
  [phase |-> "handshake", next_id |-> 1, pending_out |-> {},
   pending_in |-> {}, cancelled_in |-> {}]

-----------------------------------------------------------------------------
(* Outbound *)

request(p) ==
  [p EXCEPT !.next_id = @ + 1, !.pending_out = @ \cup {p.next_id}]

\* respond and respond_error yield a message for the wire, not :drop.
responds(p, id) == id \notin p.cancelled_in /\ id \in p.pending_in

\* Mutant: an answered request stays in the table.
finish_inboundKept(p, id) ==
  IF id \in p.cancelled_in
  THEN [p EXCEPT !.cancelled_in = @ \ {id}]
  ELSE p

finish_inbound(p, id) ==
  IF id \in p.cancelled_in
  THEN [p EXCEPT !.cancelled_in = @ \ {id}]
  ELSE [p EXCEPT !.pending_in = @ \ {id}]

\* Mutant: an abandoned request stays in the table.
cancel_outKept(p, id) == p

cancel_out(p, id) == [p EXCEPT !.pending_out = @ \ {id}]

init_request(p) == [request(p) EXCEPT !.phase = "initializing"]

initialized(p) == [p EXCEPT !.phase = "ready"]

-----------------------------------------------------------------------------
(* Ingest: one operator per kind of inbound message *)

\* The server's side of the handshake.
ingest_initialize(p) ==
  IF p.phase = "handshake" THEN [p EXCEPT !.phase = "initializing"] ELSE p

ingest_initialized(p) ==
  IF p.phase = "initializing" THEN [p EXCEPT !.phase = "ready"] ELSE p

ingest_cancelled(p, id) ==
  IF id \in p.pending_in
  THEN [p EXCEPT !.pending_in = @ \ {id}, !.cancelled_in = @ \cup {id}]
  ELSE p

\* Mutant: a duplicate of a request in flight is dispatched too.
dispatchesTwice(p, id) == p.phase = "ready"

\* A receivable request is handed to the owner, and is not refused.
dispatches(p, id) == p.phase = "ready" /\ id \notin p.pending_in

ingest_request(p, id) ==
  IF dispatches(p, id) THEN [p EXCEPT !.pending_in = @ \cup {id}] ELSE p

\* A response resolves an outbound request; any other is late and ignored.
resolves(p, id) == id \in p.pending_out

resolve_out(p, id) == [p EXCEPT !.pending_out = @ \ {id}]

\* The client's side of the handshake.
client_initialize_outcome(p, accepted) ==
  IF accepted THEN p ELSE [p EXCEPT !.phase = "closing"]
=============================================================================
