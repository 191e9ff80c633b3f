------------------------------ MODULE PgCache ------------------------------
(***************************************************************************)
(* What the catalog tables of pg_mcp promise their readers, with nothing   *)
(* of how the lists are obtained: no sessions, pages, retries, flags or    *)
(* errors.  Each role has one slot per list.  A statement is answered      *)
(* either with a list the server still held when the statement began or    *)
(* later, or with the content of a slot that was filled less than the      *)
(* reader's TTL ago; filling stamps the slot with the time of filling.     *)
(***************************************************************************)
EXTENDS Naturals

CONSTANTS Users, Slices, Ttls

VARIABLES
    clock,      \* time
    ver,        \* how often the server's lists have changed
    slots,      \* the slots of each role
    reader,     \* the statement in progress: when it began, and its TTL
    answer      \* the version the last answered statement was given

cacheVars == <<clock, ver, slots, reader, answer>>

NoEntry == [full |-> FALSE, at |-> 0, ver |-> 0]

NoReader == [on |-> FALSE, floor |-> 0, ttl |-> 0]

CacheInit ==
    /\ clock = 0 /\ ver = 0 /\ reader = NoReader /\ answer = 0
    /\ slots = [u \in Users |-> [sl \in Slices |-> NoEntry]]

Tick == clock' = clock + 1 /\ UNCHANGED <<ver, slots, reader, answer>>

Change == ver' = ver + 1 /\ UNCHANGED <<clock, slots, reader, answer>>

\* A statement begins, with the TTL of its table or server, or ends.
Start ==
    /\ ~reader.on
    /\ \E t \in Ttls : reader' = [on |-> TRUE, floor |-> ver, ttl |-> t]
    /\ answer' = 0
    /\ UNCHANGED <<clock, ver, slots>>

End == reader' = NoReader /\ UNCHANGED <<clock, ver, slots, answer>>

\* Slots may be emptied at any time, of one role or of all.
Forget ==
    /\ slots' = [u \in Users |-> [sl \in Slices |-> slots'[u][sl]]]
    /\ \A u \in Users, sl \in Slices : slots'[u][sl] \in {slots[u][sl], NoEntry}
    /\ reader' \in {reader, NoReader}
    /\ UNCHANGED <<clock, ver, answer>>

\* An answer from a slot.
Hit(u, sl) ==
    /\ reader.on
    /\ slots[u][sl].full
    /\ clock - slots[u][sl].at < reader.ttl
    /\ answer' = slots[u][sl].ver
    /\ reader' \in {reader, NoReader}
    /\ UNCHANGED <<clock, ver, slots>>

\* An answer from the server, kept unless the reader's TTL is 0.
Read(u, sl) ==
    /\ reader.on
    /\ \E v \in reader.floor .. ver :
         /\ answer' = v
         /\ slots' = IF reader.ttl = 0 THEN slots
                     ELSE [slots EXCEPT ![u][sl] =
                              [full |-> TRUE, at |-> clock, ver |-> v]]
    /\ reader' \in {reader, NoReader}
    /\ UNCHANGED <<clock, ver>>

CacheNext ==
    \/ Tick \/ Change \/ Start \/ End \/ Forget
    \/ \E u \in Users, sl \in Slices : Hit(u, sl) \/ Read(u, sl)

CacheSpec == CacheInit /\ [][CacheNext]_cacheVars
=============================================================================
