--------------------------------- MODULE MCSync ---------------------------------
(***************************************************************************)
(* Sync on small instances.  Workers and the cache's operations are        *)
(* interchangeable.  The module also states apply_changes as the code      *)
(* writes it, one event after the other, and compares the closed form of   *)
(* SyncCache with it in every reachable state.                             *)
(***************************************************************************)
EXTENDS Sync, TLC

Symmetry == Permutations(Workers) \cup Permutations(LocalOps)

\* _apply_clean_event for one event.
ApplyOne(r, c) ==
  IF r.sctr >= c THEN r
  ELSE [st |-> CleanState(chg[c].del), val |-> chg[c].val, del |-> chg[c].del,
        srev |-> c, sctr |-> c, lrev |-> r.lrev + 1]

\* _drain_deferred: every deferred event of the row in ascending order.
RECURSIVE Drain(_, _)
Drain(r, C) == IF C = {} THEN r
               ELSE LET c == CHOOSE c \in C : \A d \in C : c <= d
                    IN  Drain(ApplyOne(r, c), C \ {c})

\* One pass of apply_changes's loop body over event c; s holds the tables.
LoopBody(s, c) ==
  LET k  == chg[c].key
      r  == s.rec[k]
      o  == chg[c].op
      of == {d \in s.deferred : chg[d].key = k}
  IN  IF r.st \notin Dirty THEN [s EXCEPT !.rec[k] = ApplyOne(r, c)]
      ELSE IF /\ o \in LocalOps /\ s.ob[o].st \in InFlight
              /\ s.ob[o].fence > 0 /\ s.ob[o].qlrev = r.lrev
      THEN [rec |-> [s.rec EXCEPT ![k] = Drain(ApplyOne([r EXCEPT !.st = "clean"], c), of)],
            ob |-> [s.ob EXCEPT ![o].st = "acknowledged", ![o].lease = "none"],
            deferred |-> s.deferred \ of]
      ELSE [s EXCEPT !.deferred = @ \cup {c}]

RECURSIVE Loop(_, _, _)
Loop(s, c, next) == IF c > next THEN s ELSE Loop(LoopBody(s, c), c + 1, next)

\* Applying a page at once, as SyncCache does, gives the tables that
\* apply_changes reaches event by event, for every page from every state.
PageMatchesLoop ==
  \A next \in cpt.last .. Len(chg) :
    LET new == cpt.last + 1 .. next
        own == OwnEvents(new)
    IN  Loop([rec |-> rec, ob |-> ob, deferred |-> deferred], cpt.last + 1, next)
          = [rec |-> [k \in Keys |-> PageRow(k, new, own)],
             ob |-> [o \in LocalOps |->
                       IF \E c \in own : chg[c].op = o
                       THEN [ob[o] EXCEPT !.st = "acknowledged", !.lease = "none"] ELSE ob[o]],
             deferred |-> Deferred(new, own)]

=============================================================================
