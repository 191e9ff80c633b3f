-------------------------- MODULE PgCatalogProofs ---------------------------
(***************************************************************************)
(* Proofs about PgCatalog, for every set of roles, option lists, TTLs and  *)
(* every bound: a statement has its tool call carried out once, and speaks *)
(* clear text to loopback only.  Both follow from an invariant on the      *)
(* statement alone (StOK): how often the call may have been carried out at *)
(* each stage of the exchange, and what was known of its URL since Begin.  *)
(* A second invariant (SessInv) adds the sessions: cached or in hand, each *)
(* is its role's own and was initialized no oftener than it was lost.      *)
(* A third (ReaderInv) adds the cache: what a list in hand is no older     *)
(* than, and what each session has been told.  With it every step is one   *)
(* of PgCache's contract or none, and a scan honours every notice.         *)
(***************************************************************************)
EXTENDS PgCatalog, TLAPS

Fields ==
    {"stage", "user", "kind", "phase", "url", "ttl", "sess", "opening", "again",
     "followed", "lo", "out", "floor", "told", "answer", "ran", "misread",
     "expired", "loop", "count"}

\* Before the request is sent the call has not been carried out; when it is sent
\* again it was, at most, carried out and misread.
StOK(s) ==
    /\ DOMAIN s = Fields
    /\ s.stage \in {"idle", "lookup", "init", "note", "ready", "try", "answered", "planned"}
    /\ s.ran \in Nat
    /\ s.misread \in BOOLEAN /\ s.again \in BOOLEAN /\ s.opening \in BOOLEAN
    /\ s.loop \in BOOLEAN
    /\ s.stage = "idle" \/ s.url.scheme = "https" \/ s.loop = TRUE
    /\ s.stage \in {"idle", "lookup", "ready", "planned"} => s.ran = 0
    /\ s.phase = "list" => s.ran = 0
    /\ s.stage \in {"init", "note", "try"}
         => s.ran = 0 \/ (s.ran = 1 /\ s.misread = TRUE /\ s.again = TRUE)
    /\ s.stage = "answered" => s.ran \in {0, 1} \/ (s.ran = 2 /\ s.misread = TRUE)
    /\ s.stage = "answered" /\ s.phase = "call" /\ s.out = "Ok" => s.ran # 0
    /\ s.opening = TRUE => s.ran = 0
    /\ s.stage \in {"lookup", "ready", "planned", "try", "answered"} => s.opening = FALSE

-----------------------------------------------------------------------------
\* No statement, and what is left of one.
LEMMA OverOK == StOK(Statement0) /\ \A s : StOK(Over(s))
BY DEF StOK, Statement0, Over, Fields

\* An answer is taken for a lost session only if it is a 404 or worded like one.
LEMMA GoneIsSaid ==
    ASSUME NEW h, exchange_checked(h) = "Gone"
    PROVE  h.status = 404 \/ is_expired_session(h.msg)
<1>1. finish(h) # "Gone"
  BY DEF finish, from_rpc
<1>2. StatusError(h) # "Gone" /\ StreamOutcome(h) # "Gone"
  BY <1>1 DEF StatusError, from_http_status, StreamOutcome
<1> QED
  BY <1>1, <1>2 DEF exchange_checked, dispatch

\* What goes wrong is not a success to the client.
LEMMA FaultIsNotOk ==
    \A h \in FaultAnswers \cup GoneAnswers \cup {Status(400)} : exchange_checked(h) # "Ok"
<1> USE DEF exchange_checked, dispatch, StatusError, from_http_status, finish, from_rpc
<1>1. \A n \in {0, 500, 401, 405, 202, 400, 404} : exchange_checked(Status(n)) # "Ok"
  BY DEF Status
<1>2. \A c \in {-32601, -32602, -32000, -32603, 1} :
        \A msg \in {"plain", "authz", "expired"} : exchange_checked(Json(c, msg)) # "Ok"
  BY DEF Json, is_expired_session
<1>3. exchange_checked(Stream(<<"changed">>, 0)) # "Ok"
  <2>1. ~Answered(<<"changed">>)
    BY DEF Answered
  <2> DEFINE h == Stream(<<"changed">>, 0)
  <2>2. h.frames = <<"changed">> /\ h.status = 200
    BY DEF Stream
  <2>3. dispatch(h) = "Sse"
    <3>1. h.frames # <<>>
      BY <2>2
    <3> HIDE DEF h
    <3> QED
      BY <2>2, <3>1 DEF dispatch
  <2> HIDE DEF h, dispatch
  <2> QED
    BY <2>1, <2>2, <2>3 DEF StreamOutcome, h
<1>4. exchange_checked([Stream(<<"answer">>, -32000) EXCEPT !.msg = "expired"]) # "Ok"
  BY DEF Stream, StreamOutcome
<1> HIDE DEF exchange_checked, dispatch, StatusError, from_http_status, finish, from_rpc
<1> QED
  BY <1>1, <1>2, <1>3, <1>4 DEF FaultAnswers, GoneAnswers

\* A request the client takes as answered was carried out.
LEMMA OkIsRan ==
    ASSUME NEW url, NEW sid, NEW u, NEW a \in RequestAnswers(url, sid, u),
           exchange_checked(a.h) = "Ok"
    PROVE  a.ran = TRUE
<1>1. a.ran = TRUE \/ a.h \in FaultAnswers \cup GoneAnswers \cup {Status(400)}
  BY Zenon DEF RequestAnswers
<1> QED
  BY <1>1, FaultIsNotOk

\* The options a statement begins with name an https URL or a host that is
\* loopback now (ServerOptions::parse).
LEMMA ResolvedIsClear ==
    ASSUME NEW u, resolve(u).err = "Ok"
    PROVE  resolve(u).url.scheme = "https" \/ is_loopback(resolve(u).url, catalog.dns)
<1> DEFINE o == ParseServer(catalog.server, catalog.dns)
<1>1. resolve(u) = o /\ o.err = "Ok"
  BY DEF resolve
<1>2. /\ parse_url(catalog.server["url"])
      /\ is_loopback(catalog.server["url"], catalog.dns) \/ catalog.server["url"].scheme # "http"
      /\ o.url = catalog.server["url"]
  BY <1>1 DEF ParseServer
<1> QED
  BY <1>1, <1>2 DEF parse_url

\* A statement whose call has not been carried out and whose request has not
\* been answered.
LEMMA UnsentOK ==
    ASSUME NEW s, DOMAIN s = Fields, s.ran = 0, s.misread \in BOOLEAN,
           s.again \in BOOLEAN, s.opening \in BOOLEAN, s.loop \in BOOLEAN,
           s.url.scheme = "https" \/ s.loop = TRUE,
           s.stage \in {"lookup", "ready", "planned", "init", "note", "try"},
           s.stage \in {"init", "note"} \/ s.opening = FALSE
    PROVE  StOK(s)
BY DEF StOK

\* Entering with_session, from a statement that has sent nothing yet.
LEMMA EnterOK ==
    ASSUME NEW s, NEW u, DOMAIN s = Fields, s.ran = 0, s.misread \in BOOLEAN,
           s.opening = FALSE, s.loop \in BOOLEAN, s.url.scheme = "https" \/ s.loop = TRUE
    PROVE  StOK(Enter(s, u))
<1> DEFINE old == [s EXCEPT !.stage = "ready", !.sess = sessions[u], !.again = FALSE]
           new == [s EXCEPT !.stage = "init", !.opening = TRUE, !.again = FALSE,
                            !.sess = [NoSession EXCEPT !.url = s.url]]
<1>1. /\ DOMAIN old = Fields /\ old.stage = "ready" /\ old.again = FALSE
      /\ old.ran = 0 /\ old.misread = s.misread /\ old.opening = FALSE
      /\ old.url = s.url /\ old.loop = s.loop
  BY DEF Fields
<1>2. /\ DOMAIN new = Fields /\ new.stage = "init" /\ new.again = FALSE
      /\ new.ran = 0 /\ new.misread = s.misread /\ new.opening = TRUE
      /\ new.url = s.url /\ new.loop = s.loop
  BY DEF Fields
<1>3. Enter(s, u) = old \/ Enter(s, u) = new
  BY DEF Enter
<1> HIDE DEF old, new
<1>4. StOK(old)
  BY <1>1, UnsentOK, Zenon
<1>5. StOK(new)
  BY <1>2, UnsentOK, Zenon
<1> QED
  BY <1>3, <1>4, <1>5

-----------------------------------------------------------------------------
\* Begin: the URL is looked at now, whatever it was when the options were set.
LEMMA BeginOK ==
    ASSUME StOK(st), catalog.dns \in BOOLEAN, NEW u, NEW k, NEW ttl, Begin(u, k, ttl)
    PROVE  StOK(st')
<1> DEFINE r == resolve(u)
           s == [Statement0 EXCEPT !.stage = "lookup", !.user = u, !.kind = k,
                   !.floor = ver, !.count = st.count + 1, !.url = r.url,
                   !.phase = IF k = "call" THEN "call" ELSE "list",
                   !.loop = is_loopback(r.url, catalog.dns),
                   !.ttl = IF Uncached(k) THEN 0
                           ELSE IF ttl \in TableTtls THEN ttl ELSE r.ttl]
<1>1. CASE r.err # "Ok"
  <2>1. st' = [st EXCEPT !.count = st.count + 1] /\ st.stage = "idle"
    BY <1>1 DEF Begin
  <2> QED
    BY <2>1 DEF StOK, Fields
<1>2. CASE r.err = "Ok"
  <2>1. /\ DOMAIN s = Fields /\ s.stage = "lookup" /\ s.ran = 0 /\ s.misread = FALSE
        /\ s.again = FALSE /\ s.opening = FALSE
        /\ s.url = r.url /\ s.loop = is_loopback(r.url, catalog.dns)
    BY Zenon DEF Statement0, Fields
  <2>2. is_loopback(r.url, catalog.dns) \in BOOLEAN
    BY Zenon DEF is_loopback
  <2>3. s.url.scheme = "https" \/ s.loop = TRUE
    BY <1>2, <2>1, ResolvedIsClear, Zenon
  <2>4. st' = s \/ st' = Enter(s, u)
    BY <1>2 DEF Begin
  <2> HIDE DEF s
  <2>5. StOK(s)
    BY <2>1, <2>2, <2>3, UnsentOK, Zenon
  <2>6. StOK(Enter(s, u))
    BY <2>1, <2>2, <2>3, EnterOK, Zenon
  <2> QED
    BY <2>4, <2>5, <2>6
<1> QED
  BY <1>1, <1>2

\* The exchanges of initialize: opening a session, or renewing one in the middle
\* of a request that was refused.
LEMMA InitializeOK ==
    ASSUME StOK(st), SendInitialize
    PROVE  StOK(st')
<1>1. st.stage = "init"
  BY DEF SendInitialize
<1>2. PICK a \in InitAnswers :
        st' = IF exchange(a.h) = "Ok"
              THEN [st EXCEPT !.stage = "note",
                      !.sess.sid = IF dispatch(a.h) = "Json" THEN Cardinality(served) + 1 ELSE 0,
                      !.sess.inits = @ + 1]
              ELSE IF st.opening THEN Over(st)
              ELSE [st EXCEPT !.stage = "answered", !.out = exchange(a.h)]
  BY Zenon DEF SendInitialize
<1>3. CASE exchange(a.h) = "Ok"
  <2>1. PICK x : st' = [st EXCEPT !.stage = "note", !.sess = x]
    BY <1>2, <1>3, Zenon
  <2> QED
    BY <1>1, <2>1 DEF StOK, Fields
<1>4. CASE exchange(a.h) # "Ok" /\ st.opening
  BY <1>2, <1>4, OverOK
<1>5. CASE exchange(a.h) # "Ok" /\ ~st.opening
  <2>1. st' = [st EXCEPT !.stage = "answered", !.out = exchange(a.h)]
    BY <1>2, <1>5
  <2>2. st.opening = FALSE
    BY <1>5 DEF StOK
  <2> QED
    BY <1>1, <1>5, <2>1, <2>2 DEF StOK, Fields
<1> QED
  BY <1>3, <1>4, <1>5

\* Its notification, of the same two.
LEMMA InitializedOK ==
    ASSUME StOK(st), SendInitialized
    PROVE  StOK(st')
<1>1. st.stage = "note"
  BY DEF SendInitialized
<1>2. PICK e : /\ e = "Ok" => st' = [st EXCEPT !.stage = IF st.opening THEN "ready" ELSE "try",
                                               !.opening = FALSE]
               /\ e # "Ok" /\ st.opening => st' = Over(st)
               /\ e # "Ok" /\ ~st.opening => st' = [st EXCEPT !.stage = "answered", !.out = e]
  BY Zenon DEF SendInitialized
<1>3. CASE e = "Ok" /\ st.opening = TRUE
  <2>1. st' = [st EXCEPT !.stage = "ready", !.opening = FALSE]
    BY <1>2, <1>3, Zenon
  <2> QED
    BY <1>1, <1>3, <2>1 DEF StOK, Fields
<1>4. CASE e = "Ok" /\ st.opening = FALSE
  <2>1. st' = [st EXCEPT !.stage = "try", !.opening = FALSE]
    BY <1>2, <1>4, Zenon
  <2> QED
    BY <1>1, <1>4, <2>1 DEF StOK, Fields
<1>5. CASE e # "Ok" /\ st.opening = TRUE
  BY <1>2, <1>5, OverOK
<1>6. CASE e # "Ok" /\ st.opening = FALSE
  <2>1. st' = [st EXCEPT !.stage = "answered", !.out = e]
    BY <1>2, <1>6
  <2> QED
    BY <1>1, <1>6, <2>1 DEF StOK, Fields
<1> QED
  BY <1>3, <1>4, <1>5, <1>6, Zenon DEF StOK

\* A try of the request.  The second try, the only one that may find the call
\* carried out before, ends the request.
LEMMA RequestOK ==
    ASSUME StOK(st), SendRequest
    PROVE  StOK(st')
<1>1. st.stage = "try"
  BY DEF SendRequest
<1>2. PICK a \in RequestAnswers(st.url, st.sess.sid, st.user) :
        st' = AfterTry(
                  [Observe(st, a.h) EXCEPT
                     !.ran = IF st.phase = "call" /\ a.ran THEN @ + 1 ELSE @,
                     !.misread = @ \/ (st.phase = "call" /\ a.ran
                                        /\ (a.h.status = 404 \/ is_expired_session(a.h.msg))),
                     !.expired = ~st.again /\ (a.h.status = 404 \/ is_expired_session(a.h.msg)),
                     !.sess.gone = IF a.h.status = 404 \/ is_expired_session(a.h.msg)
                                   THEN @ + 1 ELSE @,
                     !.lo = IF st.followed = {} THEN ver ELSE @],
                  exchange_checked(a.h))
  BY Zenon DEF SendRequest
<1> DEFINE e == exchange_checked(a.h)
           ran == st.phase = "call" /\ a.ran
           gone == a.h.status = 404 \/ is_expired_session(a.h.msg)
<1> DEFINE o == Observe(st, a.h)
<1>3. /\ DOMAIN o = Fields /\ o.phase = st.phase /\ o.url = st.url /\ o.ran = st.ran
      /\ o.misread = st.misread /\ o.loop = st.loop /\ o.again = st.again
      /\ o.opening = st.opening
  <2>1. o = st \/ \E x : o = [st EXCEPT !.sess = x]
    BY Zenon DEF Observe
  <2> HIDE DEF o
  <2> QED
    BY <2>1 DEF StOK, Fields
<1>4. PICK s : /\ st' = AfterTry(s, e)
               /\ DOMAIN s = Fields /\ s.phase = st.phase /\ s.url = st.url
               /\ s.loop = st.loop /\ s.again = st.again /\ s.opening = st.opening
               /\ s.ran = (IF ran THEN st.ran + 1 ELSE st.ran)
               /\ s.misread = (st.misread \/ (ran /\ gone))
  <2> DEFINE s == [o EXCEPT
                     !.ran = IF ran THEN @ + 1 ELSE @,
                     !.misread = @ \/ (ran /\ gone),
                     !.expired = ~st.again /\ gone,
                     !.sess.gone = IF gone THEN @ + 1 ELSE @,
                     !.lo = IF st.followed = {} THEN ver ELSE @]
  <2>1. st' = AfterTry(s, e)
    BY <1>2
  <2> HIDE DEF ran, gone, o
  <2>2. /\ DOMAIN s = Fields /\ s.phase = st.phase /\ s.url = st.url
        /\ s.loop = st.loop /\ s.again = st.again /\ s.opening = st.opening
        /\ s.ran = (IF ran THEN st.ran + 1 ELSE st.ran)
        /\ s.misread = (st.misread \/ (ran /\ gone))
    BY <1>3 DEF Fields
  <2> HIDE DEF s
  <2> QED
    BY <2>1, <2>2
<1>5. e = "Gone" => gone
  BY GoneIsSaid
<1>6. e = "Ok" => a.ran
  BY OkIsRan, Zenon
<1>7. e = "Ok" /\ st.phase = "call" => ran
  BY <1>6
<1>8. st.phase = "list" => ~ran
  OBVIOUS
<1> HIDE DEF e, ran, gone
<1>9. /\ s.ran \in Nat /\ s.misread \in BOOLEAN /\ s.again \in BOOLEAN
      /\ s.opening = FALSE /\ s.loop \in BOOLEAN
      /\ s.url.scheme = "https" \/ s.loop = TRUE
      /\ s.phase = "list" => s.ran = 0
  BY <1>1, <1>4, <1>8 DEF StOK
<1>10. CASE e = "Gone" /\ ~s.again
  <2>1. PICK y : st' = [s EXCEPT !.stage = "init", !.again = TRUE, !.sess = y]
    BY <1>4, <1>10, Zenon DEF AfterTry
  <2>2. s.ran = 0 \/ (s.ran = 1 /\ s.misread = TRUE)
    <3>0. s.again = FALSE
      BY <1>9, <1>10
    <3>1. st.ran = 0
      BY <1>1, <1>4, <3>0 DEF StOK
    <3>2. CASE ran
      <4>1. s.ran = 1
        BY <1>4, <3>1, <3>2
      <4>2. st.misread \/ (ran /\ gone)
        BY <1>5, <1>10, <3>2
      <4>3. s.misread
        BY <1>4, <4>2, Zenon
      <4> QED
        BY <1>9, <4>1, <4>3
    <3>3. CASE ~ran
      BY <1>4, <3>1, <3>3
    <3> QED
      BY <3>2, <3>3, Zenon
  <2>3. /\ DOMAIN st' = Fields /\ st'.stage = "init" /\ st'.again = TRUE
        /\ st'.ran = s.ran /\ st'.misread = s.misread /\ st'.opening = s.opening
        /\ st'.loop = s.loop /\ st'.url = s.url /\ st'.phase = s.phase
    BY <1>4, <2>1 DEF Fields
  <2> QED
    BY <1>9, <2>2, <2>3, Zenon DEF StOK
<1>11. CASE ~(e = "Gone" /\ ~s.again)
  <2>1. st' = [s EXCEPT !.stage = "answered", !.out = IF e = "Gone" THEN "Transport" ELSE e]
    BY <1>4, <1>11 DEF AfterTry
  <2>2. s.ran \in {0, 1} \/ (s.ran = 2 /\ s.misread = TRUE)
    BY <1>1, <1>4 DEF StOK
  <2>3. /\ DOMAIN st' = Fields /\ st'.stage = "answered" /\ st'.again = s.again
        /\ st'.ran = s.ran /\ st'.misread = s.misread /\ st'.opening = s.opening
        /\ st'.loop = s.loop /\ st'.url = s.url /\ st'.phase = s.phase
        /\ st'.out = IF e = "Gone" THEN "Transport" ELSE e
    BY <1>4, <2>1 DEF Fields
  <2>4. st'.phase = "call" /\ st'.out = "Ok" => st'.ran # 0
    <3>1. st'.out = "Ok" => e = "Ok"
      BY <2>3
    <3>2. ran => s.ran # 0
      BY <1>4 DEF StOK
    <3> QED
      BY <1>4, <1>7, <2>3, <3>1, <3>2
  <2> QED
    BY <1>9, <2>2, <2>3, <2>4, Zenon DEF StOK
<1> QED
  BY <1>10, <1>11

-----------------------------------------------------------------------------
\* The steps between the exchanges.
LEMMA StepOK ==
    ASSUME StOK(st), Step
    PROVE  StOK(st')
<1>1. CASE SendInitialize \/ SendInitialized \/ SendRequest
  BY <1>1, InitializeOK, InitializedOK, RequestOK
<1>2. CASE LookUp
  <2>1. st.stage = "lookup"
    BY <1>2 DEF LookUp
  <2>2. CASE \E x, y : st' = [st EXCEPT !.stage = "planned", !.lo = x, !.answer = y]
    BY <2>1, <2>2 DEF StOK, Fields
  <2>3. CASE st' = Enter(st, st.user)
    <3>1. /\ DOMAIN st = Fields /\ st.ran = 0 /\ st.misread \in BOOLEAN /\ st.opening = FALSE
          /\ st.loop \in BOOLEAN /\ (st.url.scheme = "https" \/ st.loop = TRUE)
      BY <2>1 DEF StOK
    <3> QED
      BY <2>3, <3>1, EnterOK, Zenon
  <2> QED
    BY <1>2, <2>2, <2>3, Zenon DEF LookUp
<1>3. CASE ScanFromCache
  <2>1. PICK x : st' = [Over(st) EXCEPT !.answer = x]
    BY <1>3, Zenon DEF ScanFromCache
  <2> QED
    BY <2>1 DEF StOK, Over, Statement0, Fields
<1>4. CASE StartRequest
  <2>1. st.stage = "ready" /\ st' = [TakeFlag(st).s EXCEPT !.stage = "try", !.told = st.sess.told]
    BY <1>4 DEF StartRequest
  <2>2. TakeFlag(st).s = st \/ \E x : TakeFlag(st).s = [st EXCEPT !.sess = x]
    BY DEF TakeFlag
  <2>3. CASE TakeFlag(st).s = st
    BY <2>1, <2>3 DEF StOK, Fields
  <2>4. CASE \E x : TakeFlag(st).s = [st EXCEPT !.sess = x]
    <3>1. PICK x : TakeFlag(st).s = [st EXCEPT !.sess = x]
      BY <2>4
    <3>2. /\ DOMAIN st' = Fields /\ st'.stage = "try" /\ st'.ran = st.ran
          /\ st'.misread = st.misread /\ st'.again = st.again /\ st'.opening = st.opening
          /\ st'.loop = st.loop /\ st'.url = st.url
      BY <2>1, <3>1 DEF StOK, Fields
    <3>3. /\ st.ran = 0 /\ st.misread \in BOOLEAN /\ st.again \in BOOLEAN /\ st.opening = FALSE
          /\ st.loop \in BOOLEAN /\ (st.url.scheme = "https" \/ st.loop = TRUE)
      BY <2>1 DEF StOK
    <3> QED
      BY <3>2, <3>3, UnsentOK, Zenon
  <2> QED
    BY <2>2, <2>3, <2>4, Zenon
<1>5. CASE LastPage
  <2>1. st.stage = "answered" /\ st.phase = "list"
    BY <1>5 DEF LastPage
  <2>2. CASE st' = [st EXCEPT !.stage = "planned", !.sess = NoSession, !.followed = {},
                              !.again = FALSE, !.answer = st.lo]
    BY <2>1, <2>2 DEF StOK, Fields
  <2>3. CASE st' = [Over(st) EXCEPT !.answer = st.lo]
    BY <2>3 DEF StOK, Over, Statement0, Fields
  <2> QED
    BY <1>5, <2>2, <2>3 DEF LastPage
<1>6. CASE PlanTool
  <2> DEFINE s == [st EXCEPT !.phase = "call"]
  <2>1. st.stage = "planned"
    BY <1>6 DEF PlanTool
  <2>2. /\ DOMAIN s = Fields /\ s.ran = 0 /\ s.misread \in BOOLEAN /\ s.opening = FALSE
        /\ s.loop \in BOOLEAN /\ (s.url.scheme = "https" \/ s.loop = TRUE)
    BY <2>1 DEF StOK, Fields
  <2>3. st' = Over(st) \/ st' = Enter(s, st.user)
    BY <1>6 DEF PlanTool
  <2> HIDE DEF s
  <2> QED
    BY <2>2, <2>3, OverOK, EnterOK, Zenon
<1>7. CASE EndStatement
  BY <1>7, OverOK DEF EndStatement
<1>8. ASSUME NEW c \in 1 .. MAX_LIST_PAGES, NextPage(c) PROVE StOK(st')
  <2>1. st.stage = "answered" /\ st.phase = "list"
    BY <1>8 DEF NextPage
  <2>2. CASE st' = [st EXCEPT !.stage = "try", !.again = FALSE, !.followed = @ \cup {c}]
    BY <2>1, <2>2 DEF StOK, Fields
  <2>3. CASE st' = Over(st)
    BY <2>3, OverOK
  <2> QED
    BY <1>8, <2>2, <2>3 DEF NextPage
<1> QED
  BY <1>1, <1>2, <1>3, <1>4, <1>5, <1>6, <1>7, <1>8 DEF Step

CatOK == DOMAIN catalog = {"server", "dns", "secret", "mapping"} /\ catalog.dns \in BOOLEAN

StatementInv == StOK(st) /\ CatOK

\* No statement runs at first.
LEMMA InitStatement == Init => StatementInv
<1> SUFFICES ASSUME Init PROVE StatementInv
  OBVIOUS
<1>1. StOK(st)
  BY OverOK DEF Init
<1>2. CatOK
  BY DEF Init, CatOK
<1> QED
  BY <1>1, <1>2 DEF StatementInv

\* Every step keeps the statement as StOK says.
LEMMA NextStatement == StatementInv /\ [Next]_vars => StatementInv'
<1> SUFFICES ASSUME StatementInv, [Next]_vars PROVE StatementInv'
  OBVIOUS
<1>0. StOK(st) /\ CatOK /\ catalog.dns \in BOOLEAN
  BY DEF StatementInv, CatOK
<1>1. ASSUME NEW u \in Users, NEW k \in Kinds, NEW ttl \in TableTtls \cup {NoTtl},
             Begin(u, k, ttl)
      PROVE  StatementInv'
  <2>1. StOK(st')
    BY <1>0, <1>1, BeginOK
  <2>2. catalog' = catalog
    BY <1>1 DEF Begin
  <2> QED
    BY <1>0, <2>1, <2>2 DEF StatementInv, CatOK
<1>2. CASE BackendExit \/ \E u \in Users : refresh(u)
  <2>1. st.stage = "idle" /\ st' = [st EXCEPT !.count = @ + 1] /\ catalog' = catalog
    BY <1>2 DEF BackendExit, refresh
  <2>2. StOK(st')
    BY <1>0, <2>1 DEF StOK, Fields
  <2> QED
    BY <1>0, <2>1, <2>2 DEF StatementInv, CatOK
<1>3. CASE Step
  <2>1. StOK(st')
    BY <1>0, <1>3, StepOK
  <2>2. catalog' = catalog
    BY <1>3, Zenon DEF Step, SendInitialize, SendInitialized, SendRequest, LookUp, ScanFromCache,
                StartRequest, LastPage, PlanTool, EndStatement, NextPage
  <2> QED
    BY <1>0, <2>1, <2>2 DEF StatementInv, CatOK
<1>4. CASE World
  <2>1. CASE Cancel
    BY <1>0, <2>1, OverOK DEF Cancel, StatementInv, CatOK
  <2>2. CASE Expire \/ Change(MaxVersion) \/ Tick
    <3>1. st' = st /\ catalog' = catalog
      BY <2>2 DEF Expire, Change, Tick, connVars
    <3> QED
      BY <1>0, <3>1 DEF StatementInv, CatOK
  <2>3. CASE Alter
    <3>1. st' = st
      BY <2>3 DEF Alter
    <3>2. \/ \E o : catalog' = [catalog EXCEPT !.server = o]
          \/ \E m : catalog' = [catalog EXCEPT !.mapping = m]
          \/ catalog' = [catalog EXCEPT !.dns = ~catalog.dns]
          \/ \E b : catalog' = [catalog EXCEPT !.secret = b]
      BY <2>3 DEF Alter, AlterServer, DropServer, AlterMapping, DropMapping, Resolver
    <3>3. CatOK'
      BY <1>0, <3>2, Zenon DEF CatOK
    <3> QED
      BY <1>0, <3>1, <3>3 DEF StatementInv
  <2> QED
    BY <1>4, <2>1, <2>2, <2>3 DEF World
<1>5. CASE UNCHANGED vars
  BY <1>0, <1>5 DEF StatementInv, CatOK, vars, connVars
<1> QED
  BY <1>1, <1>2, <1>3, <1>4, <1>5 DEF Next

\* Whatever the faults, expiries, cancels and catalog changes, a statement has its
\* tool call carried out at most once, or twice when the server carried it out and
\* answered in the words of an expired session; and a call that succeeded was
\* carried out (request, exchange_checked).
THEOREM CalledOnce == Spec => []CallsOnce
<1>1. StatementInv => CallsOnce
  <2> SUFFICES ASSUME StatementInv PROVE CallsOnce
    OBVIOUS
  <2>1. StOK(st)
    BY DEF StatementInv
  <2>2. ASSUME st.ran > 1 PROVE st.ran = 2 /\ st.misread
    <3>1. /\ st.stage \in {"idle", "lookup", "ready", "planned"} => st.ran = 0
          /\ st.stage \in {"init", "note", "try"} => st.ran \in {0, 1}
          /\ st.stage = "answered" => st.ran \in {0, 1} \/ (st.ran = 2 /\ st.misread = TRUE)
      BY <2>1 DEF StOK
    <3> QED
      BY <2>1, <2>2, <3>1 DEF StOK
  <2>3. st.stage = "answered" /\ st.phase = "call" /\ st.out = "Ok" => st.ran >= 1
    BY <2>1 DEF StOK
  <2> QED
    BY <2>2, <2>3 DEF CallsOnce
<1> QED
  BY <1>1, InitStatement, NextStatement, PTL DEF Spec

\* Whatever a DBA sets and whatever the resolver answers later, a statement speaks
\* clear text only to a host that was loopback when it began (resolve).
THEOREM ClearToLoopback == Spec => []ClearOnlyToLoopback
<1>1. StatementInv => ClearOnlyToLoopback
  BY DEF StatementInv, StOK, ClearOnlyToLoopback
<1> QED
  BY <1>1, InitStatement, NextStatement, PTL DEF Spec

-----------------------------------------------------------------------------
(* Sessions: whose they are and how often they were initialized. *)

\* A session of role u, given the sessions S that servers have issued.
SessOK(z, u, S) ==
    /\ DOMAIN z = {"url", "sid", "changed", "inits", "gone", "told"}
    /\ z.inits \in Nat /\ z.gone \in Nat /\ z.inits <= 1 + z.gone
    /\ z.sid = 0 \/ \E s \in S : s.sid = z.sid /\ s.url = z.url /\ s.user = u

MapOK(f, S) == DOMAIN f = Users /\ \A u \in Users : SessOK(f[u], u, S)

\* The session in hand is one for the statement's URL; one that is to be
\* initialized has been disowned as often as it was initialized.
HeldOK(s, S) ==
    /\ s.stage # "idle" => s.user \in Users
    /\ s.stage \in {"init", "note", "ready", "try", "answered"}
         => SessOK(s.sess, s.user, S) /\ s.sess.url = s.url
    /\ s.stage = "init" => s.sess.sid = 0 /\ s.sess.inits <= s.sess.gone

\* Servers forget no session they issued, they only end it.
Grows(S, T) == \A s \in S : \E t \in T : t.sid = s.sid /\ t.url = s.url /\ t.user = s.user

SessInv == StOK(st) /\ MapOK(sessions, served) /\ HeldOK(st, served)

\* A session stays its role's as more sessions are issued and some end.
LEMMA GrowsOK ==
    ASSUME NEW S, NEW T, Grows(S, T)
    PROVE  /\ \A z, u : SessOK(z, u, S) => SessOK(z, u, T)
           /\ \A f : MapOK(f, S) => MapOK(f, T)
           /\ \A s : HeldOK(s, S) => HeldOK(s, T)
<1>1. \A z, u : SessOK(z, u, S) => SessOK(z, u, T)
  <2> TAKE z, u
  <2> HAVE SessOK(z, u, S)
  <2>1. z.sid = 0 \/ \E t \in T : t.sid = z.sid /\ t.url = z.url /\ t.user = u
    BY DEF SessOK, Grows
  <2> QED
    BY <2>1 DEF SessOK
<1>2. \A f : MapOK(f, S) => MapOK(f, T)
  BY <1>1 DEF MapOK
<1>3. \A s : HeldOK(s, S) => HeldOK(s, T)
  BY <1>1 DEF HeldOK
<1> QED
  BY <1>1, <1>2, <1>3

\* No session, and one about to be opened.
LEMMA NoSessionOK ==
    /\ \A u, S : SessOK(NoSession, u, S)
    /\ \A u, S, url : /\ SessOK([NoSession EXCEPT !.url = url], u, S)
                      /\ [NoSession EXCEPT !.url = url].url = url
                      /\ [NoSession EXCEPT !.url = url].sid = 0
                      /\ [NoSession EXCEPT !.url = url].inits = 0
                      /\ [NoSession EXCEPT !.url = url].gone = 0
BY DEF SessOK, NoSession

\* A statement that is over holds none.
LEMMA OverHeld == \A S : HeldOK(Statement0, S) /\ \A s : HeldOK(Over(s), S)
<1>1. Statement0.stage = "idle" /\ \A s : Over(s).stage = "idle"
  BY DEF Statement0, Over
<1> QED
  BY <1>1 DEF HeldOK

\* Putting a session into the map under its role.
LEMMA PutOK ==
    ASSUME NEW f, NEW S, MapOK(f, S), NEW u, NEW z, u \in Users => SessOK(z, u, S)
    PROVE  MapOK([f EXCEPT ![u] = z], S)
BY DEF MapOK

\* Ending with_session.
LEMMA ReturnedOK ==
    ASSUME MapOK(sessions, served), HeldOK(st, served), NEW out,
           st.stage \in {"ready", "answered"}
    PROVE  MapOK(Returned(st, out), served)
<1>1. SessOK(st.sess, st.user, served)
  BY DEF HeldOK
<1>2. SessOK(NoSession, st.user, served)
  BY NoSessionOK
<1> QED
  BY <1>1, <1>2, PutOK DEF Returned

\* Entering with_session: a cached session is taken only for its own URL.
LEMMA EnterHeld ==
    ASSUME MapOK(sessions, served), NEW u \in Users, NEW s, DOMAIN s = Fields, s.user = u
    PROVE  HeldOK(Enter(s, u), served)
<1> DEFINE old == [s EXCEPT !.stage = "ready", !.sess = sessions[u], !.again = FALSE]
           z == [NoSession EXCEPT !.url = s.url]
           new == [s EXCEPT !.stage = "init", !.opening = TRUE, !.again = FALSE, !.sess = z]
<1>1. CASE sessions[u].inits # 0 /\ sessions[u].url = s.url
  <2>1. old.stage = "ready" /\ old.user = u /\ old.sess = sessions[u] /\ old.url = s.url
    BY DEF Fields
  <2>2. Enter(s, u) = old
    BY <1>1 DEF Enter
  <2>3. SessOK(sessions[u], u, served)
    BY DEF MapOK
  <2> HIDE DEF old
  <2> QED
    BY <1>1, <2>1, <2>2, <2>3 DEF HeldOK
<1>2. CASE ~(sessions[u].inits # 0 /\ sessions[u].url = s.url)
  <2>1. Enter(s, u) = new
    BY <1>2 DEF Enter
  <2>2. SessOK(z, u, served) /\ z.url = s.url /\ z.sid = 0 /\ z.inits = 0 /\ z.gone = 0
    BY NoSessionOK, Zenon
  <2> HIDE DEF z
  <2>3. new.stage = "init" /\ new.user = u /\ new.sess = z /\ new.url = s.url
    BY DEF Fields
  <2> HIDE DEF new
  <2> QED
    BY <2>1, <2>2, <2>3 DEF HeldOK
<1> QED
  BY <1>1, <1>2

\* initialize issues a session to the role at the statement's URL.
LEMMA InitializeHeld ==
    ASSUME SessInv, SendInitialize
    PROVE  MapOK(sessions', served') /\ HeldOK(st', served')
<1> DEFINE sid == Cardinality(served) + 1
           issued == [sid |-> sid, url |-> st.url, user |-> st.user, alive |-> TRUE]
<1>1. st.stage = "init" /\ sessions' = sessions
  BY DEF SendInitialize
<1>2. PICK a \in InitAnswers :
        /\ served' = IF exchange(a.h) = "Ok" THEN served \cup {issued} ELSE served
        /\ st' = IF exchange(a.h) = "Ok"
                 THEN [st EXCEPT !.stage = "note",
                         !.sess.sid = IF dispatch(a.h) = "Json" THEN sid ELSE 0,
                         !.sess.inits = @ + 1]
                 ELSE IF st.opening THEN Over(st)
                 ELSE [st EXCEPT !.stage = "answered", !.out = exchange(a.h)]
  BY Zenon DEF SendInitialize
<1>3. MapOK(sessions, served) /\ HeldOK(st, served) /\ DOMAIN st = Fields
  BY DEF SessInv, StOK
<1>4. Grows(served, served')
  BY <1>2 DEF Grows
<1>5. MapOK(sessions', served') /\ HeldOK(st, served')
  BY <1>1, <1>3, <1>4, GrowsOK
<1>6. HeldOK(st', served')
  <2> DEFINE n == IF dispatch(a.h) = "Json" THEN sid ELSE 0
             z == [[st.sess EXCEPT !.sid = n] EXCEPT !.inits = @ + 1]
  <2>1. CASE exchange(a.h) = "Ok"
    <3>1. /\ SessOK(st.sess, st.user, served') /\ st.sess.url = st.url /\ st.user \in Users
          /\ st.sess.inits <= st.sess.gone
      BY <1>1, <1>5 DEF HeldOK
    <3>2. issued \in served' /\ issued.sid = sid /\ issued.url = st.url /\ issued.user = st.user
      BY <1>2, <2>1
    <3>3. n = 0 \/ n = sid
      OBVIOUS
    <3>4. st'.stage = "note" /\ st'.sess = z /\ st'.url = st.url /\ st'.user = st.user
      <4>1. st' = [st EXCEPT !.stage = "note", !.sess.sid = n, !.sess.inits = @ + 1]
        BY <1>2, <2>1
      <4> HIDE DEF n
      <4> QED
        BY <1>3, <4>1 DEF Fields
    <3> HIDE DEF sid, issued, n
    <3>5. /\ DOMAIN z = {"url", "sid", "changed", "inits", "gone", "told"} /\ z.sid = n
          /\ z.inits = st.sess.inits + 1 /\ z.gone = st.sess.gone /\ z.url = st.url
      BY <3>1 DEF SessOK
    <3> HIDE DEF z
    <3>6. z.inits \in Nat /\ z.gone \in Nat /\ z.inits <= 1 + z.gone
      BY <3>1, <3>5 DEF SessOK
    <3>7. z.sid = 0 \/ \E s \in served' : s.sid = z.sid /\ s.url = z.url /\ s.user = st.user
      BY <3>2, <3>3, <3>5
    <3>8. SessOK(z, st.user, served')
      BY <3>5, <3>6, <3>7 DEF SessOK
    <3> QED
      BY <3>1, <3>4, <3>5, <3>8 DEF HeldOK
  <2>2. CASE exchange(a.h) # "Ok" /\ st.opening
    BY <1>2, <2>2, OverHeld
  <2>3. CASE exchange(a.h) # "Ok" /\ ~st.opening
    <3>1. st' = [st EXCEPT !.stage = "answered", !.out = exchange(a.h)]
      BY <1>2, <2>3
    <3>2. st'.stage = "answered" /\ st'.sess = st.sess /\ st'.url = st.url /\ st'.user = st.user
      BY <1>3, <3>1 DEF Fields
    <3> QED
      BY <1>1, <1>5, <3>2 DEF HeldOK
  <2> QED
    BY <2>1, <2>2, <2>3
<1> QED
  BY <1>5, <1>6

\* A refused request leaves the session without id, disowned once more.
LEMMA RequestHeld ==
    ASSUME SessInv, SendRequest
    PROVE  HeldOK(st', served)
<1>1. /\ st.stage = "try" /\ DOMAIN st = Fields /\ HeldOK(st, served)
      /\ SessOK(st.sess, st.user, served) /\ st.sess.url = st.url /\ st.user \in Users
  BY DEF SendRequest, SessInv, StOK, HeldOK
<1>2. PICK a \in RequestAnswers(st.url, st.sess.sid, st.user) :
        st' = AfterTry(
                  [Observe(st, a.h) EXCEPT
                     !.ran = IF st.phase = "call" /\ a.ran THEN @ + 1 ELSE @,
                     !.misread = @ \/ (st.phase = "call" /\ a.ran
                                        /\ (a.h.status = 404 \/ is_expired_session(a.h.msg))),
                     !.expired = ~st.again /\ (a.h.status = 404 \/ is_expired_session(a.h.msg)),
                     !.sess.gone = IF a.h.status = 404 \/ is_expired_session(a.h.msg)
                                   THEN @ + 1 ELSE @,
                     !.lo = IF st.followed = {} THEN ver ELSE @],
                  exchange_checked(a.h))
  BY Zenon DEF SendRequest
<1> DEFINE e == exchange_checked(a.h)
           gone == a.h.status = 404 \/ is_expired_session(a.h.msg)
           o == Observe(st, a.h)
           z == [o.sess EXCEPT !.gone = IF gone THEN @ + 1 ELSE @]
<1>3. /\ DOMAIN o = Fields /\ o.stage = "try" /\ o.url = st.url /\ o.user = st.user
      /\ DOMAIN o.sess = DOMAIN st.sess /\ o.sess.url = st.sess.url /\ o.sess.sid = st.sess.sid
      /\ o.sess.inits = st.sess.inits /\ o.sess.gone = st.sess.gone
  <2>1. o = st \/ o = [st EXCEPT !.sess.changed = TRUE, !.sess.told = ver]
    BY DEF Observe
  <2> HIDE DEF o
  <2>2. CASE o = st
    BY <1>1, <2>2
  <2>3. CASE o = [st EXCEPT !.sess.changed = TRUE, !.sess.told = ver]
    <3>1. /\ DOMAIN o = Fields /\ o.stage = "try" /\ o.url = st.url /\ o.user = st.user
          /\ o.sess = [[st.sess EXCEPT !.changed = TRUE] EXCEPT !.told = ver]
      BY <1>1, <2>3 DEF Fields
    <3> QED
      BY <1>1, <3>1 DEF SessOK
  <2> QED
    BY <2>1, <2>2, <2>3
<1>4. PICK s : /\ st' = AfterTry(s, e)
               /\ DOMAIN s = Fields /\ s.url = st.url /\ s.user = st.user /\ s.sess = z
  <2> DEFINE s == [o EXCEPT
                     !.ran = IF st.phase = "call" /\ a.ran THEN @ + 1 ELSE @,
                     !.misread = @ \/ (st.phase = "call" /\ a.ran /\ gone),
                     !.expired = ~st.again /\ gone,
                     !.sess.gone = IF gone THEN @ + 1 ELSE @,
                     !.lo = IF st.followed = {} THEN ver ELSE @]
  <2>1. st' = AfterTry(s, e)
    BY <1>2
  <2> HIDE DEF gone, o
  <2>2. DOMAIN s = Fields /\ s.url = st.url /\ s.user = st.user /\ s.sess = z
    BY <1>3 DEF Fields
  <2> HIDE DEF s
  <2> QED
    BY <2>1, <2>2
<1>5. e = "Gone" => gone
  BY GoneIsSaid
<1> HIDE DEF e, gone, o
<1>6. /\ DOMAIN z = {"url", "sid", "changed", "inits", "gone", "told"}
      /\ z.url = st.url /\ z.sid = st.sess.sid /\ z.inits = st.sess.inits
      /\ z.gone = IF gone THEN st.sess.gone + 1 ELSE st.sess.gone
  BY <1>1, <1>3 DEF SessOK
<1> HIDE DEF z
<1>7. SessOK(z, st.user, served) /\ (gone => z.inits <= z.gone)
  BY <1>1, <1>6 DEF SessOK
<1>8. CASE e = "Gone" /\ ~s.again
  <2>1. st' = [s EXCEPT !.stage = "init", !.again = TRUE, !.sess.sid = 0]
    BY <1>4, <1>8 DEF AfterTry
  <2> DEFINE y == [z EXCEPT !.sid = 0]
  <2>2. st'.stage = "init" /\ st'.user = st.user /\ st'.url = st.url /\ st'.sess = y
    BY <1>4, <2>1 DEF Fields
  <2>3. SessOK(y, st.user, served) /\ y.url = st.url /\ y.sid = 0 /\ y.inits <= y.gone
    BY <1>5, <1>6, <1>7, <1>8 DEF SessOK
  <2> HIDE DEF y
  <2> QED
    BY <1>1, <2>2, <2>3 DEF HeldOK
<1>9. CASE ~(e = "Gone" /\ ~s.again)
  <2>1. st' = [s EXCEPT !.stage = "answered", !.out = IF e = "Gone" THEN "Transport" ELSE e]
    BY <1>4, <1>9 DEF AfterTry
  <2>2. st'.stage = "answered" /\ st'.user = st.user /\ st'.url = st.url /\ st'.sess = z
    BY <1>4, <2>1 DEF Fields
  <2> QED
    BY <1>1, <1>6, <1>7, <2>2 DEF HeldOK
<1> QED
  BY <1>8, <1>9

\* The steps of a statement.
LEMMA StepHeld ==
    ASSUME SessInv, Step
    PROVE  MapOK(sessions', served') /\ HeldOK(st', served')
<1>0. /\ MapOK(sessions, served) /\ HeldOK(st, served) /\ DOMAIN st = Fields
      /\ st.stage # "idle" => st.user \in Users
  BY DEF SessInv, StOK, HeldOK
<1>1. CASE SendInitialize
  BY <1>1, InitializeHeld
<1>2. CASE SendInitialized
  <2>1. st.stage = "note" /\ sessions' = sessions /\ served' = served
    BY <1>2 DEF SendInitialized
  <2>2. \/ \E x : st' = [st EXCEPT !.stage = x, !.opening = FALSE] /\ x \in {"ready", "try"}
        \/ st' = Over(st)
        \/ \E e : st' = [st EXCEPT !.stage = "answered", !.out = e]
    BY <1>2, Zenon DEF SendInitialized
  <2>3. CASE st' = Over(st)
    BY <1>0, <2>1, <2>3, OverHeld
  <2>4. CASE st' # Over(st)
    <3>1. st'.stage \in {"ready", "try", "answered"} /\ st'.sess = st.sess /\ st'.url = st.url
          /\ st'.user = st.user
      BY <1>0, <2>2, <2>4, Zenon DEF Fields
    <3> QED
      BY <1>0, <2>1, <3>1 DEF HeldOK
  <2> QED
    BY <2>3, <2>4
<1>3. CASE SendRequest
  BY <1>0, <1>3, RequestHeld, Zenon DEF SendRequest
<1>4. CASE LookUp
  <2>1. st.stage = "lookup" /\ served' = served /\ st.user \in Users
    BY <1>0, <1>4 DEF LookUp
  <2>2. CASE sessions' = sessions /\ \E x, y : st' = [st EXCEPT !.stage = "planned", !.lo = x, !.answer = y]
    <3>1. st'.stage = "planned" /\ st'.user = st.user
      BY <1>0, <2>2 DEF Fields
    <3> QED
      BY <1>0, <2>1, <2>2, <3>1 DEF HeldOK
  <2>3. CASE st' = Enter(st, st.user) /\ sessions' = [sessions EXCEPT ![st.user] = NoSession]
    <3>1. HeldOK(st', served)
      BY <1>0, <2>1, <2>3, EnterHeld
    <3>2. MapOK(sessions', served)
      BY <1>0, <2>3, PutOK, NoSessionOK, Zenon
    <3> QED
      BY <2>1, <3>1, <3>2
  <2> QED
    BY <1>4, <2>2, <2>3, Zenon DEF LookUp
<1>5. CASE ScanFromCache
  <2>1. /\ st.stage = "ready" /\ served' = served /\ sessions' = Returned(st, "Ok")
        /\ \E x : st' = [Over(st) EXCEPT !.answer = x]
    BY <1>5, Zenon DEF ScanFromCache
  <2>2. st'.stage = "idle"
    BY <2>1 DEF Over, Statement0
  <2> QED
    BY <1>0, <2>1, <2>2, ReturnedOK DEF HeldOK
<1>6. CASE StartRequest
  <2>1. /\ st.stage = "ready" /\ served' = served /\ sessions' = sessions
        /\ st' = [TakeFlag(st).s EXCEPT !.stage = "try", !.told = st.sess.told]
    BY <1>6 DEF StartRequest
  <2> DEFINE t == TakeFlag(st).s
  <2>2. t = st \/ t = [st EXCEPT !.sess.changed = FALSE]
    BY DEF TakeFlag
  <2>3. SessOK(st.sess, st.user, served) /\ st.sess.url = st.url /\ st.user \in Users
    BY <1>0, <2>1 DEF HeldOK
  <2> HIDE DEF t
  <2>4. /\ DOMAIN t = Fields /\ t.user = st.user /\ t.url = st.url
        /\ t.sess = st.sess \/ t.sess = [st.sess EXCEPT !.changed = FALSE]
    BY <1>0, <2>2, Zenon DEF Fields
  <2>5. SessOK(t.sess, st.user, served) /\ t.sess.url = st.url
    BY <2>3, <2>4 DEF SessOK
  <2>6. st'.stage = "try" /\ st'.sess = t.sess /\ st'.url = st.url /\ st'.user = st.user
    BY <2>1, <2>4 DEF t, Fields
  <2> QED
    BY <1>0, <2>1, <2>3, <2>5, <2>6 DEF HeldOK
<1>7. CASE LastPage
  <2>1. st.stage = "answered" /\ served' = served /\ sessions' = Returned(st, "Ok")
    BY <1>7 DEF LastPage
  <2>2. CASE st' = [st EXCEPT !.stage = "planned", !.sess = NoSession, !.followed = {},
                              !.again = FALSE, !.answer = st.lo]
    <3>1. st'.stage = "planned" /\ st'.user = st.user
      BY <1>0, <2>2 DEF Fields
    <3> QED
      BY <1>0, <2>1, <3>1, ReturnedOK DEF HeldOK
  <2>3. CASE st' = [Over(st) EXCEPT !.answer = st.lo]
    <3>1. st'.stage = "idle"
      BY <2>3 DEF Over, Statement0
    <3> QED
      BY <1>0, <2>1, <3>1, ReturnedOK DEF HeldOK
  <2> QED
    BY <1>7, <2>2, <2>3 DEF LastPage
<1>8. CASE PlanTool
  <2> DEFINE s == [st EXCEPT !.phase = "call"]
  <2>1. st.stage = "planned" /\ served' = served /\ st.user \in Users
    BY <1>0, <1>8 DEF PlanTool
  <2>2. DOMAIN s = Fields /\ s.user = st.user
    BY <1>0 DEF Fields
  <2>3. \/ st' = Over(st) /\ sessions' = sessions
        \/ st' = Enter(s, st.user) /\ sessions' = [sessions EXCEPT ![st.user] = NoSession]
    BY <1>8 DEF PlanTool
  <2> HIDE DEF s
  <2>4. CASE st' = Over(st) /\ sessions' = sessions
    BY <1>0, <2>1, <2>4, OverHeld
  <2>5. CASE st' = Enter(s, st.user) /\ sessions' = [sessions EXCEPT ![st.user] = NoSession]
    <3>1. HeldOK(st', served)
      BY <1>0, <2>1, <2>2, <2>5, EnterHeld
    <3>2. MapOK(sessions', served)
      BY <1>0, <2>5, PutOK, NoSessionOK, Zenon
    <3> QED
      BY <2>1, <3>1, <3>2
  <2> QED
    BY <2>3, <2>4, <2>5
<1>9. CASE EndStatement
  <2>1. st.stage = "answered" /\ served' = served /\ st' = Over(st)
        /\ sessions' = Returned(st, st.out)
    BY <1>9 DEF EndStatement
  <2> QED
    BY <1>0, <2>1, ReturnedOK, OverHeld
<1>10. ASSUME NEW c \in 1 .. MAX_LIST_PAGES, NextPage(c)
       PROVE  MapOK(sessions', served') /\ HeldOK(st', served')
  <2>1. st.stage = "answered" /\ served' = served
    BY <1>10 DEF NextPage
  <2>2. CASE /\ st' = [st EXCEPT !.stage = "try", !.again = FALSE, !.followed = @ \cup {c}]
             /\ sessions' = sessions
    <3>1. st'.stage = "try" /\ st'.sess = st.sess /\ st'.url = st.url /\ st'.user = st.user
      BY <1>0, <2>2 DEF Fields
    <3> QED
      BY <1>0, <2>1, <2>2, <3>1 DEF HeldOK
  <2>3. CASE st' = Over(st) /\ sessions' = Returned(st, "Transport")
    BY <1>0, <2>1, <2>3, ReturnedOK, OverHeld
  <2> QED
    BY <1>10, <2>2, <2>3 DEF NextPage
<1> QED
  BY <1>1, <1>2, <1>3, <1>4, <1>5, <1>6, <1>7, <1>8, <1>9, <1>10 DEF Step

\* No role has a session at first.
LEMMA InitHeld == Init => SessInv
<1> SUFFICES ASSUME Init PROVE SessInv
  OBVIOUS
<1>1. MapOK(sessions, served)
  BY NoSessionOK DEF Init, MapOK
<1>2. StOK(st) /\ HeldOK(st, served)
  BY OverOK, OverHeld DEF Init
<1> QED
  BY <1>1, <1>2 DEF SessInv

\* Every step keeps every session its role's.
LEMMA NextHeld == SessInv /\ StatementInv' /\ [Next]_vars => SessInv'
<1> SUFFICES ASSUME SessInv, StatementInv', [Next]_vars PROVE SessInv'
  OBVIOUS
<1>0. /\ MapOK(sessions, served) /\ HeldOK(st, served) /\ DOMAIN st = Fields
  BY DEF SessInv, StOK
<1>a. StOK(st')
  BY DEF StatementInv
<1> SUFFICES MapOK(sessions', served') /\ HeldOK(st', served')
  BY <1>a DEF SessInv
<1>1. ASSUME NEW u \in Users, NEW k \in Kinds, NEW ttl \in TableTtls \cup {NoTtl},
             Begin(u, k, ttl)
      PROVE  MapOK(sessions', served') /\ HeldOK(st', served')
  <2> DEFINE r == resolve(u)
             s == [Statement0 EXCEPT !.stage = "lookup", !.user = u, !.kind = k,
                     !.floor = ver, !.count = st.count + 1, !.url = r.url,
                     !.phase = IF k = "call" THEN "call" ELSE "list",
                     !.loop = is_loopback(r.url, catalog.dns),
                     !.ttl = IF Uncached(k) THEN 0
                             ELSE IF ttl \in TableTtls THEN ttl ELSE r.ttl]
  <2>1. served' = served /\ st.stage = "idle"
    BY <1>1 DEF Begin
  <2>2. DOMAIN s = Fields /\ s.stage = "lookup" /\ s.user = u
    BY Zenon DEF Statement0, Fields
  <2>3. \/ st' = [st EXCEPT !.count = st.count + 1] /\ sessions' = sessions
        \/ st' = s /\ sessions' = sessions
        \/ st' = Enter(s, u) /\ sessions' = [sessions EXCEPT ![u] = NoSession]
    BY <1>1 DEF Begin
  <2> HIDE DEF s
  <2>4. CASE st' = [st EXCEPT !.count = st.count + 1] /\ sessions' = sessions
    <3>1. st'.stage = "idle"
      BY <1>0, <2>1, <2>4 DEF Fields
    <3> QED
      BY <1>0, <2>1, <2>4, <3>1 DEF HeldOK
  <2>5. CASE st' = s /\ sessions' = sessions
    BY <1>0, <2>1, <2>2, <2>5 DEF HeldOK
  <2>6. CASE st' = Enter(s, u) /\ sessions' = [sessions EXCEPT ![u] = NoSession]
    <3>1. HeldOK(Enter(s, u), served)
      BY <1>0, <2>2, EnterHeld
    <3>2. MapOK(sessions', served)
      BY <1>0, <2>6, PutOK, NoSessionOK, Zenon
    <3> QED
      BY <2>1, <2>6, <3>1, <3>2
  <2> QED
    BY <2>3, <2>4, <2>5, <2>6
<1>2. CASE BackendExit \/ \E u \in Users : refresh(u)
  <2>1. st.stage = "idle" /\ st' = [st EXCEPT !.count = @ + 1] /\ served' = served
    BY <1>2 DEF BackendExit, refresh
  <2>2. st'.stage = "idle"
    BY <1>0, <2>1 DEF Fields
  <2>3. \/ sessions' = [u \in Users |-> NoSession]
        \/ sessions' = sessions
        \/ \E u \in Users : sessions' = [sessions EXCEPT ![u] = NoSession]
    BY <1>2 DEF BackendExit, refresh
  <2>4. MapOK([u \in Users |-> NoSession], served)
    BY NoSessionOK DEF MapOK
  <2>5. \A u \in Users : MapOK([sessions EXCEPT ![u] = NoSession], served)
    BY <1>0, PutOK, NoSessionOK
  <2>6. MapOK(sessions', served)
    BY <1>0, <2>3, <2>4, <2>5
  <2> QED
    BY <2>1, <2>2, <2>6 DEF HeldOK
<1>3. CASE Step
  BY <1>3, StepHeld
<1>4. CASE World
  <2>1. CASE Cancel
    BY <1>0, <2>1, OverHeld DEF Cancel
  <2>2. CASE Expire
    <3>1. Grows(served, served') /\ sessions' = sessions /\ st' = st
      <4>1. PICK s \in served : served' = (served \ {s}) \cup {[s EXCEPT !.alive = FALSE]}
        BY <2>2 DEF Expire
      <4>2. [s EXCEPT !.alive = FALSE].sid = s.sid /\ [s EXCEPT !.alive = FALSE].url = s.url
            /\ [s EXCEPT !.alive = FALSE].user = s.user
        OBVIOUS
      <4> QED
        BY <2>2, <4>1, <4>2, Zenon DEF Expire, Grows
    <3> QED
      BY <1>0, <3>1, GrowsOK
  <2>3. CASE Change(MaxVersion) \/ Tick \/ Alter
    BY <1>0, <2>3 DEF Change, Tick, Alter, connVars
  <2> QED
    BY <1>4, <2>1, <2>2, <2>3 DEF World
<1>5. CASE UNCHANGED vars
  BY <1>0, <1>5 DEF vars, connVars
<1> QED
  BY <1>1, <1>2, <1>3, <1>4, <1>5 DEF Next

\* A request carries only a session id that the server at the statement's URL
\* issued to the statement's role (with_session, SessionKey).
THEOREM SessionIsOwn == Spec => []OwnSession
<1>1. SessInv => OwnSession
  BY DEF SessInv, HeldOK, SessOK, OwnSession, Issued
<1> QED
  BY <1>1, InitHeld, NextHeld, InitStatement, NextStatement, PTL DEF Spec

\* A session is initialized once, and once more only for each time a server
\* disowned it (with_session, request).
THEOREM SessionOnce == Spec => []InitializedOnce
<1>1. SessInv => InitializedOnce
  BY DEF SessInv, MapOK, SessOK, InitializedOnce, initialize_count
<1> QED
  BY <1>1, InitHeld, NextHeld, InitStatement, NextStatement, PTL DEF Spec

-----------------------------------------------------------------------------
(* Readers: what a statement may be answered with. *)

Entry == [full : BOOLEAN, at : Nat, ver : Nat]

\* A page of the list has been asked for.
Asked(s) == s.stage = "answered" \/ s.followed # {} \/ s.again = TRUE

\* Until then nothing is known of the list; afterwards it is one the server had
\* since the statement began, no older than what the session had been told when
\* the request started, nor than what it is told of by a flag no longer set.
ReaderOK(s, v) ==
    /\ s.floor \in Nat /\ s.floor <= v /\ s.told \in Nat /\ s.told <= v
    /\ s.stage = "idle" => s.floor = 0 /\ s.ttl = 0
    /\ s.stage # "idle" => s.kind \in Kinds
    /\ s.phase = "list" =>
         /\ s.stage \in {"lookup", "ready"} \/ s.opening = TRUE => ~Asked(s)
         /\ s.stage \in {"init", "note"} => s.opening = TRUE \/ s.again = TRUE
         /\ Asked(s) => /\ s.lo \in Nat /\ s.floor <= s.lo /\ s.lo <= v /\ s.told <= s.lo
                        /\ s.sess.changed = FALSE => s.sess.told <= s.lo

\* A session whose flag is not set has been told of no change that came after
\* the tools its role has cached (e).
Heard(z, e, v) ==
    /\ z.told \in Nat /\ z.changed \in BOOLEAN /\ z.told <= v
    /\ z.changed = FALSE /\ e.full = TRUE => z.told <= e.ver

AllHeard(f, c, v) == \A u \in Users : Heard(f[u], c[u]["tools"], v)

Holding == {"init", "note", "ready", "try", "answered"}

HeldHeard(s, c, v) == s.stage \in Holding => Heard(s.sess, c[s.user]["tools"], v)

TypesOK ==
    /\ ver \in Nat /\ clock \in Nat
    /\ cache \in [Users -> [Slices -> Entry]]
    /\ catalog.server \in FirstServers \cup ServerChoices \cup {<<>>}

ReaderInv ==
    TypesOK /\ ReaderOK(st, ver) /\ AllHeard(sessions, cache, ver) /\ HeldHeard(st, cache, ver)

\* What a step may assume, and what it keeps.
ReadInv == SessInv /\ ReaderInv

\* A step of the readers' contract, or none.
Promised == Readers!CacheNext \/ UNCHANGED Readers!cacheVars

-----------------------------------------------------------------------------
\* A statement that goes on without an answer changes nothing for the readers.
LEMMA GoesOn ==
    ASSUME UNCHANGED <<clock, ver, cache>>,
           st'.floor = st.floor, st'.ttl = st.ttl, st'.answer = st.answer,
           st'.stage = "idle" <=> st.stage = "idle"
    PROVE  Promised
<1>1. (st'.stage # "idle") <=> (st.stage # "idle")
  OBVIOUS
<1>2. [on |-> st'.stage # "idle", floor |-> st'.floor, ttl |-> st'.ttl]
        = [on |-> st.stage # "idle", floor |-> st.floor, ttl |-> st.ttl]
  BY <1>1
<1> QED
  BY <1>2 DEF Promised, Readers!cacheVars

\* A statement that is over leaves no reader behind, and no new answer.
LEMMA OverReader ==
    ASSUME NEW s, NEW v \in Nat
    PROVE  /\ ReaderOK(Over(s), v)
           /\ Over(s).stage = "idle" /\ Over(s).floor = 0 /\ Over(s).ttl = 0
           /\ Over(s).answer = s.answer
BY DEF Over, Statement0, ReaderOK

LEMMA ReaderGone ==
    ASSUME NEW s, s.stage = "idle", s.floor = 0, s.ttl = 0
    PROVE  [on |-> s.stage # "idle", floor |-> s.floor, ttl |-> s.ttl] = Readers!NoReader
BY Zenon DEF Readers!NoReader

LEMMA Ends ==
    ASSUME UNCHANGED <<clock, ver, cache>>, st' = Over(st)
    PROVE  Promised
<1>1. /\ st'.stage = "idle" /\ st'.floor = 0 /\ st'.ttl = 0 /\ st'.answer = st.answer
  BY DEF Over, Statement0
<1>2. [on |-> st'.stage # "idle", floor |-> st'.floor, ttl |-> st'.ttl] = Readers!NoReader
  BY <1>1, ReaderGone
<1>3. Readers!End
  BY <1>1, <1>2 DEF Readers!End
<1> QED
  BY <1>3 DEF Promised, Readers!CacheNext

\* A session that was never told of anything.
LEMMA NewHeard ==
    \A e, v : v \in Nat /\ e \in Entry
       => /\ Heard(NoSession, e, v)
          /\ \A url : Heard([NoSession EXCEPT !.url = url], e, v)
BY DEF Heard, NoSession, Entry

\* An emptied slot contradicts nothing a session was told.
LEMMA EmptyHeard ==
    \A z, e, v : Heard(z, e, v) => Heard(z, NoEntry, v)
BY DEF Heard, NoEntry

LEMMA PutHeard ==
    ASSUME NEW f, DOMAIN f = Users, NEW c, NEW v, AllHeard(f, c, v), NEW u, NEW z,
           u \in Users => Heard(z, c[u]["tools"], v)
    PROVE  AllHeard([f EXCEPT ![u] = z], c, v)
BY DEF AllHeard

\* A statement that has asked for no page.
Fresh(s, v) ==
    /\ DOMAIN s = Fields /\ s.opening = FALSE /\ s.kind \in Kinds
    /\ s.floor \in Nat /\ s.floor <= v /\ s.told \in Nat /\ s.told <= v
    /\ s.phase = "list" => s.followed = {}

\* Statement t is statement s with the session of role u, or a new one, in hand.
Entered(t, s, u) ==
    /\ t.stage # "idle" /\ t.user = s.user /\ t.floor = s.floor /\ t.ttl = s.ttl
    /\ t.answer = s.answer
    /\ t.sess = sessions[u] \/ \E url : t.sess = [NoSession EXCEPT !.url = url]

\* Entering with_session.
LEMMA EnterReader ==
    ASSUME NEW s, NEW u, NEW v, Fresh(s, v)
    PROVE  ReaderOK(Enter(s, u), v) /\ Entered(Enter(s, u), s, u)
<1> DEFINE z == [NoSession EXCEPT !.url = s.url]
           old == [s EXCEPT !.stage = "ready", !.sess = sessions[u], !.again = FALSE]
           new == [s EXCEPT !.stage = "init", !.opening = TRUE, !.again = FALSE, !.sess = z]
<1>0. DOMAIN s = Fields /\ s.opening = FALSE
  BY DEF Fresh
<1>1. Enter(s, u) = old \/ Enter(s, u) = new
  BY DEF Enter
<1> HIDE DEF z
<1>2. /\ old.stage = "ready" /\ old.sess = sessions[u] /\ old.again = FALSE
      /\ old.opening = FALSE /\ old.floor = s.floor /\ old.ttl = s.ttl
      /\ old.answer = s.answer /\ old.told = s.told /\ old.kind = s.kind
      /\ old.phase = s.phase /\ old.followed = s.followed /\ old.user = s.user
  BY <1>0 DEF Fields
<1>3. /\ new.stage = "init" /\ new.sess = z /\ new.again = FALSE
      /\ new.opening = TRUE /\ new.floor = s.floor /\ new.ttl = s.ttl
      /\ new.answer = s.answer /\ new.told = s.told /\ new.kind = s.kind
      /\ new.phase = s.phase /\ new.followed = s.followed /\ new.user = s.user
  BY <1>0 DEF Fields
<1> HIDE DEF old, new
<1>4. ReaderOK(old, v) /\ Entered(old, s, u)
  <2>1. ReaderOK(old, v)
    BY <1>2 DEF ReaderOK, Asked, Fresh
  <2>2. Entered(old, s, u)
    BY <1>2, Zenon DEF Entered
  <2> QED
    BY <2>1, <2>2
<1>5. ReaderOK(new, v) /\ Entered(new, s, u)
  <2>1. ReaderOK(new, v)
    BY <1>3 DEF ReaderOK, Asked, Fresh
  <2>2. new.stage # "idle"
    BY <1>3
  <2>3. Entered(new, s, u)
    BY <1>3, <2>2, Zenon DEF Entered, z
  <2> QED
    BY <2>1, <2>3
<1> QED
  BY <1>1, <1>4, <1>5, Zenon

\* The session taken, and the map it is taken from, have heard what they had.
LEMMA EnterHeard ==
    ASSUME TypesOK, DOMAIN sessions = Users, AllHeard(sessions, cache, ver),
           NEW u \in Users, NEW s, s.user = u, NEW t, Entered(t, s, u)
    PROVE  /\ HeldHeard(t, cache, ver)
           /\ AllHeard([sessions EXCEPT ![u] = NoSession], cache, ver)
<1>1. cache[u]["tools"] \in Entry /\ ver \in Nat
  BY DEF TypesOK, Slices
<1>2. Heard(NoSession, cache[u]["tools"], ver)
  BY <1>1, NewHeard
<1>3. Heard(t.sess, cache[u]["tools"], ver)
  <2>1. CASE t.sess = sessions[u]
    BY <2>1 DEF AllHeard
  <2>2. CASE \E url : t.sess = [NoSession EXCEPT !.url = url]
    <3>1. PICK url : t.sess = [NoSession EXCEPT !.url = url]
      BY <2>2, Zenon
    <3>2. Heard([NoSession EXCEPT !.url = url], cache[u]["tools"], ver)
      BY <1>1, NewHeard, Zenon
    <3> QED
      BY <3>1, <3>2, Zenon
  <2> QED
    BY <2>1, <2>2, Zenon DEF Entered
<1>4. t.user = u
  BY DEF Entered
<1> QED
  BY <1>2, <1>3, <1>4, PutHeard, Zenon DEF HeldHeard

\* Statement t is statement s at another stage of its exchange.
Same(s, t) ==
    /\ t.floor = s.floor /\ t.ttl = s.ttl /\ t.answer = s.answer /\ t.told = s.told
    /\ t.phase = s.phase /\ t.followed = s.followed /\ t.again = s.again
    /\ t.opening = s.opening /\ t.lo = s.lo /\ t.kind = s.kind /\ t.user = s.user
    /\ t.sess.told = s.sess.told /\ t.sess.changed = s.sess.changed

\* What every step starts from.
LEMMA Known ==
    ASSUME ReadInv
    PROVE  /\ StOK(st) /\ DOMAIN st = Fields /\ DOMAIN sessions = Users
           /\ st.stage # "idle" => st.user \in Users
           /\ TypesOK /\ ver \in Nat /\ ReaderOK(st, ver)
           /\ AllHeard(sessions, cache, ver) /\ HeldHeard(st, cache, ver)
           /\ st.stage \in Holding
                => DOMAIN st.sess = {"url", "sid", "changed", "inits", "gone", "told"}
BY DEF ReadInv, SessInv, StOK, MapOK, HeldOK, SessOK, ReaderInv, TypesOK, Holding

\* Begin: the reader of the contract starts, with the TTL of its table or of the
\* server's options of now; a failed resolution starts none.
LEMMA BeginReads ==
    ASSUME ReadInv, NEW u \in Users, NEW k \in Kinds, NEW ttl \in TableTtls \cup {NoTtl},
           Begin(u, k, ttl)
    PROVE  ReaderInv' /\ Promised
<1> DEFINE r == resolve(u)
           t == IF Uncached(k) THEN 0 ELSE IF ttl \in TableTtls THEN ttl ELSE r.ttl
           s == [Statement0 EXCEPT !.stage = "lookup", !.user = u, !.kind = k,
                   !.floor = ver, !.count = st.count + 1, !.url = r.url,
                   !.phase = IF k = "call" THEN "call" ELSE "list",
                   !.loop = is_loopback(r.url, catalog.dns), !.ttl = t]
<1>0. /\ DOMAIN st = Fields /\ DOMAIN sessions = Users /\ TypesOK /\ ver \in Nat
      /\ ReaderOK(st, ver) /\ AllHeard(sessions, cache, ver)
  BY Known
<1>1. st.stage = "idle" /\ UNCHANGED <<catalog, ver, cache, clock>>
  BY DEF Begin, catVars
<1>2. TypesOK'
  BY <1>0, <1>1 DEF TypesOK
<1>3. CASE r.err # "Ok"
  <2>1. st' = [st EXCEPT !.count = @ + 1] /\ sessions' = sessions
    BY <1>3 DEF Begin
  <2>2. st'.stage = "idle" /\ Same(st, st')
    BY <1>0, <1>1, <2>1, SMTT(30) DEF Fields, Same
  <2>3. ReaderOK(st', ver)
    BY <1>0, <1>1, <2>2, SMTT(30) DEF ReaderOK, Asked, Same
  <2>4. HeldHeard(st', cache, ver)
    BY <2>2, SMTT(30) DEF HeldHeard, Holding
  <2>5. Promised
    BY <1>1, <2>2, GoesOn DEF Same
  <2> QED
    BY <1>0, <1>1, <1>2, <2>1, <2>3, <2>4, <2>5 DEF ReaderInv
<1>4. CASE r.err = "Ok"
  <2>1. \/ st' = s /\ sessions' = sessions
        \/ st' = Enter(s, u) /\ sessions' = [sessions EXCEPT ![u] = NoSession]
    BY <1>4 DEF Begin
  <2>2. /\ DOMAIN s = Fields /\ s.stage = "lookup" /\ s.user = u /\ s.kind = k
        /\ s.floor = ver /\ s.ttl = t /\ s.told = 0 /\ s.followed = {} /\ s.again = FALSE
        /\ s.opening = FALSE /\ s.answer = 0
    BY Zenon DEF Statement0, Fields
  <2>3. \/ t \in TableTtls \cup {0}
        \/ \E o \in FirstServers \cup ServerChoices :
             t = Get(o, "cache_ttl_ms", DEFAULT_CACHE_TTL_MS)
    <3> DEFINE o == catalog.server
    <3>1. r = ParseServer(o, catalog.dns) /\ DOMAIN o # {}
      BY <1>4, SMTT(30) DEF resolve, lookup_foreign_server
    <3>2. r.ttl = Get(o, "cache_ttl_ms", DEFAULT_CACHE_TTL_MS)
      BY <1>4, <3>1, SMTT(30) DEF ParseServer
    <3>3. o \in FirstServers \cup ServerChoices
      BY <1>0, <3>1, SMTT(30) DEF TypesOK
    <3> HIDE DEF r, o
    <3> QED
      BY <3>2, <3>3
  <2> HIDE DEF r, t, s
  <2>4. ReaderOK(s, ver) /\ Fresh(s, ver)
    BY <1>0, <2>2 DEF ReaderOK, Asked, Fresh
  <2>5. ReaderOK(Enter(s, u), ver) /\ Entered(Enter(s, u), s, u)
    BY <2>4, EnterReader, SMTT(30)
  <2>6. HeldHeard(Enter(s, u), cache, ver)
        /\ AllHeard([sessions EXCEPT ![u] = NoSession], cache, ver)
    BY <1>0, <2>2, <2>5, EnterHeard, Zenon
  <2>7. HeldHeard(s, cache, ver)
    BY <2>2 DEF HeldHeard, Holding
  <2>8. /\ ReaderOK(st', ver) /\ AllHeard(sessions', cache, ver) /\ HeldHeard(st', cache, ver)
        /\ st'.stage # "idle" /\ st'.floor = ver /\ st'.ttl = t /\ st'.answer = 0
    BY <1>0, <2>1, <2>2, <2>4, <2>5, <2>6, <2>7, Zenon DEF Entered
  <2>9. Readers!Start
    BY <1>1, <2>3, <2>8, Zenon DEF Readers!Start
  <2> QED
    BY <1>1, <1>2, <2>8, <2>9 DEF ReaderInv, Promised, Readers!CacheNext
<1> QED
  BY <1>3, <1>4

\* initialize tells the readers nothing.
LEMMA InitializeReads ==
    ASSUME ReadInv, SendInitialize, UNCHANGED catVars
    PROVE  ReaderInv' /\ Promised
<1>0. /\ StOK(st) /\ DOMAIN st = Fields /\ TypesOK /\ ver \in Nat /\ ReaderOK(st, ver)
      /\ AllHeard(sessions, cache, ver) /\ HeldHeard(st, cache, ver)
  BY Known
<1>1. /\ st.stage = "init" /\ UNCHANGED <<catalog, sessions, ver, cache, clock>>
      /\ DOMAIN st.sess = {"url", "sid", "changed", "inits", "gone", "told"}
  BY Known DEF SendInitialize, catVars, Holding
<1>2. TypesOK' /\ AllHeard(sessions', cache', ver')
  BY <1>0, <1>1 DEF TypesOK, AllHeard
<1>3. \/ \E n : st' = [st EXCEPT !.stage = "note", !.sess.sid = n, !.sess.inits = @ + 1]
      \/ st' = Over(st)
      \/ st.opening # TRUE /\ \E e : st' = [st EXCEPT !.stage = "answered", !.out = e]
  BY Zenon DEF SendInitialize
<1>4. CASE st' = Over(st)
  <2>1. ReaderOK(st', ver) /\ HeldHeard(st', cache, ver)
    BY <1>0, <1>4, OverReader DEF HeldHeard, Holding
  <2> QED
    BY <1>1, <1>2, <1>4, <2>1, Ends DEF ReaderInv
<1>5. CASE st' # Over(st)
  <2>1. Same(st, st') /\ (st'.stage = "note" \/ (st'.stage = "answered" /\ st.opening # TRUE))
    <3>1. ASSUME NEW e, st' = [st EXCEPT !.stage = "answered", !.out = e], st.opening # TRUE
          PROVE  Same(st, st') /\ st'.stage = "answered"
      BY <1>0, <3>1 DEF Fields, Same
    <3>2. ASSUME NEW n, st' = [st EXCEPT !.stage = "note", !.sess.sid = n, !.sess.inits = @ + 1]
          PROVE  Same(st, st') /\ st'.stage = "note"
      <4>1. st'.sess = [[st.sess EXCEPT !.sid = n] EXCEPT !.inits = @ + 1]
        BY <1>0, <3>2 DEF Fields
      <4>2. st'.sess.told = st.sess.told /\ st'.sess.changed = st.sess.changed
        BY <1>1, <4>1
      <4> QED
        BY <1>0, <3>2, <4>2 DEF Fields, Same
    <3> QED
      BY <1>3, <1>5, <3>1, <3>2, Zenon
  <2>2. st.stage # "idle" /\ st'.stage # "idle"
    BY <1>1, <2>1, Zenon
  <2>3. ReaderOK(st', ver)
    BY <1>0, <1>1, <2>1, Zenon DEF ReaderOK, Asked, Same
  <2>4. HeldHeard(st', cache, ver)
    BY <1>0, <1>1, <2>1 DEF HeldHeard, Holding, Heard, Same
  <2>5. Promised
    BY <1>1, <2>1, <2>2, GoesOn, SMTT(30) DEF Same
  <2> QED
    BY <1>1, <1>2, <2>3, <2>4, <2>5 DEF ReaderInv
<1> QED
  BY <1>4, <1>5

\* Nor does its notification: a request is sent again only after it was answered
\* once, and the body starts with a session just opened.
LEMMA InitializedReads ==
    ASSUME ReadInv, SendInitialized, UNCHANGED catVars
    PROVE  ReaderInv' /\ Promised
<1>0. /\ StOK(st) /\ DOMAIN st = Fields /\ TypesOK /\ ver \in Nat /\ ReaderOK(st, ver)
      /\ AllHeard(sessions, cache, ver) /\ HeldHeard(st, cache, ver)
  BY Known
<1>1. st.stage = "note" /\ UNCHANGED <<catalog, sessions, ver, cache, clock>>
  BY DEF SendInitialized, catVars
<1>2. TypesOK' /\ AllHeard(sessions', cache', ver')
  BY <1>0, <1>1 DEF TypesOK, AllHeard
<1>3. \/ /\ st' = [st EXCEPT !.stage = IF st.opening THEN "ready" ELSE "try", !.opening = FALSE]
      \/ st' = Over(st)
      \/ st.opening # TRUE /\ \E e : st' = [st EXCEPT !.stage = "answered", !.out = e]
  BY Zenon DEF SendInitialized
<1>4. CASE st' = Over(st)
  <2>1. ReaderOK(st', ver) /\ HeldHeard(st', cache, ver)
    BY <1>0, <1>4, OverReader DEF HeldHeard, Holding
  <2> QED
    BY <1>1, <1>2, <1>4, <2>1, Ends DEF ReaderInv
<1>5. CASE st' = [st EXCEPT !.stage = IF st.opening THEN "ready" ELSE "try", !.opening = FALSE]
  <2>1. /\ st.opening = TRUE => st'.stage = "ready"
        /\ st.opening # TRUE => st'.stage = "try"
        /\ st'.floor = st.floor /\ st'.ttl = st.ttl /\ st'.answer = st.answer
        /\ st'.told = st.told /\ st'.phase = st.phase /\ st'.followed = st.followed
        /\ st'.again = st.again /\ st'.opening = FALSE /\ st'.lo = st.lo
        /\ st'.kind = st.kind /\ st'.user = st.user /\ st'.sess = st.sess
    <3>1. st.opening \in BOOLEAN
      BY <1>0 DEF StOK
    <3> QED
      BY <1>0, <1>5, <3>1, Zenon DEF Fields
  <2>2. st'.stage \in {"ready", "try"}
    BY <2>1, Zenon
  <2>3. ReaderOK(st', ver)
    BY <1>0, <1>1, <2>1, <2>2, Zenon DEF ReaderOK, Asked
  <2>4. HeldHeard(st', cache, ver)
    BY <1>0, <1>1, <2>1 DEF HeldHeard, Holding
  <2>5. Promised
    BY <1>1, <2>1, <2>2, GoesOn
  <2> QED
    BY <1>1, <1>2, <2>3, <2>4, <2>5 DEF ReaderInv
<1>6. ASSUME NEW e, st' = [st EXCEPT !.stage = "answered", !.out = e], st.opening # TRUE
      PROVE  ReaderInv' /\ Promised
  <2>1. st'.stage = "answered" /\ Same(st, st')
    BY <1>0, <1>6 DEF Fields, Same
  <2>3. ReaderOK(st', ver)
    BY <1>0, <1>1, <1>6, <2>1, Zenon DEF ReaderOK, Asked, Same
  <2>4. HeldHeard(st', cache, ver)
    BY <1>0, <1>1, <2>1 DEF HeldHeard, Holding, Heard, Same
  <2>5. Promised
    BY <1>1, <2>1, GoesOn DEF Same
  <2> QED
    BY <1>1, <1>2, <2>3, <2>4, <2>5 DEF ReaderInv
<1> QED
  BY <1>3, <1>4, <1>5, <1>6, Zenon

\* A try of the request: the first page shows the list as it is now, which is
\* no older than anything the session has been told; a notice that comes with
\* the answer sets the flag.
LEMMA RequestReads ==
    ASSUME ReadInv, SendRequest, UNCHANGED catVars
    PROVE  ReaderInv' /\ Promised
<1>0. /\ StOK(st) /\ DOMAIN st = Fields /\ TypesOK /\ ver \in Nat /\ ReaderOK(st, ver)
      /\ AllHeard(sessions, cache, ver) /\ HeldHeard(st, cache, ver)
  BY Known
<1>1. /\ st.stage = "try" /\ UNCHANGED <<catalog, sessions, ver, cache, clock>>
      /\ DOMAIN st.sess = {"url", "sid", "changed", "inits", "gone", "told"}
      /\ st.opening = FALSE /\ st.user \in Users
  BY <1>0, Known DEF SendRequest, catVars, Holding, StOK
<1>2. TypesOK' /\ AllHeard(sessions', cache', ver')
  BY <1>0, <1>1 DEF TypesOK, AllHeard
<1>3. PICK a \in RequestAnswers(st.url, st.sess.sid, st.user) :
        st' = AfterTry(
                  [Observe(st, a.h) EXCEPT
                     !.ran = IF st.phase = "call" /\ a.ran THEN @ + 1 ELSE @,
                     !.misread = @ \/ (st.phase = "call" /\ a.ran
                                        /\ (a.h.status = 404 \/ is_expired_session(a.h.msg))),
                     !.expired = ~st.again /\ (a.h.status = 404 \/ is_expired_session(a.h.msg)),
                     !.sess.gone = IF a.h.status = 404 \/ is_expired_session(a.h.msg)
                                   THEN @ + 1 ELSE @,
                     !.lo = IF st.followed = {} THEN ver ELSE @],
                  exchange_checked(a.h))
  BY Zenon DEF SendRequest
<1> DEFINE e == exchange_checked(a.h)
           gone == a.h.status = 404 \/ is_expired_session(a.h.msg)
           o == Observe(st, a.h)
           z == [o.sess EXCEPT !.gone = IF gone THEN @ + 1 ELSE @]
           lo == IF st.followed = {} THEN ver ELSE st.lo
           s == [o EXCEPT
                   !.ran = IF st.phase = "call" /\ a.ran THEN @ + 1 ELSE @,
                   !.misread = @ \/ (st.phase = "call" /\ a.ran /\ gone),
                   !.expired = ~st.again /\ gone,
                   !.sess.gone = IF gone THEN @ + 1 ELSE @,
                   !.lo = IF st.followed = {} THEN ver ELSE @]
<1>4. st' = AfterTry(s, e)
  BY <1>3
<1>5. /\ DOMAIN o = Fields /\ DOMAIN o.sess = DOMAIN st.sess
      /\ o.floor = st.floor /\ o.ttl = st.ttl /\ o.answer = st.answer /\ o.told = st.told
      /\ o.phase = st.phase /\ o.followed = st.followed /\ o.again = st.again
      /\ o.opening = FALSE /\ o.lo = st.lo /\ o.kind = st.kind /\ o.user = st.user
      /\ \/ o.sess.told = st.sess.told /\ o.sess.changed = st.sess.changed
         \/ o.sess.told = ver /\ o.sess.changed = TRUE
  <2>1. o = st \/ o = [st EXCEPT !.sess.changed = TRUE, !.sess.told = ver]
    BY DEF Observe
  <2> HIDE DEF o
  <2>2. CASE o = st
    BY <1>0, <1>1, <2>2
  <2>3. CASE o = [st EXCEPT !.sess.changed = TRUE, !.sess.told = ver]
    <3>1. /\ DOMAIN o = Fields /\ o.sess = [[st.sess EXCEPT !.changed = TRUE] EXCEPT !.told = ver]
          /\ o.floor = st.floor /\ o.ttl = st.ttl /\ o.answer = st.answer /\ o.told = st.told
          /\ o.phase = st.phase /\ o.followed = st.followed /\ o.again = st.again
          /\ o.opening = st.opening /\ o.lo = st.lo /\ o.kind = st.kind /\ o.user = st.user
      BY <1>0, <2>3 DEF Fields
    <3>2. /\ DOMAIN o.sess = DOMAIN st.sess /\ o.sess.told = ver /\ o.sess.changed = TRUE
      BY <1>1, <3>1
    <3> QED
      BY <1>1, <3>1, <3>2
  <2> QED
    BY <2>1, <2>2, <2>3, Zenon
<1> HIDE DEF e, gone, o
<1>6. /\ DOMAIN s = Fields /\ s.sess = z /\ s.lo = lo
      /\ s.floor = st.floor /\ s.ttl = st.ttl /\ s.answer = st.answer /\ s.told = st.told
      /\ s.phase = st.phase /\ s.followed = st.followed /\ s.again = st.again
      /\ s.opening = FALSE /\ s.kind = st.kind /\ s.user = st.user
  BY <1>5 DEF Fields
<1>7. /\ DOMAIN z = DOMAIN st.sess
      /\ \/ z.told = st.sess.told /\ z.changed = st.sess.changed
         \/ z.told = ver /\ z.changed = TRUE
  BY <1>1, <1>5
<1> HIDE DEF s, z
<1>8. /\ st'.stage = "answered" \/ (st'.stage = "init" /\ st'.again = TRUE)
      /\ st'.floor = st.floor /\ st'.ttl = st.ttl /\ st'.answer = st.answer
      /\ st'.told = st.told /\ st'.phase = st.phase /\ st'.followed = st.followed
      /\ st'.opening = FALSE /\ st'.lo = lo /\ st'.kind = st.kind /\ st'.user = st.user
      /\ st'.sess.told = z.told /\ st'.sess.changed = z.changed
  <2>1. CASE st' = [s EXCEPT !.stage = "init", !.again = TRUE, !.sess.sid = 0]
    <3>1. st'.sess = [z EXCEPT !.sid = 0]
      BY <1>6, <2>1 DEF Fields
    <3>2. st'.sess.told = z.told /\ st'.sess.changed = z.changed
      BY <1>1, <1>7, <3>1
    <3> HIDE DEF lo
    <3> QED
      BY <1>6, <2>1, <3>2 DEF Fields
  <2>2. CASE \E x : st' = [s EXCEPT !.stage = "answered", !.out = x]
    <3> HIDE DEF lo
    <3> QED
      BY <1>6, <2>2 DEF Fields
  <2> QED
    BY <1>4, <2>1, <2>2, Zenon DEF AfterTry
<1>9. Heard(st.sess, cache[st.user]["tools"], ver)
  BY <1>0, <1>1 DEF HeldHeard, Holding
<1>10. Heard(st'.sess, cache[st.user]["tools"], ver)
  <2>1. CASE st'.sess.told = st.sess.told /\ st'.sess.changed = st.sess.changed
    BY <1>9, <2>1, Zenon DEF Heard
  <2>2. CASE st'.sess.told = ver /\ st'.sess.changed = TRUE
    <3>1. ver <= ver
      BY <1>0
    <3>2. st'.sess.changed # FALSE
      BY <2>2, Zenon
    <3> QED
      BY <1>0, <2>2, <3>1, <3>2, Zenon DEF Heard
  <2> QED
    BY <1>7, <1>8, <2>1, <2>2, Zenon
<1>11. ASSUME st.phase = "list"
       PROVE  /\ lo \in Nat /\ st.floor <= lo /\ lo <= ver /\ st.told <= lo
              /\ z.changed = FALSE => z.told <= lo
  <2>1. CASE st.followed = {}
    BY <1>0, <1>7, <1>9, <2>1 DEF ReaderOK, Heard
  <2>2. CASE st.followed # {}
    BY <1>0, <1>7, <1>11, <2>2 DEF ReaderOK, Asked
  <2> QED
    BY <2>1, <2>2, Zenon
<1> HIDE DEF lo
<1>12. ReaderOK(st', ver)
  BY <1>0, <1>1, <1>8, <1>11, Zenon DEF ReaderOK
<1>13. HeldHeard(st', cache, ver)
  BY <1>8, <1>10 DEF HeldHeard
<1>14. Promised
  BY <1>1, <1>8, GoesOn
<1> QED
  BY <1>1, <1>2, <1>12, <1>13, <1>14 DEF ReaderInv

\* A generated table answered from the cache reads a slot younger than its TTL.
LEMMA LookUpReads ==
    ASSUME ReadInv, LookUp
    PROVE  ReaderInv' /\ Promised
<1>0. /\ StOK(st) /\ DOMAIN st = Fields /\ DOMAIN sessions = Users /\ TypesOK /\ ver \in Nat
      /\ ReaderOK(st, ver) /\ AllHeard(sessions, cache, ver)
  BY Known
<1>1. /\ st.stage = "lookup" /\ UNCHANGED <<catalog, ver, cache, clock>> /\ st.user \in Users
      /\ st.opening = FALSE
  BY <1>0, Known DEF LookUp, catVars, StOK
<1>2. TypesOK'
  BY <1>0, <1>1 DEF TypesOK
<1>3. CASE Cached(st.user, "tools", st.ttl)
  <2> DEFINE n == cache[st.user]["tools"].ver
  <2>1. st' = [st EXCEPT !.stage = "planned", !.lo = n, !.answer = n] /\ sessions' = sessions
    BY <1>3 DEF LookUp
  <2>2. cache[st.user]["tools"].full /\ clock - cache[st.user]["tools"].at < st.ttl
    BY <1>3 DEF Cached
  <2> HIDE DEF n
  <2>3. /\ st'.stage = "planned" /\ st'.answer = n /\ st'.floor = st.floor /\ st'.ttl = st.ttl
        /\ st'.told = st.told /\ st'.phase = st.phase /\ st'.followed = st.followed
        /\ st'.again = st.again /\ st'.opening = FALSE /\ st'.kind = st.kind
    BY <1>0, <1>1, <2>1 DEF Fields
  <2>4. ReaderOK(st', ver)
    BY <1>0, <1>1, <2>3 DEF ReaderOK, Asked
  <2>5. HeldHeard(st', cache, ver)
    BY <2>3 DEF HeldHeard, Holding
  <2>6. Readers!Hit(st.user, "tools")
    BY <1>1, <2>2, <2>3, Zenon DEF Readers!Hit, n
  <2>7. Promised
    BY <1>1, <2>6 DEF Promised, Readers!CacheNext, Slices
  <2> QED
    BY <1>0, <1>1, <1>2, <2>1, <2>4, <2>5, <2>7 DEF ReaderInv
<1>4. CASE ~Cached(st.user, "tools", st.ttl)
  <2>1. st' = Enter(st, st.user) /\ sessions' = [sessions EXCEPT ![st.user] = NoSession]
    BY <1>4 DEF LookUp
  <2>2. Fresh(st, ver)
    BY <1>0, <1>1 DEF Fresh, ReaderOK, Asked
  <2>3. ReaderOK(st', ver) /\ Entered(st', st, st.user)
    BY <2>1, <2>2, EnterReader
  <2>4. HeldHeard(st', cache, ver) /\ AllHeard(sessions', cache, ver)
    BY <1>0, <1>1, <2>1, <2>3, EnterHeard, Zenon
  <2>5. Promised
    BY <1>1, <2>3, GoesOn DEF Entered
  <2> QED
    BY <1>1, <1>2, <2>3, <2>4, <2>5 DEF ReaderInv
<1> QED
  BY <1>3, <1>4

\* with_session ends: what goes back into the map has heard what it had.
LEMMA ReturnedHeard ==
    ASSUME ReadInv, NEW out, NEW c, c = cache, st.stage \in Holding
    PROVE  AllHeard(Returned(st, out), c, ver)
<1>0. /\ DOMAIN sessions = Users /\ TypesOK /\ ver \in Nat /\ st.user \in Users
      /\ AllHeard(sessions, cache, ver) /\ HeldHeard(st, cache, ver)
  BY Known DEF Holding
<1>1. cache[st.user]["tools"] \in Entry
  BY <1>0 DEF TypesOK, Slices
<1>2. Heard(NoSession, cache[st.user]["tools"], ver)
  BY <1>0, <1>1, NewHeard
<1>3. Heard(st.sess, cache[st.user]["tools"], ver)
  BY <1>0 DEF HeldHeard
<1> QED
  BY <1>0, <1>2, <1>3, PutHeard, Zenon DEF Returned

\* A scan answered from the cache reads a slot younger than its TTL, and ends.
LEMMA ScanReads ==
    ASSUME ReadInv, ScanFromCache
    PROVE  ReaderInv' /\ Promised
<1> DEFINE sl == SliceOf(st.kind)
           n == cache[st.user][sl].ver
<1>0. TypesOK /\ ver \in Nat /\ ReaderOK(st, ver)
  BY Known
<1>1. /\ st.stage = "ready" /\ UNCHANGED <<catalog, ver, cache, clock>> /\ st.user \in Users
      /\ Cached(st.user, sl, st.ttl) /\ st' = [Over(st) EXCEPT !.answer = n]
      /\ sessions' = Returned(st, "Ok")
  BY Known DEF ScanFromCache, catVars
<1>2. TypesOK'
  BY <1>0, <1>1 DEF TypesOK
<1>3. AllHeard(sessions', cache, ver)
  BY <1>1, ReturnedHeard DEF Holding
<1>4. sl \in Slices
  BY DEF SliceOf, Slices
<1> HIDE DEF sl
<1>5. cache[st.user][sl].full /\ clock - cache[st.user][sl].at < st.ttl
  BY <1>1 DEF Cached
<1>6. /\ ReaderOK(st', ver) /\ st'.stage = "idle" /\ st'.floor = 0 /\ st'.ttl = 0
      /\ st'.answer = n
  <2>1. st' = [Over(st) EXCEPT !.answer = n]
    BY <1>1
  <2> HIDE DEF n
  <2> QED
    BY <1>0, <2>1 DEF Over, Statement0, ReaderOK
<1>7. HeldHeard(st', cache, ver)
  BY <1>6 DEF HeldHeard, Holding
<1>8. [on |-> st'.stage # "idle", floor |-> st'.floor, ttl |-> st'.ttl] = Readers!NoReader
  BY <1>6, ReaderGone
<1>9. Readers!Hit(st.user, sl)
  BY <1>1, <1>5, <1>6, <1>8, Zenon DEF Readers!Hit
<1>10. Promised
  BY <1>1, <1>4, <1>9, Zenon DEF Promised, Readers!CacheNext
<1> QED
  BY <1>1, <1>2, <1>3, <1>6, <1>7, <1>10 DEF ReaderInv

\* A slot emptied, of one list of one role: readers are promised nothing of it.
LEMMA DropForgets ==
    ASSUME TypesOK, NEW u \in Users, cache' = drop_tools(u), UNCHANGED <<clock, ver>>,
           st'.answer = st.answer,
           \/ /\ st'.floor = st.floor /\ st'.ttl = st.ttl
              /\ st'.stage # "idle" /\ st.stage # "idle"
           \/ st'.stage = "idle" /\ st'.floor = 0 /\ st'.ttl = 0
    PROVE  /\ Promised /\ cache' \in [Users -> [Slices -> Entry]]
           /\ cache'[u]["tools"] = NoEntry
           /\ \A w \in Users : w # u => cache'[w]["tools"] = cache[w]["tools"]
<1> DEFINE new == [on |-> st'.stage # "idle", floor |-> st'.floor, ttl |-> st'.ttl]
           old == [on |-> st.stage # "idle", floor |-> st.floor, ttl |-> st.ttl]
<1>1. cache' = [cache EXCEPT ![u] = [cache[u] EXCEPT !["tools"] = NoEntry]]
  BY DEF drop_tools
<1>2. NoEntry \in Entry /\ Readers!NoEntry = NoEntry
  BY DEF NoEntry, Entry, Readers!NoEntry
<1>3. cache \in [Users -> [Slices -> Entry]] /\ "tools" \in Slices
  BY DEF TypesOK, Slices
<1>4. cache' \in [Users -> [Slices -> Entry]]
  BY <1>1, <1>2, <1>3
<1>5. \A w \in Users, sl \in Slices :
        cache'[w][sl] = IF w = u /\ sl = "tools" THEN NoEntry ELSE cache[w][sl]
  BY <1>1, <1>3
<1>6. new = old \/ new = Readers!NoReader
  <2>1. CASE st'.stage = "idle" /\ st'.floor = 0 /\ st'.ttl = 0
    BY <2>1, ReaderGone
  <2>2. CASE /\ st'.floor = st.floor /\ st'.ttl = st.ttl
             /\ st'.stage # "idle" /\ st.stage # "idle"
    BY <2>2
  <2> QED
    BY <2>1, <2>2
<1>7. cache' = [w \in Users |-> [sl \in Slices |-> cache'[w][sl]]]
  BY <1>4
<1>8. \A w \in Users, sl \in Slices : cache'[w][sl] \in {cache[w][sl], Readers!NoEntry}
  BY <1>2, <1>5
<1>9. Readers!Forget
  BY <1>6, <1>7, <1>8, Zenon DEF Readers!Forget
<1> QED
  BY <1>3, <1>4, <1>5, <1>9, Zenon DEF Promised, Readers!CacheNext

\* Sessions that had heard enough for the cache have for one with a slot emptied.
LEMMA DropHeard ==
    ASSUME NEW f, NEW c, NEW d, NEW v, AllHeard(f, c, v),
           \A w \in Users : d[w]["tools"] \in {c[w]["tools"], NoEntry}
    PROVE  /\ AllHeard(f, d, v)
           /\ \A s : s.user \in Users /\ HeldHeard(s, c, v) => HeldHeard(s, d, v)
<1>1. \A z : \A w \in Users : Heard(z, c[w]["tools"], v) => Heard(z, d[w]["tools"], v)
  BY EmptyHeard, Zenon
<1> QED
  BY <1>1, Zenon DEF AllHeard, HeldHeard

\* The first request goes out; a scan of the tools table that finds the flag set
\* has the slice dropped first.
LEMMA StartReads ==
    ASSUME ReadInv, StartRequest
    PROVE  ReaderInv' /\ Promised
<1>0. /\ StOK(st) /\ DOMAIN st = Fields /\ TypesOK /\ ver \in Nat /\ ReaderOK(st, ver)
      /\ AllHeard(sessions, cache, ver) /\ HeldHeard(st, cache, ver)
  BY Known
<1>1. /\ st.stage = "ready" /\ UNCHANGED <<catalog, sessions, ver, clock>>
      /\ st' = [TakeFlag(st).s EXCEPT !.stage = "try", !.told = st.sess.told]
      /\ cache' = TakeFlag(st).cache
  BY DEF StartRequest
<1>2. /\ st.user \in Users /\ st.opening = FALSE
      /\ DOMAIN st.sess = {"url", "sid", "changed", "inits", "gone", "told"}
      /\ Heard(st.sess, cache[st.user]["tools"], ver)
  BY <1>0, <1>1, Known DEF Holding, HeldHeard, StOK
<1>3. CASE st.kind = "tools" /\ st.sess.changed
  <2>1. /\ cache' = drop_tools(st.user)
        /\ st' = [[st EXCEPT !.sess.changed = FALSE] EXCEPT !.stage = "try", !.told = st.sess.told]
    BY <1>1, <1>3 DEF TakeFlag
  <2>2. st'.sess = [st.sess EXCEPT !.changed = FALSE]
    BY <1>0, <2>1 DEF Fields
  <2>3. st'.sess.told = st.sess.told /\ st'.sess.changed = FALSE
    BY <1>2, <2>2
  <2>4. /\ st'.stage = "try" /\ st'.told = st.sess.told
        /\ st'.floor = st.floor /\ st'.ttl = st.ttl /\ st'.answer = st.answer
        /\ st'.phase = st.phase /\ st'.followed = st.followed /\ st'.again = st.again
        /\ st'.opening = FALSE /\ st'.kind = st.kind /\ st'.user = st.user
    BY <1>0, <1>2, <2>1 DEF Fields
  <2>5. ReaderOK(st', ver)
    BY <1>0, <1>1, <1>2, <2>4 DEF ReaderOK, Asked, Heard
  <2>6. /\ Promised /\ cache' \in [Users -> [Slices -> Entry]]
        /\ cache'[st.user]["tools"] = NoEntry
        /\ \A w \in Users : w # st.user => cache'[w]["tools"] = cache[w]["tools"]
    BY <1>0, <1>1, <1>2, <2>1, <2>4, DropForgets
  <2>7. TypesOK'
    BY <1>0, <1>1, <2>6 DEF TypesOK
  <2>8. AllHeard(sessions, cache', ver)
    BY <1>0, <2>6, DropHeard, Zenon
  <2>9. Heard(st'.sess, NoEntry, ver)
    BY <1>2, <2>3, Zenon DEF Heard, NoEntry
  <2>10. HeldHeard(st', cache', ver)
    BY <2>4, <2>6, <2>9, Zenon DEF HeldHeard
  <2> QED
    BY <1>1, <2>5, <2>6, <2>7, <2>8, <2>10 DEF ReaderInv
<1>4. CASE ~(st.kind = "tools" /\ st.sess.changed)
  <2>1. cache' = cache /\ st' = [st EXCEPT !.stage = "try", !.told = st.sess.told]
    BY <1>1, <1>4, Zenon DEF TakeFlag
  <2>4. /\ st'.stage = "try" /\ st'.told = st.sess.told /\ st'.sess = st.sess
        /\ st'.floor = st.floor /\ st'.ttl = st.ttl /\ st'.answer = st.answer
        /\ st'.phase = st.phase /\ st'.followed = st.followed /\ st'.again = st.again
        /\ st'.opening = FALSE /\ st'.kind = st.kind /\ st'.user = st.user
    BY <1>0, <1>2, <2>1 DEF Fields
  <2>5. ReaderOK(st', ver)
    BY <1>0, <1>1, <1>2, <2>4 DEF ReaderOK, Asked, Heard
  <2>6. HeldHeard(st', cache, ver)
    BY <1>2, <2>4, Zenon DEF HeldHeard
  <2>7. TypesOK'
    BY <1>0, <1>1, <2>1 DEF TypesOK
  <2>8. Promised
    BY <1>1, <2>1, <2>4, GoesOn
  <2> QED
    BY <1>0, <1>1, <2>1, <2>5, <2>6, <2>7, <2>8 DEF ReaderInv
<1> QED
  BY <1>3, <1>4, SMTT(30)

\* Another page, or none that could be read.
LEMMA NextPageReads ==
    ASSUME ReadInv, NEW c, NextPage(c)
    PROVE  ReaderInv' /\ Promised
<1>0. /\ StOK(st) /\ DOMAIN st = Fields /\ TypesOK /\ ver \in Nat /\ ReaderOK(st, ver)
      /\ AllHeard(sessions, cache, ver) /\ HeldHeard(st, cache, ver)
  BY Known
<1>1. /\ st.stage = "answered" /\ st.phase = "list" /\ UNCHANGED <<catalog, ver, cache, clock>>
      /\ st.opening = FALSE
  BY <1>0 DEF NextPage, catVars, StOK
<1>2. TypesOK'
  BY <1>0, <1>1 DEF TypesOK
<1>3. CASE /\ st' = [st EXCEPT !.stage = "try", !.again = FALSE, !.followed = @ \cup {c}]
           /\ sessions' = sessions
  <2>1. /\ st'.stage = "try" /\ st'.told = st.told /\ st'.sess = st.sess
        /\ st'.floor = st.floor /\ st'.ttl = st.ttl /\ st'.answer = st.answer
        /\ st'.phase = st.phase /\ st'.lo = st.lo
        /\ st'.opening = FALSE /\ st'.kind = st.kind /\ st'.user = st.user
    BY <1>0, <1>1, <1>3, SMTT(30) DEF Fields
  <2>2. ReaderOK(st', ver)
    BY <1>0, <1>1, <2>1, SMTT(30) DEF ReaderOK, Asked
  <2>3. HeldHeard(st', cache, ver)
    BY <1>0, <1>1, <2>1 DEF HeldHeard, Holding
  <2>4. Promised
    BY <1>1, <2>1, GoesOn
  <2> QED
    BY <1>0, <1>1, <1>2, <1>3, <2>2, <2>3, <2>4 DEF ReaderInv
<1>4. CASE st' = Over(st) /\ sessions' = Returned(st, "Transport")
  <2>1. ReaderOK(st', ver) /\ HeldHeard(st', cache, ver)
    BY <1>0, <1>4, OverReader DEF HeldHeard, Holding
  <2>2. AllHeard(sessions', cache, ver)
    BY <1>1, <1>4, ReturnedHeard, SMTT(30) DEF Holding
  <2> QED
    BY <1>1, <1>2, <1>4, <2>1, <2>2, Ends, SMTT(30) DEF ReaderInv
<1> QED
  BY <1>3, <1>4, SMTT(30) DEF NextPage

\* The last page answers with a list the server had since the statement began,
\* and fills the slot with it: the session has been told of nothing later unless
\* its flag is set.
LEMMA LastPageReads ==
    ASSUME ReadInv, LastPage
    PROVE  ReaderInv' /\ Promised
<1> DEFINE u == st.user
           sl == SliceOf(st.kind)
           new == [on |-> st'.stage # "idle", floor |-> st'.floor, ttl |-> st'.ttl]
           old == [on |-> st.stage # "idle", floor |-> st.floor, ttl |-> st.ttl]
<1>0. /\ StOK(st) /\ DOMAIN st = Fields /\ TypesOK /\ ver \in Nat /\ ReaderOK(st, ver)
      /\ AllHeard(sessions, cache, ver) /\ DOMAIN sessions = Users
  BY Known
<1>1. /\ st.stage = "answered" /\ st.phase = "list" /\ UNCHANGED <<catalog, ver, clock>>
      /\ cache' = Stored(u, sl, st.ttl, st.lo) /\ sessions' = [sessions EXCEPT ![u] = st.sess]
      /\ u \in Users
  BY Known, SMTT(30) DEF LastPage, Returned
<1>2. sl \in Slices
  BY DEF SliceOf, Slices
<1>3. /\ st.lo \in Nat /\ st.floor \in Nat /\ st.floor <= st.lo /\ st.lo <= ver
      /\ st.sess.changed = FALSE => st.sess.told <= st.lo
      /\ st.told \in Nat /\ st.told <= ver /\ st.kind \in Kinds
  BY <1>0, <1>1, SMTT(30) DEF ReaderOK, Asked
<1>4. Heard(st.sess, cache[u]["tools"], ver) /\ st.opening = FALSE
  BY <1>0, <1>1, Known DEF HeldHeard, Holding, StOK
<1>5. /\ ReaderOK(st', ver) /\ st'.answer = st.lo
      /\ st'.stage \in {"planned", "idle"} /\ (new = old \/ new = Readers!NoReader)
  <2>1. CASE st' = [Over(st) EXCEPT !.answer = st.lo]
    <3>1. /\ ReaderOK(st', ver) /\ st'.stage = "idle" /\ st'.floor = 0 /\ st'.ttl = 0
          /\ st'.answer = st.lo
      BY <1>0, <2>1 DEF Over, Statement0, ReaderOK
    <3> QED
      BY <3>1, ReaderGone
  <2>2. CASE st' = [st EXCEPT !.stage = "planned", !.sess = NoSession, !.followed = {},
                              !.again = FALSE, !.answer = st.lo]
    <3>1. /\ st'.stage = "planned" /\ st'.answer = st.lo /\ st'.followed = {}
          /\ st'.again = FALSE /\ st'.opening = FALSE /\ st'.floor = st.floor
          /\ st'.ttl = st.ttl /\ st'.told = st.told /\ st'.kind = st.kind
      BY <1>0, <1>4, <2>2 DEF Fields
    <3>2. ReaderOK(st', ver)
      BY <1>0, <1>3, <3>1 DEF ReaderOK, Asked
    <3>3. (st'.stage # "idle") <=> (st.stage # "idle")
      BY <1>1, <3>1, SMTT(30)
    <3> QED
      BY <3>1, <3>2, <3>3
  <2> QED
    BY <2>1, <2>2 DEF LastPage
<1>6. HeldHeard(st', cache', ver)
  BY <1>5 DEF HeldHeard, Holding
<1>7. old.on /\ old.floor = st.floor /\ old.ttl = st.ttl
  BY <1>1, Zenon
<1> HIDE DEF sl, new, old
<1>8. /\ cache' = IF old.ttl = 0 THEN cache
                  ELSE [cache EXCEPT ![u][sl] = [full |-> TRUE, at |-> clock, ver |-> st.lo]]
      /\ st.lo \in old.floor .. ver
  BY <1>0, <1>1, <1>3, <1>7 DEF Stored
<1>9. Readers!Read(u, sl)
  BY <1>1, <1>5, <1>7, <1>8, Zenon DEF Readers!Read, new, old
<1>10. Promised
  BY <1>1, <1>2, <1>9, Zenon DEF Promised, Readers!CacheNext
<1> DEFINE e == [full |-> TRUE, at |-> clock, ver |-> st.lo]
<1>11. /\ cache' \in [Users -> [Slices -> Entry]]
       /\ \A w \in Users : w # u => cache'[w] = cache[w]
       /\ cache'[u]["tools"] \in {cache[u]["tools"], e}
  <2>1. cache \in [Users -> [Slices -> Entry]] /\ clock \in Nat
    BY <1>0 DEF TypesOK
  <2>2. e \in Entry
    BY <1>3, <2>1 DEF Entry
  <2> HIDE DEF e
  <2>3. CASE cache' = cache
    BY <2>1, <2>3
  <2>4. CASE cache' = [cache EXCEPT ![u] = [cache[u] EXCEPT ![sl] = e]]
    BY <1>1, <1>2, <2>1, <2>2, <2>4 DEF Slices
  <2>5. cache' = cache \/ cache' = [cache EXCEPT ![u] = [cache[u] EXCEPT ![sl] = e]]
    BY <1>8 DEF e
  <2> QED
    BY <2>3, <2>4, <2>5
<1>12. Heard(st.sess, cache'[u]["tools"], ver)
  <2>1. Heard(st.sess, e, ver)
    BY <1>3, <1>4, SMTT(30) DEF Heard
  <2> QED
    BY <1>4, <1>11, <2>1, Zenon
<1>13. AllHeard(sessions', cache', ver)
  BY <1>0, <1>1, <1>11, <1>12, SMTT(30) DEF AllHeard
<1>14. TypesOK'
  BY <1>0, <1>1, <1>11 DEF TypesOK
<1> QED
  BY <1>1, <1>5, <1>6, <1>10, <1>13, <1>14, SMTT(30) DEF ReaderInv

\* A generated table plans its call: the session it takes, and the one it leaves,
\* have heard no more than before.
LEMMA PlanReads ==
    ASSUME ReadInv, PlanTool
    PROVE  ReaderInv' /\ Promised
<1> DEFINE u == st.user
           s == [st EXCEPT !.phase = "call"]
<1>0. /\ StOK(st) /\ DOMAIN st = Fields /\ TypesOK /\ ver \in Nat /\ ReaderOK(st, ver)
      /\ AllHeard(sessions, cache, ver) /\ DOMAIN sessions = Users
  BY Known
<1>1. /\ st.stage = "planned" /\ UNCHANGED <<catalog, ver, clock>> /\ u \in Users
      /\ cache' = drop_tools(u) \/ cache' = cache
      /\ \/ st' = Enter(s, u) /\ sessions' = [sessions EXCEPT ![u] = NoSession]
         \/ st' = Over(st) /\ sessions' = sessions
  BY Known DEF PlanTool
<1>2. /\ DOMAIN s = Fields /\ s.phase = "call" /\ s.floor = st.floor /\ s.ttl = st.ttl
      /\ s.answer = st.answer /\ s.told = st.told /\ s.kind = st.kind
      /\ s.opening = FALSE /\ s.user = u
  BY <1>0, <1>1, SMTT(30) DEF Fields, StOK
<1> HIDE DEF s
<1>3. Fresh(s, ver)
  BY <1>0, <1>1, <1>2, SMTT(30) DEF Fresh, ReaderOK
<1>4. /\ ReaderOK(st', ver) /\ AllHeard(sessions', cache, ver) /\ HeldHeard(st', cache, ver)
      /\ st'.answer = st.answer
      /\ \/ /\ st'.floor = st.floor /\ st'.ttl = st.ttl /\ st'.user = u
            /\ st'.stage # "idle" /\ st.stage # "idle"
         \/ st'.stage = "idle" /\ st'.floor = 0 /\ st'.ttl = 0
  <2>1. CASE st' = Enter(s, u) /\ sessions' = [sessions EXCEPT ![u] = NoSession]
    <3>1. ReaderOK(st', ver) /\ Entered(st', s, u)
      BY <1>3, <2>1, EnterReader
    <3>2. HeldHeard(st', cache, ver) /\ AllHeard(sessions', cache, ver)
      BY <1>0, <1>1, <1>2, <2>1, <3>1, EnterHeard, Zenon
    <3> QED
      BY <1>1, <1>2, <3>1, <3>2 DEF Entered
  <2>2. CASE st' = Over(st) /\ sessions' = sessions
    BY <1>0, <2>2, OverReader DEF HeldHeard, Holding
  <2> QED
    BY <1>1, <2>1, <2>2
<1>5. CASE cache' = cache
  <2>1. Promised
    <3>1. CASE st'.stage # "idle"
      BY <1>1, <1>4, <1>5, <3>1, GoesOn
    <3>2. CASE st'.stage = "idle"
      <4>1. st' = Over(st)
        <5>1. Entered(Enter(s, u), s, u)
          BY <1>3, EnterReader, Zenon
        <5>2. st' # Enter(s, u)
          BY <3>2, <5>1, Zenon DEF Entered
        <5> QED
          BY <1>1, <5>2
      <4> QED
        BY <1>1, <1>5, <4>1, Ends
    <3> QED
      BY <3>1, <3>2, SMTT(30)
  <2>2. TypesOK'
    BY <1>0, <1>1, <1>5, SMTT(30) DEF TypesOK
  <2> QED
    BY <1>1, <1>4, <1>5, <2>1, <2>2 DEF ReaderInv
<1>6. CASE cache' = drop_tools(u)
  <2>1. /\ Promised /\ cache' \in [Users -> [Slices -> Entry]]
        /\ cache'[u]["tools"] = NoEntry
        /\ \A w \in Users : w # u => cache'[w]["tools"] = cache[w]["tools"]
    BY <1>0, <1>1, <1>4, <1>6, DropForgets, SMTT(30)
  <2>2. TypesOK'
    BY <1>0, <1>1, <2>1, Zenon DEF TypesOK
  <2>3. \A w \in Users : cache'[w]["tools"] \in {cache[w]["tools"], NoEntry}
    BY <2>1, Zenon
  <2>4. AllHeard(sessions', cache', ver)
    BY <1>4, <2>3, DropHeard, Zenon
  <2>5. HeldHeard(st', cache', ver)
    <3>1. CASE st'.stage = "idle"
      BY <3>1 DEF HeldHeard, Holding
    <3>2. CASE st'.user = u
      <4>1. cache'[st'.user]["tools"] = NoEntry
        BY <2>1, <3>2
      <4> QED
        BY <1>4, <4>1, EmptyHeard, Zenon DEF HeldHeard
    <3> QED
      BY <1>4, <3>1, <3>2
  <2> QED
    BY <1>1, <1>4, <2>1, <2>2, <2>4, <2>5, SMTT(30) DEF ReaderInv
<1> QED
  BY <1>1, <1>5, <1>6

\* with_session ends and the statement with it.
LEMMA EndReads ==
    ASSUME ReadInv, EndStatement
    PROVE  ReaderInv' /\ Promised
<1>0. TypesOK /\ ver \in Nat
  BY Known
<1>1. /\ st.stage = "answered" /\ UNCHANGED <<catalog, ver, cache, clock>> /\ st' = Over(st)
      /\ sessions' = Returned(st, st.out)
  BY DEF EndStatement, catVars
<1>2. TypesOK'
  BY <1>0, <1>1, SMTT(30) DEF TypesOK
<1>3. ReaderOK(st', ver) /\ HeldHeard(st', cache, ver)
  BY <1>0, <1>1, OverReader DEF HeldHeard, Holding
<1>4. AllHeard(sessions', cache, ver)
  BY <1>1, ReturnedHeard DEF Holding
<1> QED
  BY <1>1, <1>2, <1>3, <1>4, Ends DEF ReaderInv

\* mcp.refresh and a backend's exit empty slots and forget sessions.
LEMMA ForgetReads ==
    ASSUME ReadInv, BackendExit \/ \E u \in Users : refresh(u)
    PROVE  ReaderInv' /\ Promised
<1>0. /\ DOMAIN st = Fields /\ TypesOK /\ ver \in Nat /\ ReaderOK(st, ver)
      /\ AllHeard(sessions, cache, ver) /\ DOMAIN sessions = Users
      /\ cache \in [Users -> [Slices -> Entry]]
  BY Known DEF TypesOK
<1>1. /\ st.stage = "idle" /\ st' = [st EXCEPT !.count = @ + 1]
      /\ UNCHANGED <<catalog, ver, clock>>
  BY DEF BackendExit, refresh
<1>2. st'.stage = "idle" /\ Same(st, st')
  BY <1>0, <1>1 DEF Fields, Same
<1>3. ReaderOK(st', ver)
  BY <1>0, <1>1, <1>2 DEF ReaderOK, Asked, Same
<1>4. NoEntry \in Entry /\ Readers!NoEntry = NoEntry
  BY DEF NoEntry, Entry, Readers!NoEntry
<1>5. /\ cache' \in [Users -> [Slices -> Entry]]
      /\ \A w \in Users, sl \in Slices : cache'[w][sl] \in {cache[w][sl], NoEntry}
      /\ \A w \in Users : sessions'[w] = sessions[w] \/ sessions'[w] = NoSession
  <2> DEFINE none == [sl \in Slices |-> NoEntry]
  <2>1. none \in [Slices -> Entry] /\ \A sl \in Slices : none[sl] = NoEntry
    BY <1>4
  <2>2. CASE BackendExit
    <3>1. sessions' = [u \in Users |-> NoSession] /\ cache' = [u \in Users |-> none]
      BY <2>2 DEF BackendExit
    <3> HIDE DEF none
    <3> QED
      BY <2>1, <3>1
  <2>3. CASE \E u \in Users : refresh(u)
    <3>0. PICK u \in Users : refresh(u)
      BY <2>3
    <3>1. \/ sessions' = sessions /\ cache' = cache
          \/ /\ sessions' = [sessions EXCEPT ![u] = NoSession]
             /\ cache' = [cache EXCEPT ![u] = none]
      BY <3>0 DEF refresh
    <3> HIDE DEF none
    <3>2. cache' \in [Users -> [Slices -> Entry]]
      BY <1>0, <2>1, <3>1
    <3>3. \A w \in Users : cache'[w] = cache[w] \/ cache'[w] = none
      BY <1>0, <3>1
    <3>4. \A w \in Users : sessions'[w] = sessions[w] \/ sessions'[w] = NoSession
      BY <1>0, <3>1
    <3> QED
      BY <2>1, <3>2, <3>3, <3>4
  <2> QED
    BY <2>2, <2>3
<1>6. TypesOK'
  BY <1>0, <1>1, <1>5 DEF TypesOK
<1>7. "tools" \in Slices
  BY DEF Slices
<1>8. AllHeard(sessions', cache', ver)
  <2>1. \A w \in Users : cache'[w]["tools"] \in {cache[w]["tools"], NoEntry}
    BY <1>5, <1>7
  <2>2. AllHeard(sessions, cache', ver)
    BY <1>0, <2>1, DropHeard, Zenon
  <2>3. \A w \in Users : Heard(NoSession, cache'[w]["tools"], ver)
    BY <1>0, <1>5, <1>7, NewHeard
  <2> QED
    BY <1>5, <2>2, <2>3, Zenon DEF AllHeard
<1>9. HeldHeard(st', cache', ver)
  BY <1>2 DEF HeldHeard, Holding
<1>10. cache' = [w \in Users |-> [sl \in Slices |-> cache'[w][sl]]]
  BY <1>5
<1>11. [on |-> st'.stage # "idle", floor |-> st'.floor, ttl |-> st'.ttl]
         = [on |-> st.stage # "idle", floor |-> st.floor, ttl |-> st.ttl]
  BY <1>1, <1>2, Zenon DEF Same
<1>12. Readers!Forget
  <2>1. \A w \in Users, sl \in Slices : cache'[w][sl] \in {cache[w][sl], Readers!NoEntry}
    BY <1>4, <1>5
  <2> QED
    BY <1>1, <1>2, <1>10, <1>11, <2>1, Zenon DEF Readers!Forget, Same
<1> QED
  BY <1>1, <1>3, <1>6, <1>8, <1>9, <1>12, SMTT(30) DEF ReaderInv, Promised, Readers!CacheNext

\* What happens around the statement.  A change of the list makes every list
\* read, and every notice, one that was current.
LEMMA WorldReads ==
    ASSUME ReadInv, CatOK, World
    PROVE  ReaderInv' /\ Promised
<1>0. /\ DOMAIN st = Fields /\ TypesOK /\ ver \in Nat /\ ReaderOK(st, ver)
      /\ AllHeard(sessions, cache, ver) /\ HeldHeard(st, cache, ver) /\ clock \in Nat
  BY Known DEF TypesOK
<1>1. CASE Cancel /\ UNCHANGED catVars
  <2>1. /\ UNCHANGED <<catalog, ver, cache, clock, sessions>> /\ st' = Over(st)
    BY <1>1, SMTT(30) DEF Cancel, catVars
  <2>2. ReaderOK(st', ver) /\ HeldHeard(st', cache, ver)
    BY <1>0, <2>1, OverReader, SMTT(30) DEF HeldHeard, Holding
  <2>3. TypesOK'
    BY <1>0, <2>1 DEF TypesOK
  <2> QED
    BY <1>0, <2>1, <2>2, <2>3, Ends DEF ReaderInv
<1>2. CASE Expire /\ UNCHANGED catVars
  <2>1. UNCHANGED <<catalog, ver, cache, clock, sessions, st>>
    BY <1>2, SMTT(30) DEF Expire, catVars
  <2>2. TypesOK'
    BY <1>0, <2>1 DEF TypesOK
  <2> QED
    BY <1>0, <2>1, <2>2, GoesOn DEF ReaderInv
<1>3. CASE Change(MaxVersion) /\ UNCHANGED catVars
  <2>1. UNCHANGED <<catalog, cache, clock, sessions, st>> /\ ver' = ver + 1
    BY <1>3, SMTT(30) DEF Change, catVars
  <2>2. TypesOK'
    BY <1>0, <2>1, SMTT(30) DEF TypesOK
  <2>3. ReaderOK(st, ver + 1)
    BY <1>0 DEF ReaderOK
  <2>4. \A z, e : Heard(z, e, ver) => Heard(z, e, ver + 1)
    BY <1>0 DEF Heard
  <2>5. AllHeard(sessions, cache, ver + 1) /\ HeldHeard(st, cache, ver + 1)
    BY <1>0, <2>4, Zenon DEF AllHeard, HeldHeard
  <2>6. Readers!Change
    BY <2>1 DEF Readers!Change
  <2> QED
    BY <2>1, <2>2, <2>3, <2>5, <2>6 DEF ReaderInv, Promised, Readers!CacheNext
<1>4. CASE Tick
  <2>1. UNCHANGED <<catalog, ver, cache, sessions, st>> /\ clock' = clock + 1
    BY <1>4, SMTT(30) DEF Tick, connVars
  <2>2. TypesOK'
    BY <1>0, <2>1, SMTT(30) DEF TypesOK
  <2>3. Readers!Tick
    BY <2>1 DEF Readers!Tick
  <2> QED
    BY <1>0, <2>1, <2>2, <2>3 DEF ReaderInv, Promised, Readers!CacheNext
<1>5. CASE Alter
  <2>1. UNCHANGED <<ver, cache, clock, sessions, st>>
    BY <1>5 DEF Alter
  <2>2. catalog'.server \in FirstServers \cup ServerChoices \cup {<<>>}
    <3>1. \/ \E o \in ServerChoices \cup {<<>>} : catalog' = [catalog EXCEPT !.server = o]
          \/ \E m : catalog' = [catalog EXCEPT !.mapping = m]
          \/ \E d : catalog' = [catalog EXCEPT !.dns = d]
          \/ \E b : catalog' = [catalog EXCEPT !.secret = b]
      BY <1>5, SMTT(30) DEF Alter, AlterServer, DropServer, AlterMapping, DropMapping, Resolver
    <3>2. catalog'.server = catalog.server \/ catalog'.server \in ServerChoices \cup {<<>>}
      BY <1>5, <3>1 DEF CatOK
    <3> QED
      BY <1>0, <3>2 DEF TypesOK
  <2>3. TypesOK'
    BY <1>0, <2>1, <2>2 DEF TypesOK
  <2> QED
    BY <1>0, <2>1, <2>3, GoesOn DEF ReaderInv
<1> QED
  BY <1>1, <1>2, <1>3, <1>4, <1>5, SMTT(30) DEF World

\* No reader at first, and nothing to read.
LEMMA InitReads == Init => ReaderInv /\ Readers!CacheInit
<1> SUFFICES ASSUME Init PROVE ReaderInv /\ Readers!CacheInit
  BY SMTT(30)
<1>1. /\ ver = 0 /\ clock = 0 /\ st = Statement0 /\ sessions = [u \in Users |-> NoSession]
      /\ cache = [u \in Users |-> [sl \in Slices |-> NoEntry]]
      /\ catalog.server \in FirstServers
  BY DEF Init
<1>2. NoEntry \in Entry /\ Readers!NoEntry = NoEntry
  BY DEF NoEntry, Entry, Readers!NoEntry
<1>3. TypesOK
  BY <1>1, <1>2, SMTT(30) DEF TypesOK
<1>4. /\ st.stage = "idle" /\ st.floor = 0 /\ st.ttl = 0 /\ st.answer = 0 /\ st.told = 0
      /\ st.phase = "call"
  BY <1>1, Zenon DEF Statement0
<1>5. ReaderOK(st, ver) /\ HeldHeard(st, cache, ver)
  BY <1>1, <1>4 DEF ReaderOK, HeldHeard, Holding
<1>6. AllHeard(sessions, cache, ver)
  <2>1. \A u \in Users : sessions[u] = NoSession /\ cache[u]["tools"] \in Entry
    BY <1>1, <1>2 DEF Slices
  <2>2. ver \in Nat
    BY <1>1
  <2> QED
    BY <2>1, <2>2, NewHeard, Zenon DEF AllHeard
<1>7. [on |-> st.stage # "idle", floor |-> st.floor, ttl |-> st.ttl] = Readers!NoReader
  BY <1>4, ReaderGone, SMTT(30)
<1>8. Readers!CacheInit
  BY <1>1, <1>2, <1>4, <1>7 DEF Readers!CacheInit
<1> QED
  BY <1>3, <1>5, <1>6, <1>8 DEF ReaderInv

\* Every step is one of the contract, or none to its readers.
LEMMA NextReads == ReadInv /\ CatOK /\ [Next]_vars => ReaderInv' /\ Promised
<1> SUFFICES ASSUME ReadInv, CatOK, [Next]_vars PROVE ReaderInv' /\ Promised
  OBVIOUS
<1>1. CASE \E u \in Users, k \in Kinds, ttl \in TableTtls \cup {NoTtl} : Begin(u, k, ttl)
  BY <1>1, BeginReads
<1>2. CASE BackendExit \/ \E u \in Users : refresh(u)
  BY <1>2, ForgetReads
<1>3. CASE Step
  BY <1>3, InitializeReads, InitializedReads, RequestReads, LookUpReads, ScanReads,
     StartReads, LastPageReads, PlanReads, EndReads, NextPageReads, Zenon DEF Step
<1>4. CASE World
  BY <1>4, WorldReads, SMTT(30)
<1>5. CASE UNCHANGED vars
  <2>1. UNCHANGED <<catalog, sessions, st, ver, cache, clock>>
    BY <1>5, SMTT(30) DEF vars, connVars, catVars
  <2>2. TypesOK'
    BY <2>1, Known DEF TypesOK
  <2> QED
    BY <2>1, <2>2, Known, GoesOn DEF ReaderInv
<1> QED
  BY <1>1, <1>2, <1>3, <1>4, <1>5 DEF Next

\* The invariants of the statement, the sessions and the readers, together.
LEMMA ReadAlways == Spec => [](ReadInv /\ CatOK)
<1>1. Init => ReadInv /\ CatOK /\ StatementInv
  BY InitReads, InitHeld, InitStatement DEF ReadInv, StatementInv
<1>2. ReadInv /\ CatOK /\ StatementInv /\ [Next]_vars => (ReadInv /\ CatOK /\ StatementInv)'
  BY NextReads, NextHeld, NextStatement DEF ReadInv, StatementInv
<1> QED
  BY <1>1, <1>2, PTL DEF Spec

\* With its sessions, pages, retries, flags and failures, the cache keeps the
\* bounded-staleness contract of PgCache for every reader (cache.rs, fetch_list,
\* list_all, resolve_tool): each step is a step of the contract or none.
THEOREM Refinement == Spec => FreshEnough
<1>1. Init => Readers!CacheInit
  BY InitReads
<1>2. ReadInv /\ CatOK /\ [Next]_vars => [Readers!CacheNext]_(Readers!cacheVars)
  BY NextReads DEF Promised
<1> QED
  BY <1>1, <1>2, ReadAlways, PTL DEF Spec, FreshEnough, Readers!CacheSpec

\* A scan of the tools table never answers with a list older than the last
\* list_changed notice its session had read before the scan (fetch_list,
\* Notifications).
THEOREM NoticeSafe == Spec => NoticeHonoured
<1>1. ASSUME ReadInv, ScanFromCache, st.kind = "tools"
      PROVE  st'.answer >= st.sess.told
  <2>1. /\ st.stage = "ready" /\ Cached(st.user, "tools", st.ttl) /\ TakeFlag(st).s = st
        /\ st' = [Over(st) EXCEPT !.answer = cache[st.user]["tools"].ver]
    BY <1>1 DEF ScanFromCache, SliceOf
  <2>2. /\ DOMAIN st = Fields /\ st.user \in Users /\ TypesOK
        /\ Heard(st.sess, cache[st.user]["tools"], ver)
        /\ DOMAIN st.sess = {"url", "sid", "changed", "inits", "gone", "told"}
    BY <1>1, <2>1, Known DEF HeldHeard, Holding
  <2>3. st.sess.changed = FALSE
    <3>1. ASSUME st.sess.changed PROVE FALSE
      <4>1. [st EXCEPT !.sess.changed = FALSE] = st
        BY <1>1, <2>1, <3>1 DEF TakeFlag
      <4>2. [st EXCEPT !.sess.changed = FALSE].sess = [st.sess EXCEPT !.changed = FALSE]
        BY <2>2 DEF Fields
      <4>3. [st.sess EXCEPT !.changed = FALSE].changed = FALSE
        BY <2>2
      <4> QED
        BY <3>1, <4>1, <4>2, <4>3, Zenon
    <3> QED
      BY <2>2, <3>1, Zenon DEF Heard
  <2>4. /\ cache[st.user]["tools"] \in Entry /\ cache[st.user]["tools"].full
    BY <2>1, <2>2 DEF TypesOK, Slices, Cached
  <2>5. st.sess.told <= cache[st.user]["tools"].ver /\ st.sess.told \in Nat
        /\ cache[st.user]["tools"].ver \in Nat
    BY <2>2, <2>3, <2>4 DEF Heard, Entry
  <2>6. st'.answer = cache[st.user]["tools"].ver
    BY <2>1 DEF Over, Statement0
  <2> QED
    BY <2>5, <2>6
<1>2. ASSUME ReadInv, LastPage
      PROVE  st'.answer >= st.told
  <2>1. st.stage = "answered" /\ st.phase = "list" /\ DOMAIN st = Fields /\ ReaderOK(st, ver)
    BY <1>2, Known DEF LastPage
  <2>2. st.told <= st.lo /\ st.told \in Nat /\ st.lo \in Nat
    BY <2>1 DEF ReaderOK, Asked
  <2>3. st'.answer = st.lo
    BY <1>2, <2>1 DEF LastPage, Fields, Over, Statement0
  <2> QED
    BY <2>2, <2>3
<1>3. ReadInv /\ CatOK /\ [Next]_vars
        => [/\ ScanFromCache /\ st.kind = "tools" => st'.answer >= st.sess.told
            /\ LastPage /\ st.kind = "tools" => st'.answer >= st.told]_vars
  BY <1>1, <1>2
<1> QED
  BY <1>3, ReadAlways, PTL DEF Spec, NoticeHonoured
=============================================================================
