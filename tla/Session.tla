------------------------------ MODULE Session ------------------------------
(***************************************************************************)
(* A session of the oracle with a CTP counter                               *)
(* (src/cmd/oracle/ctp).  Four parties run at once: the caller of a client, *)
(* the library, whose thread delivers what the front says, another          *)
(* goroutine that may close the client, and the timers.  The caller either  *)
(* fetches the broker's parameters with reconnections                       *)
(* (QueryBrokerParamsReadOnly) or connects once and queries and inserts.    *)
(*                                                                         *)
(* A step is a region under a lock or a native call.  The lock of set-up,   *)
(* sending and release is a variable because the library may call back      *)
(* while it is held; the other locks are held for one step only.            *)
(***************************************************************************)
EXTENDS Integers, Sequences, FiniteSets

CONSTANTS
  Nothing, NoDay,
  Attempts,       \* connections a fetch may try
  Today,          \* the trading day the fetch expects
  Days,           \* what a login may answer
  MaxRows,        \* bound: rows of an answer
  MaxCalls,       \* bound: queries and orders of a caller
  MaxCopies,      \* bound: answers to one request
  Orders,         \* what the caller may order
  ValveSettings   \* allow, max and protected legs

INSTANCE Handshake
INSTANCE QueryBatch
V == INSTANCE Valve

ASSUME AttemptsAssumption == Attempts \in 1 .. 3
ASSUME BoundsAssumption == MaxRows \in Nat /\ MaxCalls \in Nat /\ MaxCopies \in Nat
\* No error is not an error.
ASSUME NothingAssumption ==
  Nothing \notin
    [stage : {"setup", "front", "authenticate", "login", "settlement-confirm"},
     kind : {"already-finished", "invalid-request-id", "send-rejected", "timeout", "response-error",
             "missing-response", "invalid-trading-day", "closed", "disconnected"}]
ASSUME TroubleAssumption ==
  Nothing \notin
    [stage : {"none"},
     kind : {"used", "setup", "rejected", "error", "timeout", "not-one", "closed", "local", "refused", "no-conclusion"}]
\* It is not an answer and not a row either.
ASSUME AnswerAssumption ==
  Nothing \notin {"connected", "refused", "empty", "granted", "unreadable"} \cup Days \cup (Int \X Int)

VARIABLES
  mode,       \* "fetch" or "trade"
  attempt,    \* number of the client in use
  c,          \* the client: closed, started, hs, late, rows, nReq, day, seq, book
  setup,      \* who holds the lock of set-up: "free", "caller"
  caller,     \* where the caller is, and its local variables
  closer,     \* how far Close has come: "idle", "marked", "aborted", "released"
  general,    \* an error without a kind between its two regions, or Nothing
  front,      \* the counter's side: open sessions, requests, orders and reports
  truth       \* what the front really said; read by the properties only
vars == <<mode, attempt, c, setup, caller, closer, general, front, truth>>

Stage == <<"front", "authenticate", "login", "settlement-confirm">>

NewClient ==
  [closed |-> FALSE, started |-> FALSE, hs |-> Nothing, late |-> FALSE, rows |-> NewBatch,
   nReq |-> 0, day |-> NoDay, seq |-> 0, book |-> <<>>]

\* Nothing is posted and nothing reported on a connection that is gone.
Quiet(f) == [f EXCEPT !.init = FALSE, !.posted = {}, !.feed = <<>>]

Put(book, ref, status) == [r \in DOMAIN book \cup {ref} |-> IF r = ref THEN status ELSE book[r]]

At(p) == caller.at = p
Goes(p) == caller' = [caller EXCEPT !.at = p]
Fails(e) == caller' = [caller EXCEPT !.at = "failed", !.err = e]

SessionInit ==
  /\ mode \in {"fetch", "trade"}
  /\ attempt = 1 /\ c = NewClient /\ setup = "free" /\ closer = "idle" /\ general = Nothing
  /\ caller = [at |-> "start", stage |-> 1, id |-> 0, err |-> Nothing, login |-> Nothing, late |-> FALSE,
               rows |-> <<>>, one |-> FALSE, calls |-> 0, ref |-> 0, got |-> "none"]
  /\ front = [open |-> {}, init |-> FALSE, posted |-> {}, orders |-> <<>>, feed |-> <<>>, cancels |-> {}]
  /\ truth = [answered |-> {}, said |-> {}, refused |-> FALSE, owed |-> <<>>, told |-> <<>>]

-----------------------------------------------------------------------------
(* Connect. *)

Connect ==
  /\ At("start")
  /\ IF c.closed \/ c.started THEN Fails(Trouble("used")) /\ UNCHANGED c
     ELSE Goes("setup") /\ c' = [c EXCEPT !.started = TRUE, !.hs = NewHandshake]
  /\ UNCHANGED <<mode, attempt, setup, closer, general, front, truth>>

\* The library is loaded, the callbacks are wired; any of it may fail.
SetUp ==
  /\ At("setup") /\ setup = "free"
  /\ \/ Fails(Trouble("setup")) /\ c' = [c EXCEPT !.hs = Seal(@)] /\ UNCHANGED front
     \/ ~c.closed /\ Goes("prepare") /\ front' = [front EXCEPT !.open = @ \cup {attempt}] /\ UNCHANGED c
  /\ UNCHANGED <<mode, attempt, setup, closer, general, truth>>

Prepare ==
  /\ At("prepare")
  /\ LET stage == Stage[caller.stage]
         id == IF caller.stage = 1 THEN 0 ELSE c.nReq + 1
         e == PrepareError(c.hs, stage, id, c.late)
         h == Prepared(c.hs, stage, id, c.late)
     IN  /\ c' = [c EXCEPT !.nReq = IF caller.stage = 1 THEN @ ELSE id, !.hs = IF e = Nothing THEN h ELSE Seal(h)]
         /\ caller' = IF e = Nothing THEN [caller EXCEPT !.at = "send", !.id = id]
                      ELSE [caller EXCEPT !.at = "failed", !.err = e]
  /\ UNCHANGED <<mode, attempt, setup, closer, general, front, truth>>

Request(kind, rows) == [id |-> caller.id, kind |-> kind, rows |-> rows, copies |-> 0, says |-> Nothing]

\* Init for the first stage, a request for the others; the lock stays held.
Send ==
  /\ At("send") /\ setup = "free"
  /\ IF c.closed
     THEN Goes("wait") /\ c' = [c EXCEPT !.hs = Abort(@, "closed")] /\ UNCHANGED <<setup, front>>
     ELSE /\ Goes("sending") /\ setup' = "caller"
          /\ front' = IF caller.stage = 1 THEN [front EXCEPT !.init = TRUE]
                      ELSE [front EXCEPT !.posted = @ \cup {Request(Stage[caller.stage], <<>>)}]
          /\ UNCHANGED c
  /\ UNCHANGED <<mode, attempt, closer, general, truth>>

\* A code that is not zero beats a success that has already been called back.
SendReturns ==
  /\ At("sending") /\ setup' = "free"
  /\ \/ Goes("wait") /\ UNCHANGED c
     \/ caller.stage # 1 /\ c' = [c EXCEPT !.hs = Seal(@)] /\ Fails(Failure(c.hs, "send-rejected"))
  /\ UNCHANGED <<mode, attempt, closer, general, front, truth>>

WaitForStage ==
  /\ At("wait") /\ Woken(c.hs, c.late)
  /\ LET login == IF caller.stage = 3 THEN c.hs.result ELSE caller.login
         e == IF WaitError(c.hs, c.late) # Nothing THEN WaitError(c.hs, c.late)
              ELSE IF caller.stage = 3 /\ login \notin Days THEN Failure(c.hs, "invalid-trading-day")
              ELSE Nothing
         h == Waited(c.hs, c.late)
     IN  /\ caller' = CASE e # Nothing -> [caller EXCEPT !.at = "failed", !.err = e]
                        [] e = Nothing /\ caller.stage < 4 ->
                             [caller EXCEPT !.at = "prepare", !.stage = @ + 1, !.login = login]
                        [] OTHER -> [caller EXCEPT !.at = "publish"]
         /\ c' = [c EXCEPT !.hs = IF e # Nothing \/ caller.stage = 4 THEN Seal(h) ELSE h]
  /\ UNCHANGED <<mode, attempt, setup, closer, general, front, truth>>

\* The counter's highest reference is 1: the order of an earlier session.
LastRef == 1

\* Faulty variant: the day that is expected is published, whatever was said.
PublishExpected ==
  /\ At("publish")
  /\ IF c.closed THEN Fails(Trouble("closed")) /\ UNCHANGED c
     ELSE Goes("ready") /\ c' = [c EXCEPT !.day = Today, !.seq = LastRef]
  /\ UNCHANGED <<mode, attempt, setup, closer, general, front, truth>>

\* Faulty variant: references start again with every session.
PublishFromZero ==
  /\ At("publish")
  /\ IF c.closed THEN Fails(Trouble("closed")) /\ UNCHANGED c
     ELSE Goes("ready") /\ c' = [c EXCEPT !.day = caller.login]
  /\ UNCHANGED <<mode, attempt, setup, closer, general, front, truth>>

Publish ==
  /\ At("publish")
  /\ IF c.closed THEN Fails(Trouble("closed")) /\ UNCHANGED c
     ELSE Goes("ready") /\ c' = [c EXCEPT !.day = caller.login, !.seq = LastRef]
  /\ UNCHANGED <<mode, attempt, setup, closer, general, front, truth>>

-----------------------------------------------------------------------------
(* Queries. *)

\* The queries, and whether each asks about one thing.
Queries ==
  [Account |-> TRUE, Positions |-> FALSE, Orders |-> FALSE, CommissionRate |-> TRUE, Trades |-> FALSE,
   SettlementText |-> FALSE, Instrument |-> TRUE, BrokerParams |-> TRUE]

BeginQuery ==
  /\ At("ready") /\ caller.calls < MaxCalls
  /\ mode = "fetch" => c.day = Today
  /\ c' = [c EXCEPT !.nReq = @ + 1, !.rows = Begin(c.nReq + 1)]
  /\ \E one \in IF mode = "fetch" THEN {Queries.BrokerParams} ELSE {Queries[q] : q \in DOMAIN Queries} :
     caller' = [caller EXCEPT !.at = "qsend", !.one = one, !.id = c.nReq + 1, !.calls = @ + 1, !.late = FALSE, !.rows = <<>>]
  /\ UNCHANGED <<mode, attempt, setup, closer, general, front, truth>>

QueryFails(e) == caller' = [caller EXCEPT !.at = "queried", !.err = e]

Rejected == Taken(Receive(c.rows, caller.id, Nothing, Trouble("rejected"), TRUE))

SendQuery ==
  /\ At("qsend") /\ setup = "free"
  /\ \/ c.closed /\ QueryFails(Trouble("rejected")) /\ c' = [c EXCEPT !.rows = Rejected] /\ UNCHANGED <<setup, front, truth>>
     \/ /\ ~c.closed /\ setup' = "caller" /\ Goes("qsending")
        /\ \E n \in 0 .. MaxRows : LET rows == [k \in 1 .. n |-> <<caller.id, k>>] IN
             /\ front' = [front EXCEPT !.posted = @ \cup {Request("rows", rows)}]
             /\ truth' = [truth EXCEPT !.owed = rows]
        /\ UNCHANGED c
  /\ UNCHANGED <<mode, attempt, closer, general>>

QuerySendReturns ==
  /\ At("qsending") /\ setup' = "free"
  /\ \/ Goes("qwait") /\ UNCHANGED c
     \/ QueryFails(Trouble("rejected")) /\ c' = [c EXCEPT !.rows = Rejected]
  /\ UNCHANGED <<mode, attempt, closer, general, front, truth>>

WaitForRows ==
  /\ At("qwait") /\ (c.rows.complete \/ caller.late)
  /\ LET e == TakeError(c.rows)
         unique == IF caller.one THEN UniqueError(c.rows.rows) ELSE Nothing
     IN caller' = [caller EXCEPT !.at = "queried", !.err = IF e = Nothing THEN unique ELSE e, !.rows = IF e = Nothing THEN c.rows.rows ELSE <<>>]
  /\ c' = [c EXCEPT !.rows = Taken(@)]
  /\ UNCHANGED <<mode, attempt, setup, closer, general, front, truth>>

\* A fetch ends with its one query, a trader goes on whatever the answer was.
AfterQuery ==
  /\ At("queried")
  /\ IF mode = "fetch" THEN Goes("failed") ELSE caller' = [caller EXCEPT !.at = "ready", !.err = Nothing, !.one = FALSE, !.rows = <<>>]
  /\ UNCHANGED <<mode, attempt, c, setup, closer, general, front, truth>>

-----------------------------------------------------------------------------
(* Orders. *)

\* Statuses an order may be acted on.
Settled == {"queueing", "traded", "canceled"}

Insert(o) ==
  /\ At("ready") /\ mode = "trade" /\ caller.calls < MaxCalls
  /\ V!Admits([allow |-> ValveSettings.allow, max |-> ValveSettings.max, legs |-> ValveSettings.legs, day |-> c.day], o)
  /\ c' = [c EXCEPT !.seq = @ + 1, !.book = Put(@, c.seq + 1, "none")]
  /\ caller' = [caller EXCEPT !.at = "isend", !.ref = c.seq + 1, !.calls = @ + 1, !.late = FALSE, !.got = "none"]
  /\ UNCHANGED <<mode, attempt, setup, closer, general, front, truth>>

InsertFails(e) == caller' = [caller EXCEPT !.at = "inserted", !.err = e, !.got = c.book[caller.ref]]

SendInsert ==
  /\ At("isend") /\ setup = "free"
  /\ IF c.closed THEN InsertFails(Trouble("local")) /\ UNCHANGED <<setup, front, truth>>
     ELSE /\ setup' = "caller" /\ Goes("isending")
          /\ front' = [front EXCEPT !.orders = Put(@, caller.ref, "sent")]
          /\ truth' = [truth EXCEPT !.told = Put(@, caller.ref, {})]
  /\ UNCHANGED <<mode, attempt, c, closer, general>>

InsertSendReturns ==
  /\ At("isending") /\ setup' = "free"
  /\ (Goes("poll") \/ InsertFails(Trouble("refused")))
  /\ UNCHANGED <<mode, attempt, c, closer, general, front, truth>>

\* Only a settled status is a result; a timer that fires first is none.
Poll ==
  /\ At("poll")
  /\ \/ /\ c.book[caller.ref] \in Settled
        /\ caller' = [caller EXCEPT !.at = "inserted", !.got = c.book[caller.ref]]
     \/ caller.late /\ InsertFails(Trouble("no-conclusion"))
  /\ UNCHANGED <<mode, attempt, c, setup, closer, general, front, truth>>

\* Whatever came of it, an order that may still stand is cancelled by its reference.
Cancel ==
  /\ At("inserted") /\ setup = "free"
  /\ UNCHANGED front \/ (~c.closed /\ front' = [front EXCEPT !.cancels = @ \cup {caller.ref}])
  /\ caller' = [caller EXCEPT !.at = "ready", !.err = Nothing]
  /\ UNCHANGED <<mode, attempt, c, setup, closer, general, truth>>

-----------------------------------------------------------------------------
(* Close, by the caller or by another goroutine. *)

MarkClosed == c' = [c EXCEPT !.closed = TRUE] /\ closer' = "marked"

\* The second of two calls of Close returns at once.  A fetch closes without a
\* query when the login said another day, or when its time is up by then.
CallClose ==
  /\ At("failed") \/ At("ready")
  /\ IF c.closed THEN Goes("closed") /\ UNCHANGED <<c, closer>> ELSE Goes("closing") /\ MarkClosed
  /\ UNCHANGED <<mode, attempt, setup, general, front, truth>>

CloseReturns ==
  /\ At("closing") /\ closer = "released"
  /\ Goes("closed")
  /\ UNCHANGED <<mode, attempt, c, setup, closer, general, front, truth>>

ElsewhereClosed ==
  /\ mode = "trade" /\ ~c.closed /\ MarkClosed
  /\ UNCHANGED <<mode, attempt, setup, caller, general, front, truth>>

AbortHandshake ==
  /\ closer = "marked" /\ closer' = "aborting"
  /\ c' = IF c.hs = Nothing THEN c ELSE [c EXCEPT !.hs = Abort(@, "closed")]
  /\ UNCHANGED <<mode, attempt, setup, caller, general, front, truth>>

AbortQueries ==
  /\ closer = "aborting" /\ closer' = "aborted"
  /\ c' = [c EXCEPT !.rows = AbortBatch(@)]
  /\ UNCHANGED <<mode, attempt, setup, caller, general, front, truth>>

\* Faulty variant: the front is not hung up on.
ReleaseMuted ==
  /\ closer = "aborted" /\ setup = "free" /\ closer' = "released"
  /\ front' = Quiet(front)
  /\ general' = Nothing
  /\ UNCHANGED <<mode, attempt, c, setup, caller, truth>>

Release ==
  /\ closer = "aborted" /\ setup = "free" /\ closer' = "released"
  /\ front' = [Quiet(front) EXCEPT !.open = @ \ {attempt}]
  /\ general' = Nothing
  /\ UNCHANGED <<mode, attempt, c, setup, caller, truth>>

-----------------------------------------------------------------------------
(* Reconnection: only a confirmation that timed out is tried again. *)

\* Faulty variant: every stage that timed out is tried again.
AnyTimeout(e) == \E s \in DOMAIN Stage : e = [stage |-> Stage[s], kind |-> "timeout"]

Retryable(e) == e = [stage |-> "settlement-confirm", kind |-> "timeout"]

Retry ==
  /\ At("closed") /\ mode = "fetch" /\ Retryable(caller.err) /\ attempt < Attempts
  /\ attempt' = attempt + 1 /\ c' = NewClient /\ closer' = "idle"
  /\ caller' = [caller EXCEPT !.at = "start", !.stage = 1, !.err = Nothing, !.login = Nothing]
  /\ UNCHANGED <<mode, setup, general, front, truth>>

\* No attempts are left, the time is up, or the error is final.
Finish ==
  /\ At("closed") /\ Goes("done")
  /\ UNCHANGED <<mode, attempt, c, setup, closer, general, front, truth>>

-----------------------------------------------------------------------------
(* The library's thread: what the front says. *)

Said(h) == c' = [c EXCEPT !.hs = h]

FrontConnected ==
  /\ front.init
  /\ Said(Reply(c.hs, "front", 0, "connected", 0, TRUE, c.late))
  /\ truth' = IF c.late THEN truth ELSE [truth EXCEPT !.answered = @ \cup {<<attempt, "front">>}]
  /\ c' # c
  /\ UNCHANGED <<mode, attempt, setup, caller, closer, general, front>>

FrontDisconnected ==
  /\ front.init /\ ~c.hs.stopped
  /\ Said(Abort(c.hs, "disconnected"))
  /\ UNCHANGED <<mode, attempt, setup, caller, closer, general, front, truth>>

\* What the front may say to a request: a value, nothing, or an error.
Sayings(kind) == {"refused", "empty"} \cup (IF kind = "login" THEN Days \cup {"unreadable"} ELSE {"granted"})

\* Copies of an answer say the same; a fetch hears up to MaxCopies of them.
Answered(r, say) ==
  (front.posted \ {r}) \cup
  (IF mode = "fetch" /\ r.copies + 1 < MaxCopies THEN {[r EXCEPT !.copies = @ + 1, !.says = say]} ELSE {})

\* The reports of the day are sent again with every login.
OldReports == <<[ref |-> LastRef, status |-> "canceled"]>>

AnswerHandshake ==
  \E r \in front.posted : \E say \in IF r.says = Nothing THEN Sayings(r.kind) ELSE {r.says} :
    /\ r.kind # "rows"
    /\ Said(Reply(c.hs, r.kind, r.id, IF say \in {"refused", "empty"} THEN Nothing ELSE say,
                  IF say = "refused" THEN 1 ELSE 0, TRUE, c.late))
    /\ truth' = CASE say = "refused" -> [truth EXCEPT !.refused = @ \/ r.kind # "settlement-confirm"]
                  [] say \notin {"refused", "empty"} /\ ~c.late ->
                       [truth EXCEPT !.answered = @ \cup {<<attempt, r.kind>>},
                                     !.said = IF r.kind = "login" THEN @ \cup {<<attempt, say>>} ELSE @]
                  [] OTHER -> truth
    /\ front' = [front EXCEPT !.posted = Answered(r, say),
                              !.feed = IF r.kind = "login" /\ r.copies = 0 THEN OldReports ELSE @]
    /\ UNCHANGED <<mode, attempt, setup, caller, closer, general>>

\* Rows come in order, the last is marked; an answer without rows is one empty mark.
AnswerQuery ==
  \E r \in front.posted :
    /\ r.kind = "rows"
    /\ \/ /\ r.rows # <<>>
          /\ c' = [c EXCEPT !.rows = Receive(@, r.id, Head(r.rows), Nothing, Len(r.rows) = 1)]
          /\ front' = [front EXCEPT !.posted = (@ \ {r}) \cup (IF Len(r.rows) = 1 THEN {} ELSE {[r EXCEPT !.rows = Tail(@)]})]
       \/ /\ c' = [c EXCEPT !.rows = Receive(@, r.id, Nothing, IF r.rows = <<>> THEN Nothing ELSE Trouble("error"), TRUE)]
          /\ front' = [front EXCEPT !.posted = @ \ {r}]
    /\ UNCHANGED <<mode, attempt, setup, caller, closer, general, truth>>

\* OnRspError: the stage is read in one region and used in the next.
GeneralError ==
  \E r \in front.posted :
    /\ general = Nothing /\ r.says = Nothing
    /\ general' = [id |-> r.id, stage |-> c.hs.stage]
    /\ front' = [front EXCEPT !.posted = @ \ {r}]
    /\ truth' = [truth EXCEPT !.refused = @ \/ r.kind \in {"authenticate", "login"}]
    /\ UNCHANGED <<mode, attempt, c, setup, caller, closer>>

GeneralErrorUsed ==
  /\ general # Nothing /\ general' = Nothing
  /\ c' = [c EXCEPT !.hs = Reply(@, general.stage, general.id, Nothing, 1, TRUE, c.late),
                    !.rows = Receive(@, general.id, Nothing, Trouble("error"), TRUE)]
  /\ UNCHANGED <<mode, attempt, setup, caller, closer, front, truth>>

\* An order's next statuses at the counter.
Moves(status, cancelled) ==
  CASE status = "sent"      -> {"submitted", "canceled"}
    [] status = "submitted" -> {"queueing", "traded"}
    [] status = "queueing"  -> {"traded"} \cup (IF cancelled THEN {"canceled"} ELSE {})
    [] OTHER                -> {}

CounterReports ==
  \E ref \in DOMAIN front.orders :
    \E s \in Moves(front.orders[ref], ref \in front.cancels) :
      /\ front.init
      /\ front' = [front EXCEPT !.orders[ref] = s, !.feed = Append(@, [ref |-> ref, status |-> s])]
      /\ truth' = [truth EXCEPT !.told[ref] = @ \cup {s}]
      /\ UNCHANGED <<mode, attempt, c, setup, caller, closer, general>>

\* OnRtnOrder, OnRspOrderInsert and OnErrRtnOrderInsert: the reference says which order.
OrderReported ==
  /\ front.feed # <<>>
  /\ c' = [c EXCEPT !.book = Put(@, Head(front.feed).ref, Head(front.feed).status)]
  /\ front' = [front EXCEPT !.feed = Tail(@)]
  /\ UNCHANGED <<mode, attempt, setup, caller, closer, general, truth>>

-----------------------------------------------------------------------------
(* Timers. *)

HandshakeExpires ==
  /\ c.started /\ ~c.late /\ ~c.hs.stopped
  /\ c' = [c EXCEPT !.late = TRUE]
  /\ UNCHANGED <<mode, attempt, setup, caller, closer, general, front, truth>>

CallExpires ==
  /\ caller.at \in {"qwait", "poll"} /\ ~caller.late
  /\ caller' = [caller EXCEPT !.late = TRUE]
  /\ UNCHANGED <<mode, attempt, c, setup, closer, general, front, truth>>

-----------------------------------------------------------------------------
CallerStep ==
  \/ Connect \/ SetUp \/ Prepare \/ Send \/ SendReturns \/ WaitForStage \/ Publish
  \/ BeginQuery \/ SendQuery \/ QuerySendReturns \/ WaitForRows \/ AfterQuery
  \/ \E o \in Orders : Insert(o)
  \/ SendInsert \/ InsertSendReturns \/ Poll \/ Cancel
  \/ CallClose \/ CloseReturns \/ Retry \/ Finish

CloserStep == AbortHandshake \/ AbortQueries \/ Release

LibraryStep ==
  \/ FrontConnected \/ FrontDisconnected \/ AnswerHandshake \/ AnswerQuery
  \/ GeneralError \/ GeneralErrorUsed \/ CounterReports \/ OrderReported

SessionNext == CallerStep \/ CloserStep \/ ElsewhereClosed \/ LibraryStep \/ HandshakeExpires \/ CallExpires

\* Goroutines are scheduled and native calls return; nothing makes the front
\* answer, and no timer is counted on.
SessionSpec == SessionInit /\ [][SessionNext]_vars /\ WF_vars(CallerStep) /\ WF_vars(CloserStep)

-----------------------------------------------------------------------------
(* Properties. *)

\* A client that has a trading day was granted every stage by this front, in
\* time, and its day is the one this front's login said, however many days the
\* logins of earlier attempts have said.
SuccessIsEarned ==
  c.day # NoDay =>
    /\ \A s \in DOMAIN Stage : <<attempt, Stage[s]>> \in truth.answered
    /\ c.day \in Days /\ <<attempt, c.day>> \in truth.said

\* A query that succeeds gives every row of its own answer, in order, and no
\* row of an earlier answer that came late.
RowsAreOwn == At("queried") /\ caller.err = Nothing => caller.rows = truth.owed

\* The counter never sees two sessions of one fetch at once.
OneSessionAtATime == Cardinality(front.open) <= 1

\* After the front has refused to let the user in, nobody asks again.
RefusedIsFinal ==
  [][truth.refused => \A r \in front'.posted \ front.posted : r.kind \in {"authenticate", "login"} => r.copies > 0]_vars

\* What Insert reports of an order is a status the counter gave to this very
\* order, and one that may be acted on.
InsertTellsOwn ==
  At("inserted") /\ caller.err = Nothing => caller.got \in truth.told[caller.ref] \cap {"queueing", "traded", "canceled"}

\* Close comes to its end and wakes whoever waits for a stage or for rows,
\* without an answer and without a timer.
CloseWakesEverybody ==
  (closer # "idle") ~> (closer = "released" /\ caller.at \notin {"wait", "qwait"})

=============================================================================
