--------------------------- MODULE SessionProofs ---------------------------
(***************************************************************************)
(* Five theorems about a session, for any number of attempts, days, rows,  *)
(* calls, copies and orders.                                               *)
(*                                                                         *)
(* A fetch never has two sessions with the counter: the open one is that   *)
(* of the client in use, which is replaced only after its caller has       *)
(* closed it.  In a fetch nobody else closes, so that whoever is past      *)
(* Close has seen the release.                                             *)
(*                                                                         *)
(* A client has a trading day only when the front has granted it every     *)
(* stage: a collector without an error has heard a grant of the stage it   *)
(* is at, and a stage is asked after the one before was granted.           *)
(*                                                                         *)
(* The others are about what the session tells: a status of an order is    *)
(* one the counter gave to it, the rows of a query are those it is owed,   *)
(* and nobody who was refused asks again.                                  *)
(***************************************************************************)
EXTENDS Session, FiniteSetTheorems, SequenceTheorems, TLAPS

\* The records have their fields, of which only these matter here.
Shape ==
  /\ c = [closed |-> c.closed, started |-> c.started, hs |-> c.hs, late |-> c.late, rows |-> c.rows,
          nReq |-> c.nReq, day |-> c.day, seq |-> c.seq, book |-> c.book]
  /\ caller = [at |-> caller.at, stage |-> caller.stage, id |-> caller.id, err |-> caller.err,
               login |-> caller.login, late |-> caller.late, rows |-> caller.rows, one |-> caller.one,
               calls |-> caller.calls, ref |-> caller.ref, got |-> caller.got]
  /\ front = [open |-> front.open, init |-> front.init, posted |-> front.posted, orders |-> front.orders,
              feed |-> front.feed, cancels |-> front.cancels]
  /\ c.closed \in BOOLEAN

\* A client that is being released is closed, and a released one has no session.
Releasing ==
  /\ closer # "idle" => c.closed
  /\ closer = "released" => front.open = {}

\* In a fetch only the caller closes, and waits for the release.
ClosesItself ==
  mode = "fetch" =>
    /\ c.closed => caller.at \in {"closing", "closed", "done"}
    /\ caller.at \in {"closed", "done"} => closer = "released"

OpenIsOwn == front.open \subseteq {attempt}

Inv == Shape /\ Releasing /\ ClosesItself /\ OpenIsOwn

LEMMA InitInv == SessionInit => Inv
BY DEF SessionInit, Inv, Shape, Releasing, ClosesItself, OpenIsOwn, NewClient

\* A step of the caller that neither closes nor connects leaves the client open
\* or closed as it was, and goes nowhere beyond Close.
Quietly ==
  /\ c' = [closed |-> c.closed, started |-> c'.started, hs |-> c'.hs, late |-> c'.late, rows |-> c'.rows,
           nReq |-> c'.nReq, day |-> c'.day, seq |-> c'.seq, book |-> c'.book]
  /\ caller' = [at |-> caller'.at, stage |-> caller'.stage, id |-> caller'.id, err |-> caller'.err,
                login |-> caller'.login, late |-> caller'.late, rows |-> caller'.rows, one |-> caller'.one,
                calls |-> caller'.calls, ref |-> caller'.ref, got |-> caller'.got]
  /\ front' = [open |-> front.open, init |-> front'.init, posted |-> front'.posted, orders |-> front'.orders,
               feed |-> front'.feed, cancels |-> front'.cancels]
  /\ \/ caller'.at = caller.at
     \/ /\ caller.at \notin {"closing", "closed", "done"}
        /\ caller'.at \notin {"closing", "closed", "done"}
  /\ UNCHANGED <<mode, attempt, closer>>

LEMMA QuietlyKeeps == Inv /\ Quietly => Inv'
BY DEF Inv, Quietly, Shape, Releasing, ClosesItself, OpenIsOwn

-----------------------------------------------------------------------------
\* Connecting, apart from the native call that opens the session.
LEMMA ConnectingIsQuiet ==
  Shape /\ (Connect \/ Prepare \/ Send \/ SendReturns \/ WaitForStage \/ Publish) => Quietly
<1> SUFFICES ASSUME Shape, Connect \/ Prepare \/ Send \/ SendReturns \/ WaitForStage \/ Publish
    PROVE Quietly
  OBVIOUS
<1> USE DEF Shape, Quietly, At, Goes, Fails
<1>1. CASE Connect
  BY <1>1 DEF Connect
<1>2. CASE Prepare
  BY <1>2 DEF Prepare
<1>3. CASE Send
  BY <1>3 DEF Send
<1>4. CASE SendReturns
  BY <1>4 DEF SendReturns
<1>5. CASE WaitForStage
  BY <1>5 DEF WaitForStage
<1>6. CASE Publish
  BY <1>6 DEF Publish
<1>. QED
  BY <1>1, <1>2, <1>3, <1>4, <1>5, <1>6

\* Queries.
LEMMA QueryingIsQuiet ==
  Shape /\ (BeginQuery \/ SendQuery \/ QuerySendReturns \/ WaitForRows \/ AfterQuery) => Quietly
<1> SUFFICES ASSUME Shape, BeginQuery \/ SendQuery \/ QuerySendReturns \/ WaitForRows \/ AfterQuery
    PROVE Quietly
  OBVIOUS
<1> USE DEF Shape, Quietly, At, Goes, QueryFails
<1>1. CASE BeginQuery
  BY <1>1 DEF BeginQuery
<1>2. CASE SendQuery
  BY <1>2 DEF SendQuery
<1>3. CASE QuerySendReturns
  BY <1>3 DEF QuerySendReturns
<1>4. CASE WaitForRows
  BY <1>4 DEF WaitForRows
<1>5. CASE AfterQuery
  BY <1>5 DEF AfterQuery
<1>. QED
  BY <1>1, <1>2, <1>3, <1>4, <1>5

\* Orders.
LEMMA OrderingIsQuiet ==
  Shape /\ ((\E o \in Orders : Insert(o)) \/ SendInsert \/ InsertSendReturns \/ Poll \/ Cancel) => Quietly
<1> SUFFICES ASSUME Shape,
                    (\E o \in Orders : Insert(o)) \/ SendInsert \/ InsertSendReturns \/ Poll \/ Cancel
    PROVE Quietly
  OBVIOUS
<1> USE DEF Shape, Quietly, At, Goes, InsertFails
<1>1. ASSUME NEW o \in Orders, Insert(o) PROVE Quietly
  BY <1>1 DEF Insert
<1>2. CASE SendInsert
  BY <1>2 DEF SendInsert
<1>3. CASE InsertSendReturns
  BY <1>3 DEF InsertSendReturns
<1>4. CASE Poll
  <2>1. caller.at = "poll" /\ UNCHANGED <<mode, attempt, c, closer, front>>
    BY <1>4 DEF Poll
  <2>2. CASE caller' = [caller EXCEPT !.at = "inserted", !.got = c.book[caller.ref]]
    BY <2>1, <2>2
  <2>3. CASE InsertFails(Trouble("no-conclusion"))
    BY <2>1, <2>3
  <2>. QED
    BY <1>4, <2>2, <2>3, Zenon DEF Poll
<1>5. CASE Cancel
  BY <1>5 DEF Cancel
<1>. QED
  BY <1>1, <1>2, <1>3, <1>4, <1>5

\* The library's thread and the timers.
LEMMA OthersAreQuiet ==
  Shape /\ (LibraryStep \/ HandshakeExpires \/ CallExpires) => Quietly
<1> SUFFICES ASSUME Shape, LibraryStep \/ HandshakeExpires \/ CallExpires PROVE Quietly
  OBVIOUS
<1> USE DEF Shape, Quietly, Said
<1>1. CASE FrontConnected \/ FrontDisconnected
  BY <1>1 DEF FrontConnected, FrontDisconnected
<1>2. CASE AnswerHandshake
  BY <1>2 DEF AnswerHandshake
<1>3. CASE AnswerQuery
  BY <1>3 DEF AnswerQuery
<1>4. CASE GeneralError
  BY <1>4 DEF GeneralError
<1>5. CASE GeneralErrorUsed
  BY <1>5 DEF GeneralErrorUsed
<1>6. CASE CounterReports
  BY <1>6 DEF CounterReports
<1>7. CASE OrderReported
  BY <1>7 DEF OrderReported
<1>8. CASE HandshakeExpires \/ CallExpires
  BY <1>8 DEF HandshakeExpires, CallExpires
<1>. QED
  BY <1>1, <1>2, <1>3, <1>4, <1>5, <1>6, <1>7, <1>8 DEF LibraryStep

-----------------------------------------------------------------------------
LEMMA NextInv == Inv /\ [SessionNext]_vars => Inv'
<1> SUFFICES ASSUME Inv, [SessionNext]_vars PROVE Inv'
  OBVIOUS
<1>1. CASE Connect \/ Prepare \/ Send \/ SendReturns \/ WaitForStage \/ Publish
  BY <1>1, ConnectingIsQuiet, QuietlyKeeps DEF Inv
<1>2. CASE BeginQuery \/ SendQuery \/ QuerySendReturns \/ WaitForRows \/ AfterQuery
  BY <1>2, QueryingIsQuiet, QuietlyKeeps DEF Inv
<1>3. CASE (\E o \in Orders : Insert(o)) \/ SendInsert \/ InsertSendReturns \/ Poll \/ Cancel
  BY <1>3, OrderingIsQuiet, QuietlyKeeps DEF Inv
<1>4. CASE LibraryStep \/ HandshakeExpires \/ CallExpires
  BY <1>4, OthersAreQuiet, QuietlyKeeps DEF Inv
<1>5. CASE SetUp
  \* The one step that opens a session, of a client that nobody has closed.
  BY <1>5 DEF SetUp, At, Goes, Fails, Inv, Shape, Releasing, ClosesItself, OpenIsOwn
<1>6. CASE CallClose
  BY <1>6 DEF CallClose, MarkClosed, At, Goes, Inv, Shape, Releasing, ClosesItself, OpenIsOwn
<1>7. CASE CloseReturns \/ Finish
  BY <1>7 DEF CloseReturns, Finish, At, Goes, Inv, Shape, Releasing, ClosesItself, OpenIsOwn
<1>8. CASE Retry
  \* The session of the client before is gone.
  BY <1>8 DEF Retry, NewClient, At, Inv, Shape, Releasing, ClosesItself, OpenIsOwn
<1>9. CASE CloserStep
  <2> USE DEF Inv, Shape, Releasing, ClosesItself, OpenIsOwn
  <2>1. CASE AbortHandshake \/ AbortQueries
    BY <2>1 DEF AbortHandshake, AbortQueries
  <2>2. CASE Release
    BY <2>2 DEF Release, Quiet
  <2>. QED
    BY <1>9, <2>1, <2>2 DEF CloserStep
<1>10. CASE ElsewhereClosed
  BY <1>10 DEF ElsewhereClosed, MarkClosed, Inv, Shape, Releasing, ClosesItself, OpenIsOwn
<1>11. CASE UNCHANGED vars
  BY <1>11 DEF vars, Inv, Shape, Releasing, ClosesItself, OpenIsOwn
<1>. QED
  BY <1>1, <1>2, <1>3, <1>4, <1>5, <1>6, <1>7, <1>8, <1>9, <1>10, <1>11 DEF SessionNext, CallerStep

(***************************************************************************)
(* The counter never sees two sessions of one fetch at once, however many  *)
(* attempts it takes (ctp/readonly_retry.go).                              *)
(***************************************************************************)
THEOREM SessionsDoNotOverlap == SessionSpec => []OneSessionAtATime
<1>1. Inv => OneSessionAtATime
  <2> SUFFICES ASSUME front.open \subseteq {attempt} PROVE Cardinality(front.open) <= 1
    BY DEF Inv, OpenIsOwn, OneSessionAtATime
  <2>1. CASE front.open = {}
    BY <2>1, FS_EmptySet
  <2>2. CASE front.open = {attempt}
    BY <2>2, FS_Singleton
  <2>. QED
    BY <2>1, <2>2
<1>. QED
  BY InitInv, NextInv, <1>1, PTL DEF SessionSpec

-----------------------------------------------------------------------------
(* What is earned.  The stages are passed one after another; a stage is    *)
(* passed when the collector is complete without an error, and nothing but *)
(* a grant of the front makes it so.                                       *)

Granted(s) == <<attempt, Stage[s]>> \in truth.answered
Named(day) == <<attempt, day>> \in truth.said

StageNames == {"setup", "front", "authenticate", "login", "settlement-confirm"}
Kinds == {"already-finished", "invalid-request-id", "send-rejected", "timeout", "response-error",
          "missing-response", "invalid-trading-day", "closed", "disconnected"}

Connecting == {"prepare", "send", "sending", "wait"}
Asking == {"send", "sending", "wait"}
Beyond == {"start", "failed", "closing", "closed", "done"}

Collector(h) ==
  /\ DOMAIN h = {"stage", "id", "active", "complete", "stopped", "result", "err", "abortErr"}
  /\ h.stage \in StageNames
  /\ h.active \in BOOLEAN /\ h.complete \in BOOLEAN /\ h.stopped \in BOOLEAN

Recorded ==
  /\ truth = [answered |-> truth.answered, said |-> truth.said, refused |-> truth.refused, owed |-> truth.owed, told |-> truth.told]
  /\ c.started \in BOOLEAN /\ c.late \in BOOLEAN /\ front.init \in BOOLEAN
  /\ ~c.started => c.hs = Nothing
  /\ c.started => Collector(c.hs)

\* Before a client has begun and after its release the front says nothing to it.
Silent ==
  /\ caller.at \notin Beyond => c.started
  /\ ~c.started \/ closer = "released" => ~front.init /\ front.posted = {} /\ general = Nothing

Passed ==
  /\ caller.at \in {"start", "setup"} => caller.stage = 1
  /\ caller.at \in Connecting =>
       /\ caller.stage \in 1 .. 4
       /\ \A s \in 1 .. 4 : s < caller.stage => Granted(s)
       /\ caller.stage = 4 => caller.login \in Days /\ Named(caller.login)
  /\ caller.at = "publish" => (\A s \in 1 .. 4 : Granted(s)) /\ caller.login \in Days /\ Named(caller.login)
  /\ c.day # NoDay => (\A s \in 1 .. 4 : Granted(s)) /\ c.day \in Days /\ Named(c.day)

\* A collector that is complete without an error was granted the stage it is at,
\* and at the login it holds the day that was said.
Heard ==
  caller.at \in Asking =>
    /\ c.hs.stage = Stage[caller.stage]
    /\ c.hs.complete /\ c.hs.err = Nothing /\ c.hs.abortErr = Nothing =>
         Granted(caller.stage) /\ (caller.stage = 3 => Named(c.hs.result))

Earned == Recorded /\ Silent /\ Passed /\ Heard

LEMMA StageFacts ==
  /\ DOMAIN Stage = 1 .. 4
  /\ Stage[1] = "front" /\ Stage[2] = "authenticate" /\ Stage[3] = "login" /\ Stage[4] = "settlement-confirm"
  /\ \A s \in 1 .. 4 : Stage[s] \in StageNames
<1>1. Stage[1] = "front"
  BY DEF Stage
<1>2. Stage[2] = "authenticate"
  BY DEF Stage
<1>3. Stage[3] = "login"
  BY DEF Stage
<1>4. Stage[4] = "settlement-confirm"
  BY DEF Stage
<1>5. DOMAIN Stage = 1 .. 4
  BY DEF Stage
<1>6. ASSUME NEW s \in 1 .. 4 PROVE Stage[s] \in StageNames
  <2>1. s = 1 \/ s = 2 \/ s = 3 \/ s = 4
    OBVIOUS
  <2>. QED
    BY <1>1, <1>2, <1>3, <1>4, <2>1 DEF StageNames
<1>. QED
  BY <1>1, <1>2, <1>3, <1>4, <1>5, <1>6

LEMMA FailureIsError ==
  ASSUME NEW h, h.stage \in StageNames, NEW kind \in Kinds
  PROVE  Failure(h, kind) # Nothing
BY NothingAssumption DEF Failure, StageNames, Kinds

LEMMA InitEarned == SessionInit => Earned
BY DEF SessionInit, Earned, Recorded, Silent, Passed, Heard, NewClient, Connecting, Asking, Beyond

\* A step that leaves connecting aside: neither the collector nor the day, and
\* the caller is not at a stage.
Aside ==
  /\ c'.hs = c.hs /\ c'.day = c.day /\ c'.started = c.started /\ c'.late = c.late /\ front'.init = front.init
  /\ UNCHANGED <<attempt, closer, general>>
  /\ truth' = [answered |-> truth.answered, said |-> truth.said, refused |-> truth'.refused, owed |-> truth'.owed, told |-> truth'.told]
  /\ \/ caller' = caller
     \/ /\ caller.at \notin Connecting \cup {"start", "setup", "publish"}
        /\ caller'.at \notin Connecting \cup {"start", "setup", "publish"}
        /\ caller'.at \notin Beyond => c.started
  /\ front'.posted \subseteq front.posted \/ (c.started /\ closer # "released")

LEMMA AsideKeeps == Earned /\ Aside => Earned'
<1> SUFFICES ASSUME Earned, Aside PROVE Earned'
  OBVIOUS
<1> USE DEF Earned, Aside
<1>1. Recorded'
  BY DEF Recorded
<1>2. Silent'
  BY DEF Silent
<1>3. /\ \A s : Granted(s)' <=> Granted(s)
      /\ \A day : (<<attempt, day>> \in truth.said)' <=> <<attempt, day>> \in truth.said
  BY DEF Granted
<1>4. Passed'
  BY <1>3 DEF Passed, Connecting, Named
<1>5. Heard'
  BY <1>3 DEF Heard, Connecting, Asking, Named
<1>. QED
  BY <1>1, <1>2, <1>4, <1>5

\* What a query changes when its rows are taken.
LEMMA RowsTaken ==
  ASSUME WaitForRows
  PROVE  /\ caller.at = "qwait"
         /\ \E e, rows : caller' = [caller EXCEPT !.at = "queried", !.err = e, !.rows = rows]
         /\ c' = [c EXCEPT !.rows = Taken(@)]
         /\ UNCHANGED <<attempt, closer, general, front, truth>>
<1>1. caller.at = "qwait"
  BY Zenon DEF WaitForRows, At
<1>2. \E e, rows : caller' = [caller EXCEPT !.at = "queried", !.err = e, !.rows = rows]
  BY Zenon DEF WaitForRows
<1>3. c' = [c EXCEPT !.rows = Taken(@)]
  BY Zenon DEF WaitForRows
<1>4. UNCHANGED <<attempt, closer, general, front, truth>>
  BY Zenon DEF WaitForRows
<1>. QED
  BY <1>1, <1>2, <1>3, <1>4, Zenon

LEMMA AsideSteps ==
  ASSUME Inv, Earned,
         \/ BeginQuery \/ SendQuery \/ QuerySendReturns \/ WaitForRows \/ AfterQuery
         \/ (\E o \in Orders : Insert(o)) \/ SendInsert \/ InsertSendReturns \/ Poll \/ Cancel
         \/ CallClose \/ CloseReturns \/ Finish
         \/ AnswerQuery \/ CounterReports \/ OrderReported \/ CallExpires
  PROVE  Earned'
<1> USE DEF Inv, Shape, Releasing, Recorded, Silent, Earned, Aside, At, Goes, Connecting, Beyond
<1>1. CASE BeginQuery
  <2>1. PICK one : caller' = [caller EXCEPT !.at = "qsend", !.one = one, !.id = c.nReq + 1,
                                            !.calls = @ + 1, !.late = FALSE, !.rows = <<>>]
    BY <1>1 DEF BeginQuery
  <2>2. c' = [c EXCEPT !.nReq = @ + 1, !.rows = Begin(c.nReq + 1)]
    BY <1>1 DEF BeginQuery
  <2>3. caller.at = "ready" /\ UNCHANGED <<attempt, closer, general, front, truth>>
    BY <1>1 DEF BeginQuery
  <2>. QED
    BY <2>1, <2>2, <2>3, AsideKeeps
<1>2. CASE SendQuery
  BY <1>2, AsideKeeps DEF SendQuery, QueryFails
<1>3. CASE QuerySendReturns
  BY <1>3, AsideKeeps DEF QuerySendReturns, QueryFails
<1>4. CASE WaitForRows
  <2>1. PICK e, rows : caller' = [caller EXCEPT !.at = "queried", !.err = e, !.rows = rows]
    BY <1>4, RowsTaken
  <2>2. c' = [c EXCEPT !.rows = Taken(@)] /\ UNCHANGED <<attempt, closer, general, front, truth>>
    BY <1>4, RowsTaken
  <2>3. caller.at = "qwait"
    BY <1>4, RowsTaken
  <2>. QED
    BY <2>1, <2>2, <2>3, AsideKeeps
<1>5. CASE AfterQuery
  BY <1>5, AsideKeeps DEF AfterQuery
<1>6. ASSUME NEW o \in Orders, Insert(o) PROVE Earned'
  BY <1>6, AsideKeeps DEF Insert
<1>7. CASE SendInsert
  BY <1>7, AsideKeeps DEF SendInsert, InsertFails
<1>8. CASE InsertSendReturns
  BY <1>8, AsideKeeps DEF InsertSendReturns, InsertFails
<1>9. CASE Poll
  <2>1. caller.at = "poll" /\ UNCHANGED <<mode, attempt, c, closer, general, front, truth>>
    BY <1>9 DEF Poll
  <2>2. CASE caller' = [caller EXCEPT !.at = "inserted", !.got = c.book[caller.ref]]
    BY <2>1, <2>2, AsideKeeps
  <2>3. CASE InsertFails(Trouble("no-conclusion"))
    BY <2>1, <2>3, AsideKeeps DEF InsertFails
  <2>. QED
    BY <1>9, <2>2, <2>3, Zenon DEF Poll
<1>10. CASE Cancel
  BY <1>10, AsideKeeps DEF Cancel
<1>11. CASE AnswerQuery
  BY <1>11, AsideKeeps DEF AnswerQuery
<1>12. CASE CounterReports
  <2>0. PICK ref \in DOMAIN front.orders : \E s \in Moves(front.orders[ref], ref \in front.cancels) :
          /\ front' = [front EXCEPT !.orders[ref] = s, !.feed = Append(@, [ref |-> ref, status |-> s])]
          /\ truth' = [truth EXCEPT !.told[ref] = @ \cup {s}]
          /\ UNCHANGED <<mode, attempt, c, setup, caller, closer, general>>
    BY <1>12, Zenon DEF CounterReports
  <2>1. PICK s : /\ front' = [front EXCEPT !.orders[ref] = s, !.feed = Append(@, [ref |-> ref, status |-> s])]
                 /\ truth' = [truth EXCEPT !.told[ref] = @ \cup {s}]
                 /\ UNCHANGED <<mode, attempt, c, setup, caller, closer, general>>
    BY <2>0, Zenon
  <2>2. front'.init = front.init /\ front'.posted = front.posted
    BY <2>1
  <2>3. truth' = [answered |-> truth.answered, said |-> truth.said, refused |-> truth'.refused,
                  owed |-> truth'.owed, told |-> truth'.told]
    BY <2>1
  <2>. QED
    BY <2>1, <2>2, <2>3, AsideKeeps
<1>13. CASE OrderReported \/ CallExpires
  BY <1>13, AsideKeeps DEF OrderReported, CallExpires
<1>14. CASE CallClose
  <2>1. /\ UNCHANGED <<attempt, general, front, truth>>
        /\ c'.hs = c.hs /\ c'.day = c.day /\ c'.started = c.started /\ c'.late = c.late
        /\ caller'.at \in {"closing", "closed"} /\ (closer' = closer \/ closer' = "marked")
    BY <1>14 DEF CallClose, MarkClosed
  <2>2. Recorded'
    BY <2>1
  <2>3. Silent'
    BY <2>1
  <2>4. Passed' /\ Heard'
    BY <2>1 DEF Passed, Heard, Asking, Granted, Named
  <2>. QED
    BY <2>2, <2>3, <2>4
<1>15. CASE CloseReturns \/ Finish
  BY <1>15, AsideKeeps DEF CloseReturns, Finish
<1>. QED
  BY <1>1, <1>2, <1>3, <1>4, <1>5, <1>6, <1>7, <1>8, <1>9, <1>10, <1>11, <1>12, <1>13, <1>14, <1>15

-----------------------------------------------------------------------------
\* The collector: asking again forgets what was heard.
LEMMA PreparedFacts ==
  ASSUME NEW h, Collector(h), NEW stage \in StageNames, NEW id, NEW late \in BOOLEAN
  PROVE  /\ Collector(Prepared(h, stage, id, late))
         /\ PrepareError(h, stage, id, late) = Nothing =>
              /\ Prepared(h, stage, id, late).stage = stage
              /\ ~Prepared(h, stage, id, late).complete
<1>1. Collector(Asked(h, stage, id)) /\ (~h.stopped => Asked(h, stage, id).stage = stage)
  BY DEF Collector, Asked
<1>2. Collector(Prepared(h, stage, id, late))
  BY <1>1 DEF Collector, Prepared
<1>3. ASSUME PrepareError(h, stage, id, late) = Nothing PROVE ~h.stopped
  <2>1. Failure(h, "already-finished") # Nothing
    BY FailureIsError DEF Collector, Kinds
  <2>. QED
    BY <1>3, <2>1 DEF PrepareError, Collector
<1>. QED
  BY <1>1, <1>2, <1>3 DEF Prepared, Collector

\* Whoever waits is told of an error unless the answer came, came in time and was good.
LEMMA WaitedFacts ==
  ASSUME NEW h, Collector(h), NEW late \in BOOLEAN
  PROVE  /\ Collector(Waited(h, late))
         /\ WaitError(h, late) = Nothing => h.complete /\ h.err = Nothing /\ h.abortErr = Nothing
<1>1. Failure(h, "timeout") # Nothing
  BY FailureIsError DEF Collector, Kinds
<1>4. Collector(Waited(h, late))
  BY DEF Collector, Waited
<1>5. Waited(h, late).err = IF h.abortErr = Nothing /\ (~h.complete \/ late) THEN Failure(h, "timeout") ELSE h.err
  BY DEF Collector, Waited
<1>. QED
  BY <1>1, <1>4, <1>5 DEF WaitError, Collector

\* An answer of one message.
Heeds(h, stage, id, value, code, late) == Reply(h, stage, id, value, code, TRUE, late)

\* An answer counts for the stage that is asked, and only a value is a success.
LEMMA ReplyFacts ==
  ASSUME NEW h, Collector(h), NEW stage, NEW id, NEW value, NEW code, NEW late
  PROVE  /\ Collector(Heeds(h, stage, id, value, code, late))
         /\ Heeds(h, stage, id, value, code, late).stage = h.stage
         /\ \/ Heeds(h, stage, id, value, code, late) = h
            \/ /\ Listening(h, stage, id, late)
               /\ \/ code = 0 /\ value # Nothing /\ Heeds(h, stage, id, value, code, late).result = value
                  \/ Heeds(h, stage, id, value, code, late).err # Nothing
<1>1. Failure(h, "response-error") # Nothing /\ Failure(h, "missing-response") # Nothing
  BY FailureIsError DEF Collector, Kinds
<1>. QED
  BY <1>1 DEF Collector, Heeds, Reply

LEMMA AbortFacts ==
  ASSUME NEW h, Collector(h), NEW kind \in Kinds
  PROVE  /\ Collector(Abort(h, kind)) /\ Abort(h, kind).stage = h.stage
         /\ Abort(h, kind) = h \/ Abort(h, kind).abortErr # Nothing
<1>1. Failure(h, kind) # Nothing
  BY FailureIsError DEF Collector
<1>. QED
  BY <1>1 DEF Collector, Abort

LEMMA SealFacts ==
  ASSUME NEW h, Collector(h)
  PROVE  Collector(Seal(h))
BY DEF Collector, Seal

-----------------------------------------------------------------------------
(* The caller, from one stage to the next. *)

LEMMA ConnectEarned ==
  ASSUME Inv, Earned, Connect
  PROVE  Earned'
<1> USE DEF Inv, Shape, Earned, Recorded, Silent, Passed, Heard, Granted, Named, Connecting, Asking, Beyond,
            Connect, At, Goes, Fails
<1>1. Collector(NewHandshake)
  BY DEF Collector, NewHandshake, StageNames
<1>2. CASE c.closed \/ c.started
  BY <1>2
<1>3. CASE ~(c.closed \/ c.started)
  BY <1>1, <1>3
<1>. QED
  BY <1>2, <1>3

LEMMA SetUpEarned ==
  ASSUME Inv, Earned, SetUp
  PROVE  Earned'
<1> USE DEF Inv, Shape, Releasing, Earned, Recorded, Silent, Passed, Heard, Granted, Named, Connecting, Asking, Beyond, At
<1>1. caller.at = "setup" /\ c.started /\ caller.stage = 1
  BY DEF SetUp
<1>2. Collector(Seal(c.hs))
  BY <1>1, SealFacts
<1>3. CASE Fails(Trouble("setup")) /\ c' = [c EXCEPT !.hs = Seal(@)] /\ UNCHANGED front
  BY <1>1, <1>2, <1>3 DEF SetUp, Fails
<1>4. CASE ~c.closed /\ Goes("prepare") /\ front' = [front EXCEPT !.open = @ \cup {attempt}] /\ UNCHANGED c
  <2>1. UNCHANGED <<mode, attempt, setup, closer, general, truth>>
    BY DEF SetUp
  <2>2. ~\E s \in 1 .. 4 : s < 1
    OBVIOUS
  <2>3. caller'.at = "prepare" /\ caller'.stage = 1
    BY <1>1, <1>4 DEF Goes
  <2>4. Recorded'
    BY <1>1, <1>4, <2>1, <2>2, <2>3
  <2>5. Silent'
    BY <1>1, <1>4, <2>1, <2>2, <2>3
  <2>6. Passed'
    BY <1>1, <1>4, <2>1, <2>2, <2>3
  <2>7. Heard'
    BY <1>1, <1>4, <2>1, <2>2, <2>3
  <2>. QED
    BY <2>4, <2>5, <2>6, <2>7
<1>. QED
  BY <1>3, <1>4 DEF SetUp

LEMMA PrepareEarned ==
  ASSUME Inv, Earned, Prepare
  PROVE  Earned'
<1> USE DEF Inv, Shape, Releasing, Earned, Recorded, Silent, Passed, Heard, Granted, Named, Connecting, Asking, Beyond, At
<1> DEFINE stage == Stage[caller.stage]
           id == IF caller.stage = 1 THEN 0 ELSE c.nReq + 1
           e == PrepareError(c.hs, stage, id, c.late)
           h == Prepared(c.hs, stage, id, c.late)
<1>1. caller.at = "prepare" /\ c.started /\ caller.stage \in 1 .. 4 /\ Collector(c.hs) /\ c.late \in BOOLEAN
  BY DEF Prepare
<1>2. stage \in StageNames
  BY <1>1, StageFacts
<1>3. Collector(h) /\ (e = Nothing => h.stage = stage /\ ~h.complete)
  BY <1>1, <1>2, PreparedFacts
<1>4. UNCHANGED <<mode, attempt, setup, closer, general, front, truth>>
  BY DEF Prepare
<1>5. CASE e = Nothing
  <2>1. PICK n : c' = [c EXCEPT !.nReq = n, !.hs = h]
    BY <1>5, Zenon DEF Prepare
  <2>2. caller' = [caller EXCEPT !.at = "send", !.id = id]
    BY <1>5, Zenon DEF Prepare
  <2> HIDE DEF stage, id, e, h
  <2>3. h.stage = Stage[caller.stage]
    BY <1>3, <1>5 DEF stage
  <2>. QED
    BY <1>1, <1>3, <1>4, <1>5, <2>1, <2>2, <2>3
<1>6. CASE e # Nothing
  <2>1. PICK n : c' = [c EXCEPT !.nReq = n, !.hs = Seal(h)]
    BY <1>6, Zenon DEF Prepare
  <2>2. caller' = [caller EXCEPT !.at = "failed", !.err = e]
    BY <1>6, Zenon DEF Prepare
  <2>3. Collector(Seal(h))
    BY <1>3, SealFacts
  <2> HIDE DEF stage, id, e, h
  <2>. QED
    BY <1>1, <1>4, <2>1, <2>2, <2>3
<1>. QED
  BY <1>5, <1>6

LEMMA SendEarned ==
  ASSUME Inv, Earned, Send
  PROVE  Earned'
<1> USE DEF Inv, Shape, Releasing, Earned, Recorded, Silent, Passed, Heard, Granted, Named, Connecting, Asking, Beyond, At
<1>1. caller.at = "send" /\ c.started /\ Collector(c.hs)
  BY DEF Send
<1>2. UNCHANGED <<mode, attempt, closer, general, truth>>
  BY DEF Send
<1>3. CASE c.closed
  <2>1. c' = [c EXCEPT !.hs = Abort(@, "closed")] /\ UNCHANGED <<setup, front>>
    BY <1>3, Zenon DEF Send
  <2>2. caller' = [caller EXCEPT !.at = "wait"]
    BY <1>3, Zenon DEF Send, Goes
  <2>3. /\ Collector(Abort(c.hs, "closed")) /\ Abort(c.hs, "closed").stage = c.hs.stage
        /\ Abort(c.hs, "closed") = c.hs \/ Abort(c.hs, "closed").abortErr # Nothing
    BY <1>1, AbortFacts DEF Kinds
  <2>. QED
    BY <1>1, <1>2, <2>1, <2>2, <2>3
<1>4. CASE ~c.closed
  <2>1. caller' = [caller EXCEPT !.at = "sending"] /\ UNCHANGED c
    BY <1>4, Zenon DEF Send, Goes
  <2>2. CASE caller.stage = 1
    <3>1. front' = [front EXCEPT !.init = TRUE]
      BY <1>4, <2>2, Zenon DEF Send
    <3>. QED
      BY <1>1, <1>2, <1>4, <2>1, <3>1
  <2>3. CASE caller.stage # 1
    <3>1. PICK posted : front' = [front EXCEPT !.posted = posted]
      BY <1>4, <2>3, Zenon DEF Send
    <3>. QED
      BY <1>1, <1>2, <1>4, <2>1, <3>1
  <2>. QED
    BY <2>2, <2>3
<1>. QED
  BY <1>3, <1>4

LEMMA SendReturnsEarned ==
  ASSUME Inv, Earned, SendReturns
  PROVE  Earned'
<1> USE DEF Inv, Shape, Releasing, Earned, Recorded, Silent, Passed, Heard, Granted, Named, Connecting, Asking, Beyond, At
<1>1. caller.at = "sending" /\ c.started /\ Collector(c.hs)
  BY DEF SendReturns
<1>2. UNCHANGED <<mode, attempt, closer, general, front, truth>>
  BY DEF SendReturns
<1>3. Collector(Seal(c.hs))
  BY <1>1, SealFacts
<1>4. CASE Goes("wait") /\ UNCHANGED c
  BY <1>1, <1>2, <1>4 DEF Goes
<1>5. CASE c' = [c EXCEPT !.hs = Seal(@)] /\ Fails(Failure(c.hs, "send-rejected"))
  BY <1>1, <1>2, <1>3, <1>5 DEF Fails
<1>. QED
  BY <1>4, <1>5 DEF SendReturns

LEMMA WaitForStageEarned ==
  ASSUME Inv, Earned, WaitForStage
  PROVE  Earned'
<1> USE DEF Inv, Shape, Releasing, Earned, Recorded, Silent, Passed, Heard, Granted, Named, Connecting, Asking, Beyond, At
<1> DEFINE login == IF caller.stage = 3 THEN c.hs.result ELSE caller.login
           e == IF WaitError(c.hs, c.late) # Nothing THEN WaitError(c.hs, c.late)
                ELSE IF caller.stage = 3 /\ login \notin Days THEN Failure(c.hs, "invalid-trading-day")
                ELSE Nothing
           h == Waited(c.hs, c.late)
<1>1. caller.at = "wait" /\ c.started /\ Collector(c.hs) /\ caller.stage \in 1 .. 4 /\ c.late \in BOOLEAN
  BY DEF WaitForStage
<1>2. UNCHANGED <<mode, attempt, setup, closer, general, front, truth>>
  BY DEF WaitForStage
<1>3. Collector(h) /\ Collector(Seal(h))
  BY <1>1, WaitedFacts, SealFacts
<1>4. PICK g \in {h, Seal(h)} : c' = [c EXCEPT !.hs = g]
  BY DEF WaitForStage
<1>5. CASE e # Nothing
  <2>1. caller' = [caller EXCEPT !.at = "failed", !.err = e]
    BY <1>5, Zenon DEF WaitForStage
  <2> HIDE DEF login, e, h
  <2>. QED
    BY <1>1, <1>2, <1>3, <1>4, <2>1
<1>6. CASE e = Nothing
  <2>1. WaitError(c.hs, c.late) = Nothing
    BY <1>6
  <2>2. Granted(caller.stage) /\ (caller.stage = 3 => Named(c.hs.result))
    BY <1>1, <2>1, WaitedFacts
  <2>3. caller.stage = 3 => login \in Days /\ Named(login)
    <3>1. Failure(c.hs, "invalid-trading-day") # Nothing
      BY <1>1, FailureIsError DEF Collector, Kinds
    <3>. QED
      BY <1>6, <2>1, <2>2, <3>1
  <2>4. \A s \in 1 .. 4 : s <= caller.stage => Granted(s)
    BY <1>1, <2>2
  <2>5. CASE caller.stage < 4
    <3>1. caller' = [caller EXCEPT !.at = "prepare", !.stage = @ + 1, !.login = login]
      BY <1>6, <2>5 DEF WaitForStage
    <3>2. caller'.stage = 4 => caller'.login \in Days /\ Named(caller'.login)
      BY <1>1, <2>3, <3>1
    <3> HIDE DEF login, e, h
    <3>3. Recorded'
      BY <1>1, <1>2, <1>3, <1>4, <2>4, <2>5, <3>1, <3>2
    <3>4. Silent'
      BY <1>1, <1>2, <1>3, <1>4, <2>4, <2>5, <3>1, <3>2
    <3>5. Passed'
      BY <1>1, <1>2, <1>3, <1>4, <2>4, <2>5, <3>1, <3>2
    <3>6. Heard'
      BY <1>1, <1>2, <1>3, <1>4, <2>4, <2>5, <3>1, <3>2
    <3>. QED
      BY <3>3, <3>4, <3>5, <3>6
  <2>6. CASE caller.stage = 4
    <3>1. caller' = [caller EXCEPT !.at = "publish"]
      BY <1>6, <2>6 DEF WaitForStage
    <3> HIDE DEF login, e, h
    <3>2. Recorded'
      BY <1>1, <1>2, <1>3, <1>4, <2>4, <2>6, <3>1
    <3>3. Silent'
      BY <1>1, <1>2, <1>3, <1>4, <2>4, <2>6, <3>1
    <3>4. Passed'
      BY <1>1, <1>2, <1>3, <1>4, <2>4, <2>6, <3>1
    <3>5. Heard'
      BY <1>1, <1>2, <1>3, <1>4, <2>4, <2>6, <3>1
    <3>. QED
      BY <3>2, <3>3, <3>4, <3>5
  <2>. QED
    BY <1>1, <2>5, <2>6
<1>. QED
  BY <1>5, <1>6

LEMMA PublishEarned ==
  ASSUME Inv, Earned, Publish
  PROVE  Earned'
<1> USE DEF Inv, Shape, Earned, Connecting, Asking, Beyond, At
<1>1. /\ caller.at = "publish" /\ UNCHANGED <<attempt, closer, general, front, truth>>
      /\ c'.hs = c.hs /\ c'.started = c.started /\ c'.late = c.late
      /\ caller'.at \in {"failed", "ready"}
      /\ c'.day \in {c.day, caller.login}
  BY DEF Publish, Goes, Fails
<1>2. Recorded'
  BY <1>1 DEF Recorded
<1>3. Silent'
  BY <1>1 DEF Silent
<1>4. Passed'
  BY <1>1 DEF Passed, Granted, Named
<1>5. Heard'
  BY <1>1 DEF Heard
<1>. QED
  BY <1>2, <1>3, <1>4, <1>5

-----------------------------------------------------------------------------
(* Close, the next client and the timers. *)

LEMMA ClosingEarned ==
  ASSUME Inv, Earned, ElsewhereClosed \/ CloserStep
  PROVE  Earned'
<1> USE DEF Inv, Shape, Releasing, Earned, Recorded, Silent, Passed, Heard, Granted, Named, Connecting, Asking, Beyond
<1>1. CASE ElsewhereClosed
  BY <1>1 DEF ElsewhereClosed, MarkClosed
<1>2. CASE AbortHandshake
  <2>1. UNCHANGED <<attempt, caller, general, front, truth>> /\ closer' = "aborting"
    BY <1>2 DEF AbortHandshake
  <2>2. CASE ~c.started
    BY <1>2, <2>1, <2>2 DEF AbortHandshake
  <2>3. CASE c.started
    <3>1. /\ Collector(Abort(c.hs, "closed")) /\ Abort(c.hs, "closed").stage = c.hs.stage
          /\ Abort(c.hs, "closed") = c.hs \/ Abort(c.hs, "closed").abortErr # Nothing
      BY <2>3, AbortFacts DEF Kinds
    <3>2. c' = c \/ c' = [c EXCEPT !.hs = Abort(@, "closed")]
      BY <1>2 DEF AbortHandshake
    <3>. QED
      BY <2>1, <2>3, <3>1, <3>2
  <2>. QED
    BY <2>2, <2>3
<1>3. CASE AbortQueries
  BY <1>3 DEF AbortQueries
<1>4. CASE Release
  BY <1>4 DEF Release, Quiet
<1>. QED
  BY <1>1, <1>2, <1>3, <1>4 DEF CloserStep

LEMMA RetryEarned ==
  ASSUME Inv, Earned, Retry
  PROVE  Earned'
BY DEF Inv, Shape, ClosesItself, Earned, Recorded, Silent, Passed, Heard, Granted, Named, Connecting, Asking, Beyond,
       Retry, NewClient, At

LEMMA ExpiryEarned ==
  ASSUME Inv, Earned, HandshakeExpires
  PROVE  Earned'
BY DEF Inv, Shape, Earned, Recorded, Silent, Passed, Heard, Granted, Named, Connecting, Asking, Beyond, HandshakeExpires

-----------------------------------------------------------------------------
(* What the front says. *)

LEMMA ConnectedEarned ==
  ASSUME Inv, Earned, FrontConnected
  PROVE  Earned'
<1> DEFINE h == Heeds(c.hs, "front", 0, "connected", 0, c.late)
<1>1. c.started /\ Collector(c.hs) /\ UNCHANGED <<attempt, caller, closer, general, front>>
  BY DEF FrontConnected, Earned, Recorded, Silent
<1>2. c' = [c EXCEPT !.hs = h]
  BY Zenon DEF FrontConnected, Said, Heeds
<1>3. /\ Collector(h) /\ h.stage = c.hs.stage
      /\ h = c.hs \/ Listening(c.hs, "front", 0, c.late)
  BY <1>1, ReplyFacts
<1> USE DEF Inv, Shape, Earned, Recorded, Silent, Passed, Heard, Connecting, Asking, Beyond
<1>4. truth' = IF c.late THEN truth ELSE [truth EXCEPT !.answered = @ \cup {<<attempt, "front">>}]
  BY DEF FrontConnected
<1>5. /\ truth.answered \subseteq truth'.answered /\ truth'.said = truth.said
      /\ ~c.late => <<attempt, "front">> \in truth'.answered
  BY <1>4
<1>6. \A s : Granted(s) => Granted(s)'
  BY <1>1, <1>5 DEF Granted
<1>7. h = c.hs \/ (c.hs.stage = "front" /\ ~c.late)
  BY <1>3 DEF Listening
<1> HIDE DEF h
<1>8. Recorded'
  BY <1>1, <1>2, <1>3, <1>4
<1>9. Silent'
  BY <1>1, <1>2
<1>10. Passed'
  BY <1>1, <1>2, <1>5, <1>6 DEF Named
<1>11. Heard'
  <2> SUFFICES ASSUME caller.at \in Asking
      PROVE  /\ h.stage = Stage[caller.stage]
             /\ h.complete /\ h.err = Nothing /\ h.abortErr = Nothing =>
                  Granted(caller.stage)' /\ (caller.stage = 3 => <<attempt, h.result>> \in truth'.said)
    BY <1>1, <1>2 DEF Named
  <2>1. CASE h = c.hs
    BY <1>1, <1>5, <2>1 DEF Granted, Named
  <2>2. CASE c.hs.stage = "front" /\ ~c.late
    <3>1. Stage[caller.stage] = "front" /\ caller.stage # 3
      BY <2>2, StageFacts
    <3>2. Granted(caller.stage)'
      BY <1>1, <1>5, <2>2, <3>1 DEF Granted
    <3>. QED
      BY <1>3, <3>1, <3>2
  <2>. QED
    BY <1>7, <2>1, <2>2
<1>. QED
  BY <1>8, <1>9, <1>10, <1>11

LEMMA AnswerEarned ==
  ASSUME Inv, Earned, AnswerHandshake
  PROVE  Earned'
<1>1. PICK r, say :
        /\ r \in front.posted
        /\ Said(Reply(c.hs, r.kind, r.id, IF say \in {"refused", "empty"} THEN Nothing ELSE say,
                      IF say = "refused" THEN 1 ELSE 0, TRUE, c.late))
        /\ truth' = CASE say = "refused" -> [truth EXCEPT !.refused = @ \/ r.kind # "settlement-confirm"]
                      [] say \notin {"refused", "empty"} /\ ~c.late ->
                           [truth EXCEPT !.answered = @ \cup {<<attempt, r.kind>>},
                                         !.said = IF r.kind = "login" THEN @ \cup {<<attempt, say>>} ELSE @]
                      [] OTHER -> truth
        /\ front' = [front EXCEPT !.posted = Answered(r, say),
                                  !.feed = IF r.kind = "login" /\ r.copies = 0 THEN OldReports ELSE @]
        /\ UNCHANGED <<mode, attempt, setup, caller, closer, general>>
  BY Zenon DEF AnswerHandshake
<1> DEFINE value == IF say \in {"refused", "empty"} THEN Nothing ELSE say
           code == IF say = "refused" THEN 1 ELSE 0
           h == Heeds(c.hs, r.kind, r.id, value, code, c.late)
<1>2. c.started /\ closer # "released" /\ Collector(c.hs)
  BY <1>1 DEF Earned, Recorded, Silent
<1>3. c' = [c EXCEPT !.hs = h]
  BY <1>1, Zenon DEF Said, Heeds
<1>4. /\ Collector(h) /\ h.stage = c.hs.stage
      /\ \/ h = c.hs
         \/ /\ Listening(c.hs, r.kind, r.id, c.late)
            /\ (code = 0 /\ value # Nothing /\ h.result = value) \/ h.err # Nothing
  BY <1>2, ReplyFacts
<1>5. code = 0 /\ value # Nothing => say \notin {"refused", "empty"} /\ value = say
  OBVIOUS
<1>6. truth.answered \subseteq truth'.answered /\ truth.said \subseteq truth'.said
  BY <1>1 DEF Earned, Recorded
<1>7. say \notin {"refused", "empty"} /\ ~c.late =>
        <<attempt, r.kind>> \in truth'.answered /\ (r.kind = "login" => <<attempt, say>> \in truth'.said)
  BY <1>1 DEF Earned, Recorded
<1> HIDE DEF value, code, h
<1>8. \/ h = c.hs
      \/ /\ c.hs.stage = r.kind
         /\ \/ /\ <<attempt, r.kind>> \in truth'.answered
               /\ r.kind = "login" => <<attempt, h.result>> \in truth'.said
            \/ h.err # Nothing
  BY <1>4, <1>5, <1>7 DEF Listening
<1>9. UNCHANGED <<attempt, caller, closer, general>> /\ front'.init = front.init
  BY <1>1 DEF Inv, Shape
<1> USE DEF Inv, Shape, Earned, Recorded, Silent, Passed, Heard, Connecting, Asking, Beyond
<1>10. Recorded'
  BY <1>1, <1>2, <1>3, <1>4, <1>9
<1>11. Silent'
  BY <1>2, <1>3, <1>9
<1>12. Passed'
  BY <1>3, <1>6, <1>9 DEF Granted, Named
<1>13. Heard'
  <2> SUFFICES ASSUME caller.at \in Asking
      PROVE  /\ h.stage = Stage[caller.stage]
             /\ h.complete /\ h.err = Nothing /\ h.abortErr = Nothing =>
                  Granted(caller.stage)' /\ (caller.stage = 3 => <<attempt, h.result>> \in truth'.said)
    BY <1>3, <1>9 DEF Named
  <2>1. CASE h = c.hs
    BY <1>6, <1>9, <2>1 DEF Granted, Named
  <2>2. CASE h # c.hs
    BY <1>4, <1>8, <1>9, <2>2, StageFacts DEF Granted
  <2>. QED
    BY <2>1, <2>2
<1>. QED
  BY <1>10, <1>11, <1>12, <1>13

\* Errors and the end of the connection earn nothing.
LEMMA TroubleEarned ==
  ASSUME Inv, Earned, FrontDisconnected \/ GeneralError \/ GeneralErrorUsed
  PROVE  Earned'
<1>1. CASE FrontDisconnected
  <2>1. c.started /\ Collector(c.hs)
    BY <1>1 DEF FrontDisconnected, Earned, Recorded, Silent
  <2>2. /\ Collector(Abort(c.hs, "disconnected")) /\ Abort(c.hs, "disconnected").stage = c.hs.stage
        /\ Abort(c.hs, "disconnected") = c.hs \/ Abort(c.hs, "disconnected").abortErr # Nothing
    BY <2>1, AbortFacts DEF Kinds
  <2>. QED
    BY <1>1, <2>1, <2>2
       DEF FrontDisconnected, Said, Inv, Shape, Earned, Recorded, Silent, Passed, Heard, Granted, Named,
           Connecting, Asking, Beyond
<1>2. CASE GeneralError
  <2>1. PICK r \in front.posted : front' = [front EXCEPT !.posted = @ \ {r}]
    BY <1>2 DEF GeneralError
  <2>2. PICK refused : truth' = [truth EXCEPT !.refused = refused]
    BY <1>2, Zenon DEF GeneralError
  <2>3. UNCHANGED <<attempt, c, caller, closer>>
    BY <1>2 DEF GeneralError
  <2>. QED
    BY <2>1, <2>2, <2>3
       DEF Inv, Shape, Earned, Recorded, Silent, Passed, Heard, Granted, Named, Connecting, Asking, Beyond
<1>3. CASE GeneralErrorUsed
  <2> DEFINE h == Heeds(c.hs, general.stage, general.id, Nothing, 1, c.late)
  <2>1. c.started /\ closer # "released" /\ Collector(c.hs)
    BY <1>3 DEF GeneralErrorUsed, Earned, Recorded, Silent
  <2>2. Collector(h) /\ h.stage = c.hs.stage /\ (h = c.hs \/ h.err # Nothing)
    BY <2>1, ReplyFacts
  <2>3. PICK rows : c' = [c EXCEPT !.hs = h, !.rows = rows]
    BY <1>3, Zenon DEF GeneralErrorUsed, Heeds
  <2>4. UNCHANGED <<attempt, caller, closer, front, truth>> /\ general' = Nothing
    BY <1>3 DEF GeneralErrorUsed
  <2> HIDE DEF h
  <2>. QED
    BY <2>1, <2>2, <2>3, <2>4
       DEF Inv, Shape, Earned, Recorded, Silent, Passed, Heard, Granted, Named, Connecting, Asking, Beyond
<1>. QED
  BY <1>1, <1>2, <1>3

-----------------------------------------------------------------------------
LEMMA NextEarned == Inv /\ Earned /\ [SessionNext]_vars => Earned'
<1> SUFFICES ASSUME Inv, Earned, [SessionNext]_vars PROVE Earned'
  OBVIOUS
<1>1. CASE Connect \/ SetUp \/ Prepare \/ Send
  BY <1>1, ConnectEarned, SetUpEarned, PrepareEarned, SendEarned
<1>2. CASE SendReturns \/ WaitForStage \/ Publish
  BY <1>2, SendReturnsEarned, WaitForStageEarned, PublishEarned
<1>3. CASE \/ BeginQuery \/ SendQuery \/ QuerySendReturns \/ WaitForRows \/ AfterQuery
           \/ (\E o \in Orders : Insert(o)) \/ SendInsert \/ InsertSendReturns \/ Poll \/ Cancel
           \/ CallClose \/ CloseReturns \/ Finish
           \/ AnswerQuery \/ CounterReports \/ OrderReported \/ CallExpires
  BY <1>3, AsideSteps
<1>4. CASE Retry \/ HandshakeExpires
  BY <1>4, RetryEarned, ExpiryEarned
<1>5. CASE ElsewhereClosed \/ CloserStep
  BY <1>5, ClosingEarned
<1>6. CASE FrontConnected \/ AnswerHandshake
  BY <1>6, ConnectedEarned, AnswerEarned
<1>7. CASE FrontDisconnected \/ GeneralError \/ GeneralErrorUsed
  BY <1>7, TroubleEarned
<1>8. CASE UNCHANGED vars
  BY <1>8 DEF vars, Earned, Recorded, Silent, Passed, Heard, Granted, Named
<1>. QED
  BY <1>1, <1>2, <1>3, <1>4, <1>5, <1>6, <1>7, <1>8 DEF SessionNext, CallerStep, LibraryStep

(***************************************************************************)
(* A client has a trading day only when this front has granted every stage *)
(* to it, in time, and the day is the one its login said                   *)
(* (ctp/handshake.go, ctp/client.go).                                      *)
(***************************************************************************)
THEOREM NoUnearnedSuccess == SessionSpec => []SuccessIsEarned
<1>1. Earned => SuccessIsEarned
  BY StageFacts DEF Earned, Passed, SuccessIsEarned, Granted, Named
<1>. QED
  BY InitInv, NextInv, InitEarned, NextEarned, <1>1, PTL DEF SessionSpec

-----------------------------------------------------------------------------
(* What an insert tells. *)

Early == {"start", "setup", "prepare", "send", "sending", "wait", "publish"}
Ordering == {"isend", "isending", "poll", "inserted"}

\* What the counter may report: the old order, or what it gave to one of this session.
Statuses == {"submitted", "queueing", "traded", "canceled"}
Reports(told) ==
  {r \in [ref : Nat, status : Statuses] : r.ref # LastRef => r.ref \in DOMAIN told /\ r.status \in told[r.ref]}

\* References are used once: those of this session lie above the old one and
\* not above the counter's sequence number.
Numbered ==
  /\ c.seq \in Nat
  /\ \A ref \in DOMAIN truth.told : ref \in Nat /\ LastRef < ref /\ ref <= c.seq
  /\ mode = "fetch" \/ caller.at \in Early => DOMAIN truth.told = {}
  /\ caller.at \notin Early \cup Beyond => LastRef <= c.seq
  /\ caller.at \in Ordering =>
       mode = "trade" /\ caller.ref \in Nat /\ LastRef < caller.ref /\ caller.ref <= c.seq /\ caller.ref \in DOMAIN c.book
  /\ caller.at = "isend" => caller.ref \notin DOMAIN truth.told

\* Every status in the book of an order of this session came from the counter.
Told ==
  /\ DOMAIN front.orders = DOMAIN truth.told
  /\ front.feed \in Seq(Reports(truth.told))
  /\ \A ref \in DOMAIN c.book : ref # LastRef /\ c.book[ref] # "none" =>
       ref \in DOMAIN truth.told /\ c.book[ref] \in truth.told[ref]
  /\ caller.at = "inserted" /\ caller.err = Nothing =>
       caller.ref \in DOMAIN truth.told /\ caller.got \in truth.told[caller.ref] \cap Settled

Orderly == mode \in {"fetch", "trade"} /\ Numbered /\ Told

LEMMA InitOrderly == SessionInit => Orderly
<1> SUFFICES ASSUME SessionInit PROVE Orderly
  OBVIOUS
<1>1. <<>> \in Seq(Reports(truth.told))
  OBVIOUS
<1>2. DOMAIN <<>> = {}
  OBVIOUS
<1>. QED
  BY <1>1, <1>2 DEF SessionInit, Orderly, Numbered, Told, NewClient, Early, Ordering, Beyond

\* A step that neither numbers, sends, reports nor concludes an order.
NoOrder ==
  /\ c'.seq = c.seq /\ c'.book = c.book
  /\ mode' = mode /\ truth'.told = truth.told
  /\ front'.orders = front.orders /\ front'.feed \in {front.feed, <<>>}
  /\ \/ /\ caller'.at = caller.at /\ caller'.ref = caller.ref
        /\ caller'.err = caller.err /\ caller'.got = caller.got
     \/ /\ caller'.at \notin Ordering
        /\ caller'.at \in Early => caller.at \in Early
        /\ caller'.at \notin Early \cup Beyond => caller.at \notin Early \cup Beyond

LEMMA NoOrderKeeps == Orderly /\ NoOrder => Orderly'
<1> SUFFICES ASSUME Orderly, NoOrder PROVE Orderly'
  OBVIOUS
<1>1. Reports(truth.told)' = Reports(truth.told)
  BY DEF Reports, NoOrder
<1>2. <<>> \in Seq(Reports(truth.told))
  OBVIOUS
<1>3. (mode \in {"fetch", "trade"})'
  BY DEF Orderly, NoOrder
<1>4. Numbered'
  BY DEF Orderly, NoOrder, Numbered, Ordering, Early, Beyond
<1>5. front'.feed \in Seq(Reports(truth.told))'
  BY <1>1, <1>2 DEF Orderly, NoOrder, Told
<1>6. Told'
  BY <1>5 DEF Orderly, NoOrder, Told, Ordering
<1>. QED
  BY <1>3, <1>4, <1>6 DEF Orderly

LEMMA NoOrderSteps ==
  ASSUME Inv, Earned,
         \/ Connect \/ SetUp \/ Prepare \/ Send \/ SendReturns \/ WaitForStage
         \/ BeginQuery \/ SendQuery \/ QuerySendReturns \/ WaitForRows \/ AfterQuery
         \/ Cancel \/ CallClose \/ CloseReturns \/ Finish \/ CloserStep \/ ElsewhereClosed
         \/ FrontConnected \/ FrontDisconnected \/ AnswerQuery \/ GeneralError \/ GeneralErrorUsed
         \/ HandshakeExpires \/ CallExpires
  PROVE  NoOrder
<1> USE DEF Inv, Shape, Earned, Recorded, NoOrder, At, Goes, Ordering, Early, Beyond
<1>1. CASE Connect
  BY <1>1 DEF Connect, Fails
<1>2. CASE SetUp
  BY <1>2 DEF SetUp, Fails
<1>3. CASE Prepare
  BY <1>3 DEF Prepare
<1>4. CASE Send
  BY <1>4 DEF Send
<1>5. CASE SendReturns
  BY <1>5 DEF SendReturns, Fails
<1>6. CASE WaitForStage
  <2>1. caller.at = "wait" /\ UNCHANGED <<mode, front, truth>>
    BY <1>6 DEF WaitForStage
  <2>2. \E h : c' = [c EXCEPT !.hs = h]
    BY <1>6, Zenon DEF WaitForStage
  <2>3. \/ \E e : caller' = [caller EXCEPT !.at = "failed", !.err = e]
        \/ \E login : caller' = [caller EXCEPT !.at = "prepare", !.stage = @ + 1, !.login = login]
        \/ caller' = [caller EXCEPT !.at = "publish"]
    BY <1>6 DEF WaitForStage
  <2>. QED
    BY <2>1, <2>2, <2>3
<1>7. CASE BeginQuery
  BY <1>7 DEF BeginQuery
<1>8. CASE SendQuery
  BY <1>8 DEF SendQuery, QueryFails
<1>9. CASE QuerySendReturns
  BY <1>9 DEF QuerySendReturns, QueryFails
<1>10. CASE WaitForRows
  <2>1. PICK e, rows : caller' = [caller EXCEPT !.at = "queried", !.err = e, !.rows = rows]
    BY <1>10, RowsTaken
  <2>. QED
    BY <1>10, <2>1, RowsTaken DEF WaitForRows
<1>11. CASE AfterQuery
  BY <1>11 DEF AfterQuery
<1>12. CASE Cancel
  BY <1>12 DEF Cancel
<1>13. CASE CallClose
  BY <1>13 DEF CallClose, MarkClosed
<1>14. CASE CloseReturns \/ Finish
  BY <1>14 DEF CloseReturns, Finish
<1>15. CASE CloserStep
  BY <1>15 DEF CloserStep, AbortHandshake, AbortQueries, Release, Quiet
<1>16. CASE ElsewhereClosed
  BY <1>16 DEF ElsewhereClosed, MarkClosed
<1>17. CASE FrontConnected
  BY <1>17 DEF FrontConnected, Said
<1>18. CASE FrontDisconnected
  BY <1>18 DEF FrontDisconnected, Said
<1>19. CASE AnswerQuery
  BY <1>19 DEF AnswerQuery
<1>20. CASE GeneralError
  <2>1. PICK r \in front.posted : front' = [front EXCEPT !.posted = @ \ {r}]
    BY <1>20 DEF GeneralError
  <2>2. PICK refused : truth' = [truth EXCEPT !.refused = refused]
    BY <1>20, Zenon DEF GeneralError
  <2>3. UNCHANGED <<mode, c, caller>>
    BY <1>20 DEF GeneralError
  <2>. QED
    BY <2>1, <2>2, <2>3
<1>21. CASE GeneralErrorUsed
  BY <1>21 DEF GeneralErrorUsed
<1>22. CASE HandshakeExpires \/ CallExpires
  BY <1>22 DEF HandshakeExpires, CallExpires
<1>. QED
  BY <1>1, <1>2, <1>3, <1>4, <1>5, <1>6, <1>7, <1>8, <1>9, <1>10, <1>11, <1>12, <1>13, <1>14, <1>15, <1>16,
     <1>17, <1>18, <1>19, <1>20, <1>21, <1>22

LEMMA TroubleIsError ==
  ASSUME NEW kind \in {"used", "setup", "rejected", "error", "timeout", "not-one", "closed", "local", "refused",
                       "no-conclusion"}
  PROVE  Trouble(kind) # Nothing
BY TroubleAssumption DEF Trouble

LEMMA MoreReports ==
  ASSUME NEW told, NEW more, DOMAIN told \subseteq DOMAIN more,
         \A ref \in DOMAIN told : told[ref] \subseteq more[ref],
         NEW feed \in Seq(Reports(told))
  PROVE  feed \in Seq(Reports(more))
<1>1. Reports(told) \subseteq Reports(more)
  BY DEF Reports
<1>2. \A i \in 1 .. Len(feed) : feed[i] \in Reports(told)
  OBVIOUS
<1>. QED
  BY <1>1, <1>2

LEMMA PublishOrderly ==
  ASSUME Inv, Orderly, Publish
  PROVE  Orderly'
<1> USE DEF Inv, Shape, Orderly, Numbered, Told, Early, Ordering, Beyond, Publish, At, Goes, Fails, LastRef
<1>1. UNCHANGED <<mode, front, truth>> /\ caller.at = "publish"
  OBVIOUS
<1>2. Reports(truth.told)' = Reports(truth.told)
  BY <1>1 DEF Reports
<1>3. CASE c.closed
  BY <1>1, <1>2, <1>3
<1>4. CASE ~c.closed
  <2>1. caller'.at = "ready" /\ c'.seq = 1 /\ c'.book = c.book
    BY <1>4
  <2>2. Numbered'
    BY <1>1, <2>1
  <2>3. Told'
    BY <1>1, <1>2, <2>1
  <2>. QED
    BY <1>1, <2>2, <2>3
<1>. QED
  BY <1>3, <1>4

LEMMA InsertOrderly ==
  ASSUME Inv, Orderly, NEW o \in Orders, Insert(o)
  PROVE  Orderly'
<1> USE DEF Inv, Shape, Orderly, Numbered, Told, Early, Ordering, Beyond, Insert, At, LastRef
<1>1. UNCHANGED <<mode, front, truth>> /\ caller.at = "ready"
  OBVIOUS
<1>2. Reports(truth.told)' = Reports(truth.told)
  BY <1>1 DEF Reports
<1>3. c'.seq = c.seq + 1 /\ c'.book = Put(c.book, c.seq + 1, "none")
  OBVIOUS
<1>4. caller'.at = "isend" /\ caller'.ref = c.seq + 1
  OBVIOUS
<1>5. Numbered'
  BY <1>1, <1>3, <1>4 DEF Put
<1>6. \A ref \in DOMAIN c'.book : ref # LastRef /\ c'.book[ref] # "none" =>
        ref \in DOMAIN truth.told /\ c'.book[ref] \in truth.told[ref]
  BY <1>3 DEF Put
<1>7. Told'
  BY <1>1, <1>2, <1>4, <1>6
<1>. QED
  BY <1>1, <1>5, <1>7

LEMMA SendInsertOrderly ==
  ASSUME Inv, Earned, Orderly, SendInsert
  PROVE  Orderly'
<1> USE DEF Inv, Shape, Earned, Recorded, Orderly, Numbered, Told, Early, Ordering, Beyond, SendInsert, At, LastRef
<1>1. UNCHANGED <<mode, c>> /\ caller.at = "isend" /\ caller.ref \notin DOMAIN truth.told
  OBVIOUS
<1>2. Trouble("local") # Nothing
  BY TroubleIsError
<1>3. CASE c.closed
  <2>1. caller' = [caller EXCEPT !.at = "inserted", !.err = Trouble("local"), !.got = c.book[caller.ref]]
        /\ UNCHANGED <<front, truth>>
    BY <1>3 DEF InsertFails
  <2>2. Reports(truth.told)' = Reports(truth.told)
    BY <2>1 DEF Reports
  <2>. QED
    BY <1>1, <1>2, <2>1, <2>2
<1>4. CASE ~c.closed
  <2>1. caller'.at = "isending" /\ caller'.ref = caller.ref
    BY <1>4 DEF Goes
  <2>2. /\ front'.orders = Put(front.orders, caller.ref, "sent") /\ front'.feed = front.feed
        /\ truth'.told = Put(truth.told, caller.ref, {})
    BY <1>4
  <2>3. /\ DOMAIN truth'.told = DOMAIN truth.told \cup {caller.ref}
        /\ \A ref \in DOMAIN truth.told : truth'.told[ref] = truth.told[ref]
    BY <1>1, <2>2 DEF Put
  <2>4. front'.feed \in Seq(Reports(truth'.told))
    BY <2>2, <2>3, MoreReports
  <2>5. Numbered'
    BY <1>1, <2>1, <2>3
  <2>6. DOMAIN front'.orders = DOMAIN truth'.told
    BY <2>2, <2>3 DEF Put
  <2>7. Told'
    BY <1>1, <2>1, <2>3, <2>4, <2>6
  <2>. QED
    BY <1>1, <2>5, <2>7
<1>. QED
  BY <1>3, <1>4

LEMMA InsertSendReturnsOrderly ==
  ASSUME Inv, Orderly, InsertSendReturns
  PROVE  Orderly'
<1> USE DEF Inv, Shape, Orderly, Numbered, Told, Early, Ordering, Beyond, InsertSendReturns, At, LastRef
<1>1. UNCHANGED <<mode, c, front, truth>> /\ caller.at = "isending"
  OBVIOUS
<1>2. Reports(truth.told)' = Reports(truth.told)
  BY <1>1 DEF Reports
<1>3. Trouble("refused") # Nothing
  BY TroubleIsError
<1>4. CASE Goes("poll")
  BY <1>1, <1>2, <1>4 DEF Goes
<1>5. CASE InsertFails(Trouble("refused"))
  BY <1>1, <1>2, <1>3, <1>5 DEF InsertFails
<1>. QED
  BY <1>4, <1>5

LEMMA PollOrderly ==
  ASSUME Inv, Orderly, Poll
  PROVE  Orderly'
<1> USE DEF Inv, Shape, Orderly, Numbered, Told, Early, Ordering, Beyond, LastRef
<1>1. UNCHANGED <<mode, c, front, truth>> /\ caller.at = "poll"
  BY DEF Poll, At
<1>2. Reports(truth.told)' = Reports(truth.told)
  BY <1>1 DEF Reports
<1>3. Trouble("no-conclusion") # Nothing
  BY TroubleIsError
<1>4. CASE c.book[caller.ref] \in Settled
           /\ caller' = [caller EXCEPT !.at = "inserted", !.got = c.book[caller.ref]]
  BY <1>1, <1>2, <1>4 DEF Settled
<1>5. CASE InsertFails(Trouble("no-conclusion"))
  BY <1>1, <1>2, <1>3, <1>5 DEF InsertFails
<1>. QED
  BY <1>4, <1>5, Zenon DEF Poll

\* Only a fetch tries again, and a fetch has no orders.
LEMMA RetryOrderly ==
  ASSUME Inv, Orderly, Retry
  PROVE  Orderly'
<1> USE DEF Inv, Shape, Orderly, Numbered, Told, Early, Ordering, Beyond, LastRef, Retry, NewClient, At
<1>1. UNCHANGED <<mode, front, truth>> /\ mode = "fetch"
  OBVIOUS
<1>2. Reports(truth.told)' = Reports(truth.told)
  BY <1>1 DEF Reports
<1>3. c'.seq = 0 /\ c'.book = <<>> /\ caller'.at = "start"
  OBVIOUS
<1>4. DOMAIN <<>> = {}
  OBVIOUS
<1>. QED
  BY <1>1, <1>2, <1>3, <1>4

-----------------------------------------------------------------------------
LEMMA AnswerOrderly ==
  ASSUME Inv, Earned, Orderly, AnswerHandshake
  PROVE  Orderly'
<1>1. PICK r, say :
        /\ Said(Reply(c.hs, r.kind, r.id, IF say \in {"refused", "empty"} THEN Nothing ELSE say,
                      IF say = "refused" THEN 1 ELSE 0, TRUE, c.late))
        /\ truth' = CASE say = "refused" -> [truth EXCEPT !.refused = @ \/ r.kind # "settlement-confirm"]
                      [] say \notin {"refused", "empty"} /\ ~c.late ->
                           [truth EXCEPT !.answered = @ \cup {<<attempt, r.kind>>},
                                         !.said = IF r.kind = "login" THEN @ \cup {<<attempt, say>>} ELSE @]
                      [] OTHER -> truth
        /\ front' = [front EXCEPT !.posted = Answered(r, say),
                                  !.feed = IF r.kind = "login" /\ r.copies = 0 THEN OldReports ELSE @]
        /\ UNCHANGED <<mode, attempt, setup, caller, closer, general>>
  BY Zenon DEF AnswerHandshake
<1>2. Reports(truth.told)' = Reports(truth.told) /\ truth'.told = truth.told
  BY <1>1 DEF Reports, Earned, Recorded
<1>3. OldReports \in Seq(Reports(truth.told))
  BY DEF OldReports, Reports, Statuses, LastRef
<1> USE DEF Inv, Shape, Orderly, Numbered, Told
<1>4. front'.feed \in Seq(Reports(truth.told)) /\ front'.orders = front.orders
  BY <1>1, <1>3
<1>5. c'.seq = c.seq /\ c'.book = c.book
  BY <1>1 DEF Said
<1>. QED
  BY <1>1, <1>2, <1>4, <1>5

LEMMA CounterReportsOrderly ==
  ASSUME Inv, Earned, Orderly, CounterReports
  PROVE  Orderly'
<1>0. PICK ref \in DOMAIN front.orders : \E s \in Moves(front.orders[ref], ref \in front.cancels) :
        /\ front' = [front EXCEPT !.orders[ref] = s, !.feed = Append(@, [ref |-> ref, status |-> s])]
        /\ truth' = [truth EXCEPT !.told[ref] = @ \cup {s}]
        /\ UNCHANGED <<mode, attempt, c, setup, caller, closer, general>>
  BY Zenon DEF CounterReports
<1>1. PICK s \in Moves(front.orders[ref], ref \in front.cancels) :
        /\ front' = [front EXCEPT !.orders[ref] = s, !.feed = Append(@, [ref |-> ref, status |-> s])]
        /\ truth' = [truth EXCEPT !.told[ref] = @ \cup {s}]
        /\ UNCHANGED <<mode, attempt, c, setup, caller, closer, general>>
  BY <1>0, Zenon
<1>2. s \in Statuses
  BY DEF Moves, Statuses
<1> USE DEF Inv, Shape, Earned, Recorded, Orderly
<1>3. /\ DOMAIN truth'.told = DOMAIN truth.told
      /\ \A x \in DOMAIN truth.told : truth.told[x] \subseteq truth'.told[x]
      /\ s \in truth'.told[ref]
  BY <1>1 DEF Told
<1>4. front.feed \in Seq(Reports(truth'.told))
  BY <1>3, MoreReports DEF Told
<1>5. [ref |-> ref, status |-> s] \in Reports(truth'.told)
  BY <1>1, <1>2, <1>3 DEF Told, Numbered, Reports
<1>6. front'.feed \in Seq(Reports(truth'.told)) /\ DOMAIN front'.orders = DOMAIN front.orders
  BY <1>1, <1>4, <1>5
<1>7. Numbered'
  BY <1>1, <1>3 DEF Numbered
<1>8. Told'
  BY <1>1, <1>3, <1>6 DEF Told, Settled
<1>. QED
  BY <1>1, <1>7, <1>8

LEMMA OrderReportedOrderly ==
  ASSUME Inv, Earned, Orderly, OrderReported
  PROVE  Orderly'
<1> DEFINE report == Head(front.feed)
<1> USE DEF Inv, Shape, Earned, Recorded, Orderly
<1>1. front.feed \in Seq(Reports(truth.told)) /\ front.feed # <<>>
  BY DEF OrderReported, Told
<1>2. report \in Reports(truth.told) /\ Tail(front.feed) \in Seq(Reports(truth.told))
  BY <1>1
<1>3. /\ c'.book = Put(c.book, report.ref, report.status) /\ c'.seq = c.seq
      /\ front'.feed = Tail(front.feed) /\ front'.orders = front.orders
      /\ UNCHANGED <<mode, caller, truth>>
  BY DEF OrderReported
<1>4. Reports(truth.told)' = Reports(truth.told)
  BY <1>3 DEF Reports
<1>5. Numbered'
  BY <1>3 DEF Numbered, Put
<1>6. \A ref \in DOMAIN c'.book : ref # LastRef /\ c'.book[ref] # "none" =>
        ref \in DOMAIN truth.told /\ c'.book[ref] \in truth.told[ref]
  BY <1>2, <1>3 DEF Put, Told, Reports
<1>7. Told'
  BY <1>2, <1>3, <1>4, <1>6 DEF Told
<1>. QED
  BY <1>3, <1>5, <1>7

-----------------------------------------------------------------------------
LEMMA NextOrderly == Inv /\ Earned /\ Orderly /\ [SessionNext]_vars => Orderly'
<1> SUFFICES ASSUME Inv, Earned, Orderly, [SessionNext]_vars PROVE Orderly'
  OBVIOUS
<1>1. CASE \/ Connect \/ SetUp \/ Prepare \/ Send \/ SendReturns \/ WaitForStage
           \/ BeginQuery \/ SendQuery \/ QuerySendReturns \/ WaitForRows \/ AfterQuery
           \/ Cancel \/ CallClose \/ CloseReturns \/ Finish \/ CloserStep \/ ElsewhereClosed
           \/ FrontConnected \/ FrontDisconnected \/ AnswerQuery \/ GeneralError \/ GeneralErrorUsed
           \/ HandshakeExpires \/ CallExpires
  BY <1>1, NoOrderSteps, NoOrderKeeps
<1>2. CASE Publish \/ (\E o \in Orders : Insert(o)) \/ SendInsert \/ InsertSendReturns \/ Poll \/ Retry
  BY <1>2, PublishOrderly, InsertOrderly, SendInsertOrderly, InsertSendReturnsOrderly, PollOrderly, RetryOrderly
<1>3. CASE AnswerHandshake \/ CounterReports \/ OrderReported
  BY <1>3, AnswerOrderly, CounterReportsOrderly, OrderReportedOrderly
<1>4. CASE UNCHANGED vars
  BY <1>4 DEF vars, Orderly, Numbered, Told, Reports
<1>. QED
  BY <1>1, <1>2, <1>3, <1>4 DEF SessionNext, CallerStep, LibraryStep

(***************************************************************************)
(* A status that Insert returns was given by the counter to this very order, *)
(* and is one its caller may act on: the references of a session lie above *)
(* the old one and are used once, and the book takes a status only from what *)
(* the counter has reported (ctp/send_windows.go, ctp/orderbook.go).       *)
(***************************************************************************)
THEOREM InsertTellsOnlyOwn == SessionSpec => []InsertTellsOwn
<1>1. Orderly => InsertTellsOwn
  BY DEF Orderly, Told, InsertTellsOwn, At, Settled
<1>. QED
  BY InitInv, NextInv, InitEarned, NextEarned, InitOrderly, NextOrderly, <1>1, PTL DEF SessionSpec

-----------------------------------------------------------------------------
(* What a query gives. *)

Asker == {"qsend", "qsending", "qwait"}

Rows == Int \X Int
RowRequests == {r \in front.posted : r.kind = "rows"}

\* Every question has a number of its own: those with the front are not above the client's count.
Counted ==
  /\ DOMAIN c.rows = {"id", "active", "complete", "rows", "err"} /\ c.rows.rows \in Seq(Rows)
  /\ c.nReq \in Nat /\ truth.owed \in Seq(Rows)
  /\ \A r \in front.posted : DOMAIN r = {"id", "kind", "rows", "copies", "says"}
  /\ \A r \in RowRequests : r.id \in Nat /\ r.id <= c.nReq /\ r.rows \in Seq(Rows)
  /\ \A r, s \in RowRequests : r.id = s.id => r = s
  /\ caller.at \in Asker => caller.id = c.nReq /\ c.rows.id = c.nReq /\ c.rows.active
  /\ caller.at = "qsend" => \A r \in RowRequests : r.id # c.nReq

\* What has come and what is still to come make up the answer.
Whole ==
  /\ caller.at = "qsend" /\ c.rows.err = Nothing => ~c.rows.complete /\ c.rows.rows = <<>>
  /\ caller.at \in {"qsending", "qwait"} /\ c.rows.err = Nothing =>
       IF c.rows.complete THEN c.rows.rows = truth.owed
       ELSE \A r \in RowRequests : r.id = c.nReq => c.rows.rows \o r.rows = truth.owed
  /\ caller.at = "queried" /\ caller.err = Nothing => caller.rows = truth.owed

Batched == Counted /\ Whole

LEMMA InitBatched == SessionInit => Batched
<1>1. <<>> \in Seq(Rows)
  OBVIOUS
<1> SUFFICES ASSUME SessionInit PROVE Batched
  OBVIOUS
<1>2. c.rows = NewBatch /\ c.nReq = 0 /\ caller.at = "start" /\ front.posted = {} /\ truth.owed = <<>>
  BY DEF SessionInit, NewClient
<1>3. RowRequests = {}
  BY <1>2 DEF RowRequests
<1>. QED
  BY <1>1, <1>2, <1>3 DEF Batched, Counted, Whole, NewBatch, Asker

\* A step that leaves the batch, the rows with the front and the caller's answer.
NoRows ==
  /\ c'.rows = c.rows /\ c'.nReq \in {c.nReq, c.nReq + 1}
  /\ \A r \in front'.posted :
       r \in front.posted \/ (DOMAIN r = {"id", "kind", "rows", "copies", "says"} /\ r.kind # "rows")
  /\ truth'.owed = truth.owed
  /\ \/ caller'.at \notin Asker \cup {"queried"}
     \/ /\ caller'.at = caller.at /\ caller'.id = caller.id
        /\ caller'.err = caller.err /\ caller'.rows = caller.rows /\ c'.nReq = c.nReq

LEMMA NoRowsKeeps == Batched /\ NoRows => Batched'
<1> SUFFICES ASSUME Batched, NoRows PROVE Batched'
  OBVIOUS
<1> USE DEF Batched, NoRows
<1>1. RowRequests' \subseteq RowRequests
  BY DEF RowRequests
<1>2. Counted'
  BY <1>1 DEF Counted, Asker
<1>3. Whole'
  BY <1>1 DEF Counted, Whole, Asker
<1>. QED
  BY <1>2, <1>3

LEMMA NoRowsSteps ==
  ASSUME Inv, Earned, Batched,
         \/ Connect \/ SetUp \/ Prepare \/ Send \/ SendReturns \/ WaitForStage \/ Publish
         \/ AfterQuery
         \/ (\E o \in Orders : Insert(o)) \/ SendInsert \/ InsertSendReturns \/ Poll \/ Cancel
         \/ CallClose \/ CloseReturns \/ Finish \/ AbortHandshake \/ Release \/ ElsewhereClosed
         \/ FrontConnected \/ FrontDisconnected \/ GeneralError \/ CounterReports \/ OrderReported
         \/ HandshakeExpires
  PROVE  NoRows
<1> USE DEF Inv, Shape, Earned, Recorded, NoRows, At, Goes, Asker
<1>1. CASE Connect
  BY <1>1 DEF Connect, Fails
<1>2. CASE SetUp
  BY <1>2 DEF SetUp, Fails
<1>3. CASE Prepare
  <2>1. caller.at = "prepare" /\ UNCHANGED <<front, truth>>
    BY <1>3 DEF Prepare
  <2>2. \E h, n : n \in {c.nReq, c.nReq + 1} /\ c' = [c EXCEPT !.nReq = n, !.hs = h]
    BY <1>3 DEF Prepare
  <2>3. \/ \E id : caller' = [caller EXCEPT !.at = "send", !.id = id]
        \/ \E e : caller' = [caller EXCEPT !.at = "failed", !.err = e]
    BY <1>3 DEF Prepare
  <2>. QED
    BY <2>1, <2>2, <2>3
<1>4. CASE Send
  <2>1. caller.at = "send" /\ UNCHANGED <<truth>> /\ c'.rows = c.rows /\ c'.nReq = c.nReq
    BY <1>4 DEF Send
  <2>2. caller' = [caller EXCEPT !.at = "wait"] \/ caller' = [caller EXCEPT !.at = "sending"]
    BY <1>4 DEF Send
  <2>3. \/ front'.posted = front.posted
        \/ front'.posted = front.posted \cup {Request(Stage[caller.stage], <<>>)}
    BY <1>4 DEF Send
  <2>4. Stage[caller.stage] # "rows"
    BY <2>1, StageFacts DEF StageNames, Passed, Connecting
  <2>. QED
    BY <2>1, <2>2, <2>3, <2>4 DEF Request
<1>5. CASE SendReturns
  BY <1>5 DEF SendReturns, Fails
<1>6. CASE WaitForStage
  <2>1. caller.at = "wait" /\ UNCHANGED <<mode, front, truth>>
    BY <1>6 DEF WaitForStage
  <2>2. \E h : c' = [c EXCEPT !.hs = h]
    BY <1>6, Zenon DEF WaitForStage
  <2>3. \/ \E e : caller' = [caller EXCEPT !.at = "failed", !.err = e]
        \/ \E login : caller' = [caller EXCEPT !.at = "prepare", !.stage = @ + 1, !.login = login] /\ caller.stage < 4
        \/ caller' = [caller EXCEPT !.at = "publish"]
    BY <1>6 DEF WaitForStage
  <2>. QED
    BY <2>1, <2>2, <2>3
<1>7. CASE Publish
  BY <1>7 DEF Publish, Fails
<1>11. CASE AfterQuery
  BY <1>11 DEF AfterQuery
<1>21. ASSUME NEW o \in Orders, Insert(o) PROVE NoRows
  BY <1>21 DEF Insert
<1>22. CASE SendInsert
  BY <1>22 DEF SendInsert, InsertFails
<1>23. CASE InsertSendReturns
  BY <1>23 DEF InsertSendReturns, InsertFails
<1>24. CASE Poll
  <2>1. caller.at = "poll" /\ UNCHANGED <<c, front, truth>>
    BY <1>24 DEF Poll
  <2>2. CASE caller' = [caller EXCEPT !.at = "inserted", !.got = c.book[caller.ref]]
    BY <2>1, <2>2
  <2>3. CASE InsertFails(Trouble("no-conclusion"))
    BY <2>1, <2>3 DEF InsertFails
  <2>. QED
    BY <1>24, <2>2, <2>3, Zenon DEF Poll
<1>12. CASE Cancel
  BY <1>12 DEF Cancel
<1>13. CASE CallClose
  BY <1>13 DEF CallClose, MarkClosed
<1>14. CASE CloseReturns \/ Finish
  BY <1>14 DEF CloseReturns, Finish
<1>15. CASE AbortHandshake \/ Release
  BY <1>15 DEF AbortHandshake, Release, Quiet
<1>16. CASE ElsewhereClosed
  BY <1>16 DEF ElsewhereClosed, MarkClosed
<1>17. CASE FrontConnected
  BY <1>17 DEF FrontConnected, Said
<1>18. CASE FrontDisconnected
  BY <1>18 DEF FrontDisconnected, Said
<1>20. CASE GeneralError
  <2>1. PICK r \in front.posted : front' = [front EXCEPT !.posted = @ \ {r}]
    BY <1>20 DEF GeneralError
  <2>2. PICK refused : truth' = [truth EXCEPT !.refused = refused]
    BY <1>20, Zenon DEF GeneralError
  <2>3. UNCHANGED <<mode, c, caller>>
    BY <1>20 DEF GeneralError
  <2>. QED
    BY <2>1, <2>2, <2>3
<1>25. CASE CounterReports
  BY <1>25 DEF CounterReports
<1>26. CASE OrderReported \/ HandshakeExpires
  BY <1>26 DEF OrderReported, HandshakeExpires
<1>. QED
  BY <1>1, <1>2, <1>3, <1>4, <1>5, <1>6, <1>7, <1>11, <1>12, <1>13, <1>14, <1>15, <1>16,
     <1>17, <1>18, <1>20, <1>21, <1>22, <1>23, <1>24, <1>25, <1>26

\* An answer of a stage is not rows.
LEMMA AnswerNoRows ==
  ASSUME Inv, Earned, Batched, AnswerHandshake
  PROVE  NoRows
<1>1. PICK r, say :
        /\ r \in front.posted /\ r.kind # "rows"
        /\ Said(Reply(c.hs, r.kind, r.id, IF say \in {"refused", "empty"} THEN Nothing ELSE say,
                      IF say = "refused" THEN 1 ELSE 0, TRUE, c.late))
        /\ truth' = CASE say = "refused" -> [truth EXCEPT !.refused = @ \/ r.kind # "settlement-confirm"]
                      [] say \notin {"refused", "empty"} /\ ~c.late ->
                           [truth EXCEPT !.answered = @ \cup {<<attempt, r.kind>>},
                                         !.said = IF r.kind = "login" THEN @ \cup {<<attempt, say>>} ELSE @]
                      [] OTHER -> truth
        /\ front' = [front EXCEPT !.posted = Answered(r, say),
                                  !.feed = IF r.kind = "login" /\ r.copies = 0 THEN OldReports ELSE @]
        /\ UNCHANGED <<mode, attempt, setup, caller, closer, general>>
  BY Zenon DEF AnswerHandshake
<1>2. truth'.owed = truth.owed
  BY <1>1 DEF Earned, Recorded
<1>3. c'.rows = c.rows /\ c'.nReq = c.nReq
  BY <1>1 DEF Said, Inv, Shape
<1>4. front'.posted = Answered(r, say)
  BY <1>1 DEF Inv, Shape
<1>5. \A q \in Answered(r, say) :
        \/ q \in front.posted
        \/ DOMAIN q = {"id", "kind", "rows", "copies", "says"} /\ q.kind # "rows"
  BY <1>1 DEF Answered, Batched, Counted
<1>. QED
  BY <1>1, <1>2, <1>3, <1>4, <1>5 DEF NoRows, RowRequests, Batched, Counted

-----------------------------------------------------------------------------
(* Asking. *)

LEMMA BeginQueryBatched ==
  ASSUME Inv, Batched, BeginQuery
  PROVE  Batched'
<1> USE DEF Inv, Shape, Batched, Counted, Whole, Asker, RowRequests, At
<1>1. PICK one : caller' = [caller EXCEPT !.at = "qsend", !.one = one, !.id = c.nReq + 1,
                                          !.calls = @ + 1, !.late = FALSE, !.rows = <<>>]
  BY DEF BeginQuery
<1>2. c' = [c EXCEPT !.nReq = @ + 1, !.rows = Begin(c.nReq + 1)]
  BY DEF BeginQuery
<1>3. UNCHANGED <<front, truth>>
  BY DEF BeginQuery
<1>4. c'.nReq = c.nReq + 1 /\ c'.rows = Begin(c.nReq + 1)
  BY <1>2
<1>5. caller'.at = "qsend" /\ caller'.id = c.nReq + 1
  BY <1>1
<1>. QED
  BY <1>3, <1>4, <1>5 DEF Begin

\* Whoever cannot send gives up the batch.
LEMMA GiveUp ==
  ASSUME Inv, Batched, QueryFails(Trouble("rejected")), c' = [c EXCEPT !.rows = Rejected],
         UNCHANGED <<front, truth>>
  PROVE  Batched'
<1> USE DEF Inv, Shape, Batched, Counted, Whole, Asker, RowRequests, QueryFails
<1>1. Trouble("rejected") # Nothing
  BY TroubleIsError
<1>2. DOMAIN Rejected = {"id", "active", "complete", "rows", "err"} /\ Rejected.rows = <<>>
  BY DEF Rejected, Taken, Receive
<1>3. c'.rows = Rejected /\ c'.nReq = c.nReq
  OBVIOUS
<1>4. caller'.at = "queried" /\ caller'.err = Trouble("rejected")
  OBVIOUS
<1>5. <<>> \in Seq(Rows)
  OBVIOUS
<1>6. RowRequests' = RowRequests
  OBVIOUS
<1> HIDE DEF RowRequests, QueryFails
<1>7. Counted'
  BY <1>2, <1>3, <1>4, <1>5, <1>6
<1>8. Whole'
  BY <1>1, <1>4
<1>. QED
  BY <1>7, <1>8

LEMMA SendQueryBatched ==
  ASSUME Inv, Earned, Batched, SendQuery
  PROVE  Batched'
<1>1. CASE c.closed /\ QueryFails(Trouble("rejected")) /\ c' = [c EXCEPT !.rows = Rejected]
           /\ UNCHANGED <<setup, front, truth>>
  BY <1>1, GiveUp
<1>2. CASE /\ ~c.closed /\ setup' = "caller" /\ Goes("qsending")
           /\ \E n \in 0 .. MaxRows : LET rows == [k \in 1 .. n |-> <<caller.id, k>>] IN
                /\ front' = [front EXCEPT !.posted = @ \cup {Request("rows", rows)}]
                /\ truth' = [truth EXCEPT !.owed = rows]
           /\ UNCHANGED c
  <2> USE DEF Inv, Shape, Earned, Recorded, Batched, Asker, At
  <2>1. caller.at = "qsend"
    BY DEF SendQuery
  <2>2. PICK n \in 0 .. MaxRows :
          /\ front' = [front EXCEPT !.posted = @ \cup {Request("rows", [k \in 1 .. n |-> <<caller.id, k>>])}]
          /\ truth' = [truth EXCEPT !.owed = [k \in 1 .. n |-> <<caller.id, k>>]]
    BY <1>2
  <2> DEFINE rows == [k \in 1 .. n |-> <<caller.id, k>>]
             request == Request("rows", rows)
  <2>3. caller.id \in Nat /\ rows \in Seq(Rows)
    <3>1. caller.id \in Nat /\ n \in Nat
      BY <2>1, BoundsAssumption DEF Counted
    <3>2. rows \in [1 .. n -> Rows]
      BY <3>1 DEF Rows
    <3>. QED
      BY <3>1, <3>2, SeqDef
  <2>4. caller'.at = "qsending" /\ caller'.id = caller.id /\ UNCHANGED c
    BY <1>2 DEF Goes
  <2>5. truth'.owed = rows /\ front'.posted = front.posted \cup {request}
    BY <2>2
  <2>6. /\ DOMAIN request = {"id", "kind", "rows", "copies", "says"}
        /\ request.kind = "rows" /\ request.id = c.nReq /\ request.rows = rows
    BY <2>1 DEF Counted, Request
  <2> HIDE DEF rows, request
  <2>7. RowRequests' = RowRequests \cup {request}
    BY <2>5, <2>6 DEF RowRequests
  <2>11. \A r \in RowRequests : r.id # c.nReq
    BY <2>1 DEF Counted
  <2>12. \A r, s \in RowRequests' : r.id = s.id => r = s
    BY <2>6, <2>7, <2>11 DEF Counted
  <2>13. \A r \in RowRequests' : r.id \in Nat /\ r.id <= c.nReq /\ r.rows \in Seq(Rows)
    BY <2>3, <2>6, <2>7 DEF Counted
  <2>14. \A r \in front'.posted : DOMAIN r = {"id", "kind", "rows", "copies", "says"}
    BY <2>5, <2>6 DEF Counted
  <2>15. truth'.owed \in Seq(Rows)
    BY <2>3, <2>5
  <2> HIDE DEF Inv, Shape, Earned, Recorded
  <2>8. Counted'
    BY <2>1, <2>4, <2>12, <2>13, <2>14, <2>15 DEF Counted
  <2>9. <<>> \o rows = rows
    BY <2>3
  <2>10. Whole'
    BY <2>1, <2>3, <2>4, <2>5, <2>6, <2>7, <2>9 DEF Counted, Whole
  <2>. QED
    BY <2>8, <2>10
<1>. QED
  BY <1>1, <1>2 DEF SendQuery

LEMMA QuerySendReturnsBatched ==
  ASSUME Inv, Batched, QuerySendReturns
  PROVE  Batched'
<1>1. CASE Goes("qwait") /\ UNCHANGED c
  BY <1>1 DEF QuerySendReturns, Inv, Shape, Batched, Counted, Whole, Asker, RowRequests, At, Goes
<1>2. CASE QueryFails(Trouble("rejected")) /\ c' = [c EXCEPT !.rows = Rejected]
  BY <1>2, GiveUp DEF QuerySendReturns
<1>. QED
  BY <1>1, <1>2 DEF QuerySendReturns

\* Only a complete batch without an error is an answer.
LEMMA WaitForRowsBatched ==
  ASSUME Inv, Batched, WaitForRows
  PROVE  Batched'
<1>1. caller.at = "qwait" /\ UNCHANGED <<front, truth>>
  BY DEF WaitForRows, At
<1>2. c' = [c EXCEPT !.rows = Taken(@)]
  BY Zenon DEF WaitForRows
<1>3. /\ caller'.at = "queried"
      /\ caller'.err = Nothing => TakeError(c.rows) = Nothing /\ caller'.rows = c.rows.rows
  BY Zenon DEF WaitForRows, Inv, Shape
<1>4. TakeError(c.rows) = Nothing => c.rows.err = Nothing /\ c.rows.complete
  BY TroubleIsError DEF TakeError
<1> USE DEF Inv, Shape, Batched, Asker, RowRequests
<1>5. c'.rows = Taken(c.rows) /\ c'.nReq = c.nReq
  BY <1>2
<1>6. DOMAIN Taken(c.rows) = {"id", "active", "complete", "rows", "err"} /\ Taken(c.rows).rows = <<>>
  BY DEF Taken, Counted
<1>7. Counted'
  BY <1>1, <1>3, <1>5, <1>6 DEF Counted
<1>8. Whole'
  BY <1>1, <1>3, <1>4, <1>5 DEF Whole
<1>. QED
  BY <1>7, <1>8

-----------------------------------------------------------------------------
(* Answering. *)

\* The error of another request, or of this one, makes no answer.
LEMMA ErrorKeepsWhole ==
  ASSUME Inv, Earned, Batched, NEW id, NEW err, err # Nothing, NEW last,
         c'.rows = Receive(c.rows, id, Nothing, err, last), c'.nReq = c.nReq,
         RowRequests' \subseteq RowRequests,
         front'.posted \subseteq front.posted, UNCHANGED <<caller, truth>>
  PROVE  Batched'
<1> USE DEF Batched
<1>1. /\ DOMAIN c'.rows = DOMAIN c.rows /\ c'.rows.rows = c.rows.rows
      /\ c'.rows.id = c.rows.id /\ c'.rows.active = c.rows.active
      /\ \/ c'.rows = c.rows
         \/ c'.rows.err # Nothing
  BY DEF Receive, Counted
<1>2. Counted'
  BY <1>1 DEF Counted
<1>3. Whole'
  BY <1>1 DEF Counted, Whole
<1>. QED
  BY <1>2, <1>3

LEMMA GeneralErrorUsedBatched ==
  ASSUME Inv, Earned, Batched, GeneralErrorUsed
  PROVE  Batched'
<1>1. c'.rows = Receive(c.rows, general.id, Nothing, Trouble("error"), TRUE) /\ c'.nReq = c.nReq
  BY DEF GeneralErrorUsed, Inv, Shape
<1>2. UNCHANGED <<caller, front, truth>>
  BY DEF GeneralErrorUsed
<1>3. RowRequests' = RowRequests
  BY <1>2 DEF RowRequests
<1>4. Trouble("error") # Nothing
  BY TroubleIsError
<1>. QED
  BY <1>1, <1>2, <1>3, <1>4, ErrorKeepsWhole

LEMMA AbortQueriesBatched ==
  ASSUME Inv, Batched, AbortQueries
  PROVE  Batched'
<1> USE DEF Inv, Shape, Batched
<1>1. c'.rows = AbortBatch(c.rows) /\ c'.nReq = c.nReq /\ UNCHANGED <<caller, front, truth>>
  BY DEF AbortQueries
<1>2. Trouble("closed") # Nothing
  BY TroubleIsError
<1>3. <<>> \in Seq(Rows)
  OBVIOUS
<1>4. /\ DOMAIN c'.rows = DOMAIN c.rows /\ c'.rows.rows \in Seq(Rows)
      /\ c'.rows.id = c.rows.id /\ c'.rows.active = c.rows.active
      /\ c'.rows = c.rows \/ c'.rows.err # Nothing
  BY <1>1, <1>2, <1>3 DEF AbortBatch, Counted
<1>5. RowRequests' = RowRequests
  BY <1>1 DEF RowRequests
<1>6. Counted'
  BY <1>1, <1>4, <1>5 DEF Counted
<1>7. Whole'
  <2>1. c'.rows = c.rows \/ c'.rows.err # Nothing
    BY <1>4
  <2> HIDE DEF Inv, Shape
  <2>2. CASE c'.rows = c.rows
    BY <1>1, <1>5, <2>2 DEF Whole
  <2>3. CASE c'.rows.err # Nothing
    BY <1>1, <1>4, <1>5, <2>3 DEF Counted, Whole
  <2>. QED
    BY <2>1, <2>2, <2>3
<1>. QED
  BY <1>6, <1>7

LEMMA AppendHead ==
  ASSUME NEW S, NEW s \in Seq(S), NEW t \in Seq(S), t # <<>>
  PROVE  /\ Head(t) \in S /\ Tail(t) \in Seq(S) /\ Append(s, Head(t)) \in Seq(S)
         /\ Append(s, Head(t)) \o Tail(t) = s \o t
         /\ Len(t) = 1 => Append(s, Head(t)) = s \o t
<1>1. /\ Head(t) \in S /\ Tail(t) \in Seq(S) /\ Len(Tail(t)) = Len(t) - 1
      /\ \A i \in 1 .. Len(Tail(t)) : Tail(t)[i] = t[i + 1]
  BY HeadTailProperties
<1>2. Len(t) \in Nat \ {0} /\ Len(s) \in Nat /\ Head(t) = t[1]
  BY EmptySeq, LenProperties
<1> DEFINE u == Append(s, Head(t))
<1>3. /\ u \in Seq(S) /\ Len(u) = Len(s) + 1 /\ u[Len(s) + 1] = Head(t)
      /\ \A i \in 1 .. Len(s) : u[i] = s[i]
  BY <1>1, AppendProperties
<1>4. /\ s \o t \in Seq(S) /\ Len(s \o t) = Len(s) + Len(t)
      /\ \A i \in 1 .. Len(s) + Len(t) : (s \o t)[i] = IF i <= Len(s) THEN s[i] ELSE t[i - Len(s)]
  BY ConcatProperties
<1> HIDE DEF u
<1>5. /\ u \o Tail(t) \in Seq(S) /\ Len(u \o Tail(t)) = Len(u) + Len(Tail(t))
      /\ \A i \in 1 .. Len(u) + Len(Tail(t)) :
           (u \o Tail(t))[i] = IF i <= Len(u) THEN u[i] ELSE Tail(t)[i - Len(u)]
  BY <1>1, <1>3, ConcatProperties
<1>6. ASSUME NEW i \in 1 .. Len(s) + Len(t) PROVE (u \o Tail(t))[i] = (s \o t)[i]
  <2>1. CASE i <= Len(s)
    BY <1>1, <1>2, <1>3, <1>4, <1>5, <2>1
  <2>2. CASE i = Len(s) + 1
    <3>1. i - Len(s) = 1 /\ i <= Len(u) /\ i \in 1 .. Len(u) + Len(Tail(t))
      BY <1>1, <1>2, <1>3, <2>2
    <3>2. (s \o t)[i] = t[1]
      BY <1>2, <1>4, <2>2, <3>1
    <3>3. (u \o Tail(t))[i] = u[Len(s) + 1]
      BY <1>5, <2>2, <3>1
    <3>. QED
      BY <1>2, <1>3, <3>2, <3>3
  <2>3. CASE i > Len(s) + 1
    <3>1. i - Len(u) \in 1 .. Len(Tail(t)) /\ (i - Len(u)) + 1 = i - Len(s)
      BY <1>1, <1>2, <1>3, <2>3
    <3>2. (s \o t)[i] = t[i - Len(s)]
      BY <1>2, <1>4, <2>3
    <3>3. (u \o Tail(t))[i] = Tail(t)[i - Len(u)]
      BY <1>1, <1>2, <1>3, <1>5, <2>3
    <3>. QED
      BY <1>1, <3>1, <3>2, <3>3
  <2>4. i \in Int /\ Len(s) \in Int
    BY <1>2
  <2>5. i <= Len(s) \/ i = Len(s) + 1 \/ i > Len(s) + 1
    BY <2>4
  <2>. QED
    BY <2>1, <2>2, <2>3, <2>5, Zenon
<1>7. u \o Tail(t) = s \o t
  <2>1. Len(u \o Tail(t)) = Len(s \o t)
    BY <1>1, <1>2, <1>3, <1>4, <1>5
  <2>. QED
    BY <1>4, <1>5, <1>6, <2>1, SeqEqual
<1>8. ASSUME Len(t) = 1 PROVE u = s \o t
  <2>1. \A i \in 1 .. Len(u) : u[i] = (s \o t)[i]
    BY <1>2, <1>3, <1>4, <1>8
  <2>2. Len(u) = Len(s \o t)
    BY <1>3, <1>4, <1>8
  <2>. QED
    BY <1>3, <1>4, <2>1, <2>2, SeqEqual
<1>. QED
  BY <1>1, <1>3, <1>7, <1>8 DEF u

\* A row of an answer that is still awaited is its next one.
LEMMA RowComes ==
  ASSUME Inv, Earned, Batched, NEW r \in RowRequests, r.rows # <<>>,
         c'.rows = Receive(c.rows, r.id, Head(r.rows), Nothing, Len(r.rows) = 1), c'.nReq = c.nReq,
         front'.posted = (front.posted \ {r}) \cup
                         (IF Len(r.rows) = 1 THEN {} ELSE {[r EXCEPT !.rows = Tail(@)]}),
         UNCHANGED <<caller, truth>>
  PROVE  Batched'
<1> DEFINE rest == [r EXCEPT !.rows = Tail(@)]
           one == Append(c.rows.rows, Head(r.rows))
<1>1. /\ c.rows.rows \in Seq(Rows) /\ r.rows \in Seq(Rows) /\ r.id \in Nat /\ r.id <= c.nReq
      /\ DOMAIN r = {"id", "kind", "rows", "copies", "says"} /\ r.kind = "rows"
  BY DEF Batched, Counted, RowRequests
<1>2. /\ Head(r.rows) \in Rows /\ Tail(r.rows) \in Seq(Rows) /\ one \in Seq(Rows)
      /\ one \o Tail(r.rows) = c.rows.rows \o r.rows
      /\ Len(r.rows) = 1 => one = c.rows.rows \o r.rows
  <2> DEFINE Glued(s, t) ==
               /\ Head(t) \in Rows /\ Tail(t) \in Seq(Rows) /\ Append(s, Head(t)) \in Seq(Rows)
               /\ Append(s, Head(t)) \o Tail(t) = s \o t
               /\ Len(t) = 1 => Append(s, Head(t)) = s \o t
  <2>1. \A s, t \in Seq(Rows) : t # <<>> => Glued(s, t)
    BY AppendHead
  <2> HIDE DEF Glued
  <2>2. Glued(c.rows.rows, r.rows)
    BY <1>1, <2>1
  <2>. QED
    BY <2>2 DEF Glued
<1>3. Head(r.rows) # Nothing
  BY <1>2, AnswerAssumption DEF Rows
<1>4. /\ DOMAIN rest = DOMAIN r /\ rest.kind = "rows" /\ rest.id = r.id /\ rest.rows = Tail(r.rows)
  BY <1>1
<1>5. RowRequests' \subseteq (RowRequests \ {r}) \cup (IF Len(r.rows) = 1 THEN {} ELSE {rest})
  BY DEF RowRequests
<1>6. \A q \in front'.posted : DOMAIN q = {"id", "kind", "rows", "copies", "says"}
  BY <1>1, <1>4 DEF Batched, Counted
<1> HIDE DEF rest, one
<1>7. \A q \in RowRequests' : q.id \in Nat /\ q.id <= c.nReq /\ q.rows \in Seq(Rows)
  BY <1>1, <1>2, <1>4, <1>5 DEF Batched, Counted
<1>8. \A p, q \in RowRequests' : p.id = q.id => p = q
  BY <1>4, <1>5 DEF Batched, Counted
<1>9. c.rows.id = c.nReq => r.id = c.nReq \/ c'.rows = c.rows
  BY DEF Receive, Receiving
<1>10. /\ DOMAIN c'.rows = DOMAIN c.rows /\ c'.rows.rows \in Seq(Rows)
       /\ c'.rows.id = c.rows.id /\ c'.rows.active = c.rows.active
  BY <1>2 DEF Receive, Batched, Counted, one
<1>11. c'.rows = c.rows \/ /\ ~c.rows.complete /\ r.id = c.rows.id
                           /\ c'.rows.rows = one /\ c'.rows.complete = (Len(r.rows) = 1)
                           /\ c'.rows.err = c.rows.err
  BY <1>3 DEF Receive, Receiving, Batched, Counted, one
<1>12. caller.at = "qsend" => \A q \in RowRequests' : q.id # c.nReq
  BY <1>4, <1>5 DEF Batched, Counted
<1>13. Counted'
  BY <1>6, <1>7, <1>8, <1>10, <1>12 DEF Batched, Counted
<1>14. Whole'
  <2>1. CASE caller.at = "qsend"
    <3>1. c'.rows = c.rows
      BY <1>11, <2>1 DEF Batched, Counted, Asker
    <3>. QED
      BY <2>1, <3>1 DEF Batched, Whole
  <2>2. CASE caller.at \in {"qsending", "qwait"}
    <3> SUFFICES ASSUME c'.rows.err = Nothing
        PROVE  IF c'.rows.complete THEN c'.rows.rows = truth.owed
               ELSE \A q \in RowRequests' : q.id = c.nReq => c'.rows.rows \o q.rows = truth.owed
      BY <2>2 DEF Whole
    <3>1. c.rows.id = c.nReq
      BY <2>2 DEF Batched, Counted, Asker
    <3>2. CASE c'.rows = c.rows /\ c.rows.complete
      BY <2>2, <3>2 DEF Batched, Whole
    <3>3. CASE c'.rows = c.rows /\ ~c.rows.complete /\ r.id # c.nReq
      BY <1>4, <1>5, <2>2, <3>3 DEF Batched, Whole
    <3>4. CASE c'.rows # c.rows
      <4>1. /\ ~c.rows.complete /\ r.id = c.nReq /\ c.rows.err = Nothing
            /\ c'.rows.rows = one /\ c'.rows.complete = (Len(r.rows) = 1)
        BY <1>11, <3>1, <3>4
      <4>2. c.rows.rows \o r.rows = truth.owed
        BY <2>2, <4>1 DEF Batched, Whole
      <4>3. \A q \in RowRequests' : q.id = c.nReq => q = rest
        BY <1>1, <1>5, <4>1 DEF Batched, Counted
      <4>. QED
        BY <1>2, <1>4, <4>1, <4>2, <4>3
    <3>5. CASE c'.rows = c.rows /\ ~c.rows.complete /\ r.id = c.nReq
      \* A row that is awaited is taken.
      <4>1. c.rows.active
        BY <2>2 DEF Batched, Counted, Asker
      <4>2. c'.rows.rows = one
        BY <1>3, <3>1, <3>5, <4>1 DEF Receive, Receiving, Batched, Counted, one
      <4>3. Len(one) = Len(c.rows.rows) + 1
        BY <1>1, <1>2 DEF one
      <4>. QED
        BY <1>1, <3>5, <4>2, <4>3
    <3>. QED
      BY <3>2, <3>3, <3>4, <3>5
  <2>3. CASE caller.at \notin Asker
    BY <2>3 DEF Batched, Whole, Asker
  <2>. QED
    BY <2>1, <2>2, <2>3 DEF Asker
<1>. QED
  BY <1>13, <1>14 DEF Batched

\* The mark that ends an answer without rows, or the error that ends it early.
LEMMA MarkComes ==
  ASSUME Inv, Earned, Batched, NEW r \in RowRequests,
         c'.rows = Receive(c.rows, r.id, Nothing, IF r.rows = <<>> THEN Nothing ELSE Trouble("error"), TRUE),
         c'.nReq = c.nReq, front'.posted = front.posted \ {r}, UNCHANGED <<caller, truth>>
  PROVE  Batched'
<1>1. RowRequests' \subseteq RowRequests
  BY DEF RowRequests
<1>2. CASE r.rows # <<>>
  <2>1. Trouble("error") # Nothing
    BY TroubleIsError
  <2>. QED
    BY <1>1, <1>2, <2>1, ErrorKeepsWhole
<1>3. CASE r.rows = <<>>
  <2> USE DEF Batched
  <2>1. c'.rows = Receive(c.rows, r.id, Nothing, Nothing, TRUE)
    BY <1>3
  <2>2. /\ DOMAIN c'.rows = DOMAIN c.rows /\ c'.rows.rows = c.rows.rows
        /\ c'.rows.id = c.rows.id /\ c'.rows.active = c.rows.active
    BY <2>1 DEF Receive, Counted
  <2>3. c'.rows = c.rows \/ /\ ~c.rows.complete /\ r.id = c.rows.id
                            /\ c'.rows.complete /\ c'.rows.err = c.rows.err
    BY <2>1 DEF Receive, Receiving, Counted
  <2>4. Counted'
    BY <1>1, <2>2 DEF Counted
  <2>5. c.rows.rows \o <<>> = c.rows.rows
    BY DEF Counted
  <2>7. caller.at = "qsend" => c'.rows = c.rows
    BY <2>3 DEF Counted, Asker
  <2>8. caller.at \in {"qsending", "qwait"} /\ c'.rows # c.rows /\ c.rows.err = Nothing => c.rows.rows = truth.owed
    BY <1>3, <2>3, <2>5 DEF Counted, Asker, Whole
  <2>6. Whole'
    BY <1>1, <2>2, <2>3, <2>7, <2>8 DEF Counted, Whole
  <2>. QED
    BY <2>4, <2>6
<1>. QED
  BY <1>2, <1>3

LEMMA AnswerQueryBatched ==
  ASSUME Inv, Earned, Batched, AnswerQuery
  PROVE  Batched'
<1>1. PICK r \in front.posted :
        /\ r.kind = "rows"
        /\ \/ /\ r.rows # <<>>
              /\ c' = [c EXCEPT !.rows = Receive(@, r.id, Head(r.rows), Nothing, Len(r.rows) = 1)]
              /\ front' = [front EXCEPT !.posted = (@ \ {r}) \cup (IF Len(r.rows) = 1 THEN {} ELSE {[r EXCEPT !.rows = Tail(@)]})]
           \/ /\ c' = [c EXCEPT !.rows = Receive(@, r.id, Nothing, IF r.rows = <<>> THEN Nothing ELSE Trouble("error"), TRUE)]
              /\ front' = [front EXCEPT !.posted = @ \ {r}]
        /\ UNCHANGED <<mode, attempt, setup, caller, closer, general, truth>>
  BY Zenon DEF AnswerQuery
<1>2. r \in RowRequests
  BY <1>1 DEF RowRequests
<1>3. CASE /\ r.rows # <<>>
           /\ c' = [c EXCEPT !.rows = Receive(@, r.id, Head(r.rows), Nothing, Len(r.rows) = 1)]
           /\ front' = [front EXCEPT !.posted = (@ \ {r}) \cup (IF Len(r.rows) = 1 THEN {} ELSE {[r EXCEPT !.rows = Tail(@)]})]
  <2>1. /\ c'.rows = Receive(c.rows, r.id, Head(r.rows), Nothing, Len(r.rows) = 1) /\ c'.nReq = c.nReq
        /\ front'.posted = (front.posted \ {r}) \cup (IF Len(r.rows) = 1 THEN {} ELSE {[r EXCEPT !.rows = Tail(@)]})
    BY <1>3, Zenon DEF Inv, Shape
  <2>. QED
    BY <1>1, <1>2, <1>3, <2>1, RowComes
<1>4. CASE /\ c' = [c EXCEPT !.rows = Receive(@, r.id, Nothing, IF r.rows = <<>> THEN Nothing ELSE Trouble("error"), TRUE)]
           /\ front' = [front EXCEPT !.posted = @ \ {r}]
  <2>1. /\ c'.rows = Receive(c.rows, r.id, Nothing, IF r.rows = <<>> THEN Nothing ELSE Trouble("error"), TRUE)
        /\ c'.nReq = c.nReq /\ front'.posted = front.posted \ {r}
    BY <1>4, Zenon DEF Inv, Shape
  <2>. QED
    BY <1>1, <1>2, <2>1, MarkComes
<1>. QED
  BY <1>1, <1>3, <1>4

-----------------------------------------------------------------------------
LEMMA RetryBatched ==
  ASSUME Inv, Earned, Batched, Retry
  PROVE  Batched'
<1>1. caller.at = "closed" /\ mode = "fetch" /\ UNCHANGED <<front, truth>>
  BY DEF Retry, At
<1>2. front.posted = {}
  BY <1>1 DEF Inv, ClosesItself, Earned, Silent
<1>3. RowRequests' = {} /\ front'.posted = {}
  BY <1>1, <1>2 DEF RowRequests
<1>4. c'.rows = NewBatch /\ c'.nReq = 0 /\ caller'.at = "start"
  BY DEF Retry, NewClient, Inv, Shape
<1>5. <<>> \in Seq(Rows)
  OBVIOUS
<1>6. Counted'
  BY <1>1, <1>3, <1>4, <1>5 DEF Batched, Counted, NewBatch, Asker
<1>7. Whole'
  BY <1>4 DEF Whole
<1>. QED
  BY <1>6, <1>7 DEF Batched

LEMMA CallExpiresBatched ==
  ASSUME Inv, Batched, CallExpires
  PROVE  Batched'
<1>1. UNCHANGED <<c, front, truth>> /\ RowRequests' = RowRequests
  BY DEF CallExpires, RowRequests
<1>2. /\ caller'.at = caller.at /\ caller'.id = caller.id
      /\ caller'.err = caller.err /\ caller'.rows = caller.rows
  BY DEF CallExpires, Inv, Shape
<1>3. Counted'
  BY <1>1, <1>2 DEF Batched, Counted
<1>4. Whole'
  BY <1>1, <1>2 DEF Batched, Whole
<1>. QED
  BY <1>3, <1>4 DEF Batched

LEMMA NextBatched == Inv /\ Earned /\ Batched /\ [SessionNext]_vars => Batched'
<1> SUFFICES ASSUME Inv, Earned, Batched, [SessionNext]_vars PROVE Batched'
  OBVIOUS
<1>1. CASE \/ Connect \/ SetUp \/ Prepare \/ Send \/ SendReturns \/ WaitForStage \/ Publish
           \/ AfterQuery
           \/ (\E o \in Orders : Insert(o)) \/ SendInsert \/ InsertSendReturns \/ Poll \/ Cancel
           \/ CallClose \/ CloseReturns \/ Finish \/ AbortHandshake \/ Release \/ ElsewhereClosed
           \/ FrontConnected \/ FrontDisconnected \/ GeneralError \/ CounterReports \/ OrderReported
           \/ HandshakeExpires
  BY <1>1, NoRowsSteps, NoRowsKeeps
<1>2. CASE AnswerHandshake
  BY <1>2, AnswerNoRows, NoRowsKeeps
<1>3. CASE BeginQuery \/ SendQuery \/ QuerySendReturns \/ WaitForRows
  BY <1>3, BeginQueryBatched, SendQueryBatched, QuerySendReturnsBatched, WaitForRowsBatched
<1>4. CASE AnswerQuery \/ GeneralErrorUsed \/ AbortQueries \/ Retry \/ CallExpires
  BY <1>4, AnswerQueryBatched, GeneralErrorUsedBatched, AbortQueriesBatched, RetryBatched, CallExpiresBatched
<1>5. CASE UNCHANGED vars
  BY <1>5 DEF vars, Batched, Counted, Whole, RowRequests
<1>. QED
  BY <1>1, <1>2, <1>3, <1>4, <1>5 DEF SessionNext, CallerStep, CloserStep, LibraryStep

(***************************************************************************)
(* The rows of a query that succeeds are those of its own answer, all of them *)
(* and in order, whatever late answers to earlier queries arrive meanwhile *)
(* (ctp/query_batch.go): what the batch has and what the front still has to *)
(* say make up the answer.                                                 *)
(***************************************************************************)
THEOREM RowsAreOnlyOwn == SessionSpec => []RowsAreOwn
<1>1. Batched => RowsAreOwn
  BY DEF Batched, Whole, RowsAreOwn, At
<1>. QED
  BY InitInv, NextInv, InitEarned, NextEarned, InitBatched, NextBatched, <1>1, PTL DEF SessionSpec

-----------------------------------------------------------------------------
(* Who may ask to be let in. *)

Doors == {"authenticate", "login"}

\* The collector will not say yes to whoever waits now.
Hopeless(h) == ~(h.complete /\ h.err = Nothing /\ h.abortErr = Nothing)

\* The caller waits at a door that has not opened, or has failed there for good.
Stuck ==
  \/ /\ caller.at \in {"sending", "wait"} /\ caller.stage \in {2, 3} /\ Hopeless(c.hs)
  \/ /\ caller.at \in {"failed", "closing", "closed", "done"} /\ ~Retryable(caller.err)

\* Nobody is asked twice on one connection: what is with the front was asked at
\* this stage or an earlier one.
AskedOnce ==
  /\ \A r \in front.posted :
       /\ DOMAIN r = {"id", "kind", "rows", "copies", "says"} /\ r.copies \in Nat
       /\ r.kind \in Doors \cup {"rows", "settlement-confirm"}
  /\ \A r \in front.posted, s \in 2 .. 4 : r.kind = Stage[s] =>
       /\ s <= caller.stage
       /\ caller.at \in {"prepare", "send"} => s < caller.stage
  /\ \A q, r \in front.posted : q.kind = r.kind /\ r.kind \in Doors => q = r

\* Whoever has an unanswered request at a door is stuck at this door, and
\* whoever was refused is stuck for good.
Barred ==
  /\ truth.refused \in BOOLEAN
  /\ truth.refused => Stuck
  /\ \A r \in front.posted : r.kind \in Doors =>
       /\ r.says = Nothing =>
            Stuck /\ (caller.at \in {"sending", "wait"} => r.kind = Stage[caller.stage])
       /\ r.says = "refused" => truth.refused
       /\ truth.refused /\ caller.at \in {"sending", "wait"} /\ r.kind = Stage[caller.stage] => r.says = "refused"
  /\ caller.at = "send" /\ caller.stage \in {2, 3} => Hopeless(c.hs)

\* What ends a stage for good: everything but a timeout of the last.
Failing ==
  /\ c.started => ~Retryable(c.hs.abortErr)
  /\ caller.at \in Asking => ~Retryable(c.hs.err)

Denied == AskedOnce /\ Barred /\ Failing

LEMMA NothingIsFinal == ~Retryable(Nothing)
BY NothingAssumption DEF Retryable

LEMMA FailureIsFinal ==
  ASSUME NEW h, NEW kind, kind # "timeout" \/ h.stage # "settlement-confirm"
  PROVE  ~Retryable(Failure(h, kind))
<1> SUFFICES ASSUME Retryable(Failure(h, kind)) PROVE FALSE
  OBVIOUS
<1>1. [stage |-> h.stage, kind |-> kind] = [stage |-> "settlement-confirm", kind |-> "timeout"]
  BY DEF Retryable, Failure
<1>2. h.stage = "settlement-confirm" /\ kind = "timeout"
  BY <1>1
<1>. QED
  BY <1>2

LEMMA TroubleIsFinal ==
  ASSUME NEW kind
  PROVE  ~Retryable(Trouble(kind))
<1> SUFFICES ASSUME Retryable(Trouble(kind)) PROVE FALSE
  OBVIOUS
<1>1. [stage |-> "none", kind |-> kind] = [stage |-> "settlement-confirm", kind |-> "timeout"]
  BY DEF Retryable, Trouble
<1>. QED
  BY <1>1

LEMMA InitDenied == SessionInit => Denied
<1> SUFFICES ASSUME SessionInit PROVE Denied
  OBVIOUS
<1>1. /\ caller.at = "start" /\ front.posted = {} /\ truth.refused = FALSE /\ c.started = FALSE
  BY DEF SessionInit, NewClient
<1>. QED
  BY <1>1 DEF Denied, AskedOnce, Barred, Failing, Asking

-----------------------------------------------------------------------------
\* A step that asks nobody to be let in and is not of a caller at a door.
Elsewhere ==
  /\ c'.hs = c.hs /\ c'.started = c.started
  /\ truth'.refused = truth.refused
  /\ \A r \in front'.posted :
       \/ r \in front.posted
       \/ DOMAIN r = {"id", "kind", "rows", "copies", "says"} /\ r.copies = 0 /\ r.kind = "rows"
       \/ \E q \in front.posted : q.kind = "rows" /\ \E rows : r = [q EXCEPT !.rows = rows]
  /\ caller'.stage = caller.stage
  /\ \/ caller'.at = caller.at /\ caller'.err = caller.err
     \/ /\ caller.at \notin {"prepare", "send", "sending", "wait", "failed", "closing", "closed", "done"}
        /\ caller'.at \notin {"prepare", "send", "sending", "wait"}
     \/ /\ caller.at \in {"failed", "closing", "closed", "done"}
        /\ caller'.at \in {"failed", "closing", "closed", "done"}
        /\ caller'.err = caller.err

LEMMA ElsewhereKeeps == Denied /\ Elsewhere => Denied'
<1> SUFFICES ASSUME Denied, Elsewhere PROVE Denied'
  OBVIOUS
<1>1. Stuck => Stuck'
  BY DEF Elsewhere, Stuck, Hopeless
<1>2. ~Stuck /\ caller'.at \notin {"failed", "closing", "closed", "done"} => ~Stuck'
  BY DEF Elsewhere, Stuck, Hopeless
<1>3. \A r \in front'.posted :
        \/ r \in front.posted
        \/ DOMAIN r = {"id", "kind", "rows", "copies", "says"} /\ r.copies \in Nat /\ r.kind = "rows"
  <2> SUFFICES ASSUME NEW r \in front'.posted, NEW q \in front.posted, q.kind = "rows",
                      NEW rows, r = [q EXCEPT !.rows = rows]
      PROVE  DOMAIN r = {"id", "kind", "rows", "copies", "says"} /\ r.copies \in Nat /\ r.kind = "rows"
    BY DEF Elsewhere
  <2>1. DOMAIN q = {"id", "kind", "rows", "copies", "says"} /\ q.copies \in Nat
    BY DEF Denied, AskedOnce
  <2>. QED
    BY <2>1
<1>4. \A s \in 2 .. 4 : Stage[s] # "rows"
  BY StageFacts DEF StageNames
<1>5. AskedOnce'
  BY <1>3, <1>4 DEF Denied, AskedOnce, Elsewhere, Doors
<1>6. Barred'
  BY <1>1, <1>3 DEF Denied, Barred, Elsewhere, Doors
<1>7. Failing'
  BY DEF Denied, Failing, Elsewhere, Asking
<1>. QED
  BY <1>5, <1>6, <1>7 DEF Denied

LEMMA ElsewhereSteps ==
  ASSUME Inv, Earned,
         \/ Publish \/ BeginQuery \/ SendQuery \/ QuerySendReturns \/ WaitForRows \/ AfterQuery
         \/ (\E o \in Orders : Insert(o)) \/ SendInsert \/ InsertSendReturns \/ Poll \/ Cancel
         \/ CallClose \/ CloseReturns \/ Finish \/ AbortQueries \/ Release \/ ElsewhereClosed
         \/ AnswerQuery \/ CounterReports \/ OrderReported \/ CallExpires \/ HandshakeExpires
  PROVE  Elsewhere
<1> USE DEF Inv, Shape, Earned, Recorded, Elsewhere, At, Goes
<1>1. CASE Publish
  BY <1>1 DEF Publish, Fails
<1>2. CASE BeginQuery
  BY <1>2 DEF BeginQuery
<1>3. CASE SendQuery
  <2>1. /\ caller.at = "qsend" /\ c'.hs = c.hs /\ c'.started = c.started /\ truth'.refused = truth.refused
        /\ caller'.at \in {"queried", "qsending"} /\ caller'.stage = caller.stage
    BY <1>3 DEF SendQuery, QueryFails
  <2>2. front'.posted = front.posted \/ \E rows : front'.posted = front.posted \cup {Request("rows", rows)}
    <3>0. front = [open |-> front.open, init |-> front.init, posted |-> front.posted, orders |-> front.orders,
                   feed |-> front.feed, cancels |-> front.cancels]
      BY Zenon
    <3> HIDE DEF Inv, Shape, Earned, Recorded, Elsewhere, At, Goes
    <3>1. PICK n \in 0 .. MaxRows :
            \/ front' = front
            \/ front' = [front EXCEPT !.posted = @ \cup {Request("rows", [k \in 1 .. n |-> <<caller.id, k>>])}]
      <4>1. 0 \in 0 .. MaxRows
        BY BoundsAssumption
      <4>. QED
        BY <1>3, <4>1, Zenon DEF SendQuery
    <3>. QED
      BY <3>0, <3>1
  <2>. QED
    BY <2>1, <2>2 DEF Request
<1>4. CASE QuerySendReturns
  BY <1>4 DEF QuerySendReturns, QueryFails
<1>5. CASE WaitForRows
  <2>1. PICK e, rows : caller' = [caller EXCEPT !.at = "queried", !.err = e, !.rows = rows]
    BY <1>5, RowsTaken
  <2>. QED
    BY <1>5, <2>1, RowsTaken
<1>6. CASE AfterQuery
  BY <1>6 DEF AfterQuery
<1>7. ASSUME NEW o \in Orders, Insert(o) PROVE Elsewhere
  BY <1>7 DEF Insert
<1>8. CASE SendInsert
  BY <1>8 DEF SendInsert, InsertFails
<1>9. CASE InsertSendReturns
  BY <1>9 DEF InsertSendReturns, InsertFails
<1>10. CASE Poll
  <2>1. caller.at = "poll" /\ UNCHANGED <<c, front, truth>>
    BY <1>10 DEF Poll
  <2>2. CASE caller' = [caller EXCEPT !.at = "inserted", !.got = c.book[caller.ref]]
    BY <2>1, <2>2
  <2>3. CASE InsertFails(Trouble("no-conclusion"))
    BY <2>1, <2>3 DEF InsertFails
  <2>. QED
    BY <1>10, <2>2, <2>3, Zenon DEF Poll
<1>11. CASE Cancel
  BY <1>11 DEF Cancel
<1>12. CASE CallClose
  BY <1>12 DEF CallClose, MarkClosed
<1>13. CASE CloseReturns \/ Finish
  BY <1>13 DEF CloseReturns, Finish
<1>14. CASE AbortQueries \/ Release
  BY <1>14 DEF AbortQueries, Release, Quiet
<1>15. CASE ElsewhereClosed
  BY <1>15 DEF ElsewhereClosed, MarkClosed
<1>16. CASE AnswerQuery
  <2>1. PICK r \in front.posted :
          /\ r.kind = "rows"
          /\ \/ /\ r.rows # <<>>
                /\ c' = [c EXCEPT !.rows = Receive(@, r.id, Head(r.rows), Nothing, Len(r.rows) = 1)]
                /\ front' = [front EXCEPT !.posted = (@ \ {r}) \cup (IF Len(r.rows) = 1 THEN {} ELSE {[r EXCEPT !.rows = Tail(@)]})]
             \/ /\ c' = [c EXCEPT !.rows = Receive(@, r.id, Nothing, IF r.rows = <<>> THEN Nothing ELSE Trouble("error"), TRUE)]
                /\ front' = [front EXCEPT !.posted = @ \ {r}]
          /\ UNCHANGED <<mode, attempt, setup, caller, closer, general, truth>>
    BY <1>16, Zenon DEF AnswerQuery
  <2>2. PICK batch : c' = [c EXCEPT !.rows = batch]
    BY <2>1, Zenon
  <2>3. c'.hs = c.hs /\ c'.started = c.started
    BY <2>2
  <2>4. CASE front' = [front EXCEPT !.posted = @ \ {r}]
    BY <2>1, <2>3, <2>4
  <2>5. CASE front' = [front EXCEPT !.posted = (@ \ {r}) \cup (IF Len(r.rows) = 1 THEN {} ELSE {[r EXCEPT !.rows = Tail(@)]})]
    <3>1. front'.posted = (front.posted \ {r}) \cup (IF Len(r.rows) = 1 THEN {} ELSE {[r EXCEPT !.rows = Tail(@)]})
      BY <2>5, Zenon
    <3>2. \A q \in front'.posted : q \in front.posted \/ q = [r EXCEPT !.rows = Tail(r.rows)]
      BY <3>1, Zenon
    <3>3. \A q \in front'.posted :
            q \in front.posted \/ \E p \in front.posted : p.kind = "rows" /\ \E rows : q = [p EXCEPT !.rows = rows]
      BY <2>1, <3>2, Zenon
    <3>. QED
      BY <2>1, <2>3, <3>3
  <2>. QED
    BY <2>1, <2>4, <2>5, Zenon
<1>17. CASE CounterReports
  BY <1>17 DEF CounterReports
<1>18. CASE OrderReported \/ CallExpires \/ HandshakeExpires
  BY <1>18 DEF OrderReported, CallExpires, HandshakeExpires
<1>. QED
  BY <1>1, <1>2, <1>3, <1>4, <1>5, <1>6, <1>7, <1>8, <1>9, <1>10, <1>11, <1>12, <1>13, <1>14, <1>15, <1>16,
     <1>17, <1>18

-----------------------------------------------------------------------------
(* The collector: what ends a stage, and what keeps it hopeless. *)

LEMMA ReplyEnds ==
  ASSUME NEW h, Collector(h), NEW stage, NEW id, NEW value, NEW code, NEW late
  PROVE  LET g == Heeds(h, stage, id, value, code, late)
         IN  /\ g.abortErr = h.abortErr
             /\ ~Retryable(h.err) => ~Retryable(g.err)
             /\ h.stage # stage => g = h
             /\ Hopeless(h) /\ (code # 0 \/ value = Nothing) => Hopeless(g)
<1> DEFINE g == Heeds(h, stage, id, value, code, late)
<1>1. ~Retryable(Failure(h, "response-error")) /\ ~Retryable(Failure(h, "missing-response"))
  BY FailureIsFinal
<1>2. Failure(h, "response-error") # Nothing /\ Failure(h, "missing-response") # Nothing
  BY FailureIsError DEF Collector, Kinds
<1>3. \/ g = h
      \/ /\ Listening(h, stage, id, late)
         /\ g = [h EXCEPT !.complete = TRUE,
                          !.err = IF code # 0 THEN Failure(h, "response-error")
                                  ELSE IF value = Nothing THEN Failure(h, "missing-response") ELSE @,
                          !.result = IF code = 0 /\ value # Nothing THEN value ELSE @]
  BY DEF Heeds, Reply
<1> HIDE DEF g
<1>4. g.abortErr = h.abortErr
  BY <1>3 DEF Collector
<1>5. \/ g = h
      \/ g.err = IF code # 0 THEN Failure(h, "response-error")
                 ELSE IF value = Nothing THEN Failure(h, "missing-response") ELSE h.err
  BY <1>3 DEF Collector
<1>6. ~Retryable(h.err) => ~Retryable(g.err)
  BY <1>1, <1>5
<1>7. Hopeless(h) /\ (code # 0 \/ value = Nothing) => Hopeless(g)
  BY <1>2, <1>5 DEF Hopeless
<1>8. h.stage # stage => g = h
  BY <1>3 DEF Listening
<1>. QED
  BY <1>4, <1>6, <1>7, <1>8 DEF g

LEMMA AbortEnds ==
  ASSUME NEW h, Collector(h), NEW kind \in {"closed", "disconnected"}
  PROVE  /\ ~Retryable(h.abortErr) => ~Retryable(Abort(h, kind).abortErr)
         /\ Abort(h, kind).err = h.err
         /\ Hopeless(h) => Hopeless(Abort(h, kind))
<1>1. ~Retryable(Failure(h, kind)) /\ Failure(h, kind) # Nothing
  BY FailureIsFinal, FailureIsError DEF Collector, Kinds
<1>2. Abort(h, kind) = h \/ Abort(h, kind).abortErr = Failure(h, kind)
  BY DEF Abort, Collector
<1>3. Abort(h, kind).err = h.err
  BY DEF Abort, Collector
<1>. QED
  BY <1>1, <1>2, <1>3 DEF Hopeless

LEMMA PreparedEnds ==
  ASSUME NEW h, Collector(h), NEW stage \in StageNames, NEW id, NEW late \in BOOLEAN
  PROVE  /\ Prepared(h, stage, id, late).abortErr = h.abortErr
         /\ PrepareError(h, stage, id, late) = Nothing => Prepared(h, stage, id, late).err = Nothing
<1>1. Collector(Asked(h, stage, id)) /\ Asked(h, stage, id).abortErr = h.abortErr
  BY DEF Collector, Asked
<1>. QED
  BY <1>1 DEF Prepared, Collector

\* A wait at a door that ends with an error is final.
LEMMA WaitedEnds ==
  ASSUME NEW h, Collector(h), NEW late \in BOOLEAN, ~Retryable(h.abortErr), ~Retryable(h.err)
  PROVE  /\ Waited(h, late).abortErr = h.abortErr
         /\ Waited(h, late).stage = h.stage
         /\ h.stage # "settlement-confirm" => ~Retryable(WaitError(h, late))
<1>1. h.stage # "settlement-confirm" => ~Retryable(Failure(h, "timeout"))
  BY FailureIsFinal
<1>2. Waited(h, late).err = IF h.abortErr = Nothing /\ (~h.complete \/ late) THEN Failure(h, "timeout") ELSE h.err
  BY DEF Collector, Waited
<1>3. Waited(h, late).abortErr = h.abortErr /\ Waited(h, late).stage = h.stage
  BY DEF Collector, Waited
<1>. QED
  BY <1>1, <1>2, <1>3 DEF WaitError

-----------------------------------------------------------------------------
(* The caller at the doors. *)

LEMMA ConnectDenied ==
  ASSUME Inv, Earned, Denied, Connect
  PROVE  Denied'
<1>1. caller.at = "start" /\ ~Stuck /\ UNCHANGED <<front, truth>>
  BY DEF Connect, At, Stuck
<1>2. caller'.at \in {"setup", "failed"} /\ caller'.stage = caller.stage
  BY DEF Connect, Goes, Fails, Inv, Shape
<1>3. c' = c \/ (c'.hs = NewHandshake)
  BY DEF Connect, Inv, Shape
<1>4. AskedOnce'
  BY <1>1, <1>2 DEF Denied, AskedOnce
<1>5. Barred'
  BY <1>1, <1>2 DEF Denied, Barred
<1>6. Failing'
  BY <1>2, <1>3, NothingIsFinal DEF Denied, Failing, Asking, NewHandshake
<1>. QED
  BY <1>4, <1>5, <1>6 DEF Denied

LEMMA SetUpDenied ==
  ASSUME Inv, Earned, Denied, SetUp
  PROVE  Denied'
<1>1. caller.at = "setup" /\ ~Stuck /\ UNCHANGED <<truth>> /\ caller.stage = 1 /\ Collector(c.hs)
  BY DEF SetUp, At, Stuck, Earned, Passed, Silent, Recorded, Beyond
<1>2. caller'.at \in {"prepare", "failed"} /\ caller'.stage = caller.stage /\ front'.posted = front.posted
  BY DEF SetUp, Goes, Fails, Inv, Shape
<1>3. c' = c \/ (c'.hs = Seal(c.hs) /\ c'.started = c.started)
  BY DEF SetUp, Inv, Shape
<1>4. \A r \in front.posted, s \in 2 .. 4 : r.kind # Stage[s]
  BY <1>1 DEF Denied, AskedOnce
<1>5. AskedOnce'
  BY <1>1, <1>2, <1>4 DEF Denied, AskedOnce
<1>6. Barred'
  BY <1>1, <1>2 DEF Denied, Barred
<1>7. Seal(c.hs).abortErr = c.hs.abortErr
  BY <1>1 DEF Seal, Collector
<1>8. Failing'
  BY <1>2, <1>3, <1>7 DEF Denied, Failing, Asking
<1>. QED
  BY <1>5, <1>6, <1>8 DEF Denied

LEMMA PrepareDenied ==
  ASSUME Inv, Earned, Denied, Prepare
  PROVE  Denied'
<1> DEFINE stage == Stage[caller.stage]
           id == IF caller.stage = 1 THEN 0 ELSE c.nReq + 1
           e == PrepareError(c.hs, stage, id, c.late)
           h == Prepared(c.hs, stage, id, c.late)
<1>1. /\ caller.at = "prepare" /\ ~Stuck /\ caller.stage \in 1 .. 4
      /\ Collector(c.hs) /\ c.late \in BOOLEAN /\ c.started
  BY DEF Prepare, At, Stuck, Earned, Recorded, Silent, Passed, Connecting, Beyond
<1>2. stage \in StageNames
  BY <1>1, StageFacts
<1>3. Collector(h) /\ (e = Nothing => ~h.complete)
  BY <1>1, <1>2, PreparedFacts
<1>4. h.abortErr = c.hs.abortErr /\ (e = Nothing => h.err = Nothing)
  BY <1>1, <1>2, PreparedEnds
<1>5. UNCHANGED <<front, truth>>
  BY DEF Prepare
<1>6. \/ e = Nothing /\ caller' = [caller EXCEPT !.at = "send", !.id = id]
      \/ e # Nothing /\ caller' = [caller EXCEPT !.at = "failed", !.err = e]
  BY Zenon DEF Prepare
<1>7. \E n : c' = [c EXCEPT !.nReq = n, !.hs = IF e = Nothing THEN h ELSE Seal(h)]
  BY Zenon DEF Prepare
<1>8. Seal(h).abortErr = h.abortErr
  BY <1>3 DEF Seal, Collector
<1> HIDE DEF stage, id, e, h
<1>9. /\ caller'.stage = caller.stage
      /\ \/ e = Nothing /\ caller'.at = "send" /\ c'.hs = h
         \/ e # Nothing /\ caller'.at = "failed" /\ c'.hs = Seal(h)
      /\ c'.started = c.started
  BY <1>6, <1>7 DEF Inv, Shape
<1>10. AskedOnce'
  BY <1>1, <1>5, <1>9 DEF Denied, AskedOnce
<1>11. Barred'
  BY <1>1, <1>3, <1>5, <1>9 DEF Denied, Barred, Hopeless
<1>12. Failing'
  BY <1>1, <1>4, <1>8, <1>9, NothingIsFinal DEF Denied, Failing, Asking
<1>. QED
  BY <1>10, <1>11, <1>12 DEF Denied

LEMMA SendDenied ==
  ASSUME Inv, Earned, Denied, Send
  PROVE  Denied'
<1> DEFINE request == Request(Stage[caller.stage], <<>>)
<1>1. /\ caller.at = "send" /\ ~Stuck /\ caller.stage \in 1 .. 4 /\ Collector(c.hs) /\ c.started
      /\ UNCHANGED truth
  BY DEF Send, At, Stuck, Earned, Recorded, Silent, Passed, Connecting, Beyond
<1>2. /\ caller'.at \in {"wait", "sending"} /\ caller'.stage = caller.stage
      /\ c' = c \/ (c'.hs = Abort(c.hs, "closed") /\ c'.started = c.started)
  BY DEF Send, Goes, Inv, Shape
<1>3. \/ front'.posted = front.posted
      \/ caller.stage # 1 /\ c' = c /\ front'.posted = front.posted \cup {request}
  BY DEF Send, Inv, Shape
<1>4. /\ DOMAIN request = {"id", "kind", "rows", "copies", "says"} /\ request.copies = 0
      /\ request.kind = Stage[caller.stage] /\ request.says = Nothing
  BY DEF Request
<1>5. /\ ~Retryable(Abort(c.hs, "closed").abortErr) /\ Abort(c.hs, "closed").err = c.hs.err
  BY <1>1, AbortEnds DEF Denied, Failing
<1> HIDE DEF request
<1>6. Stage[caller.stage] \in Doors => caller.stage \in {2, 3}
  BY <1>1, StageFacts DEF Doors
<1>7. \A r \in front.posted : r.kind # Stage[caller.stage] \/ caller.stage = 1
  BY <1>1 DEF Denied, AskedOnce
<1>8. \A s \in 2 .. 4 : Stage[s] = Stage[caller.stage] => s = caller.stage
  BY <1>1, StageFacts
<1>9. AskedOnce'
  <2>1. \A r \in front'.posted :
          /\ DOMAIN r = {"id", "kind", "rows", "copies", "says"} /\ r.copies \in Nat
          /\ r.kind \in Doors \cup {"rows", "settlement-confirm"}
    <3>1. caller.stage # 1 => Stage[caller.stage] \in Doors \cup {"settlement-confirm"}
      BY <1>1, StageFacts DEF Doors
    <3>. QED
      BY <1>3, <1>4, <3>1 DEF Denied, AskedOnce
  <2>2. \A r \in front'.posted, s \in 2 .. 4 : r.kind = Stage[s] => s <= caller.stage
    BY <1>1, <1>3, <1>4, <1>8 DEF Denied, AskedOnce
  <2>3. \A q, r \in front'.posted : q.kind = r.kind /\ r.kind \in Doors => q = r
    BY <1>1, <1>3, <1>4, <1>7 DEF Denied, AskedOnce
  <2>. QED
    BY <1>2, <2>1, <2>2, <2>3 DEF AskedOnce
<1>10. Barred'
  <2>1. ~truth.refused /\ ~truth'.refused /\ truth'.refused \in BOOLEAN
    BY <1>1 DEF Denied, Barred
  <2>2. \A r \in front.posted : r.kind \in Doors => r.says # Nothing /\ r.says # "refused"
    BY <1>1, <2>1 DEF Denied, Barred
  <2>3. request \in front'.posted \ front.posted /\ request.kind \in Doors => Stuck'
    BY <1>1, <1>2, <1>3, <1>4, <1>6 DEF Denied, Barred, Stuck
  <2>4. request.says # "refused"
    BY <1>4, AnswerAssumption
  <2>. QED
    BY <1>2, <1>3, <1>4, <2>1, <2>2, <2>3, <2>4 DEF Barred
<1>11. Failing'
  BY <1>1, <1>2, <1>5 DEF Denied, Failing, Asking
<1>. QED
  BY <1>9, <1>10, <1>11 DEF Denied

LEMMA SendReturnsDenied ==
  ASSUME Inv, Earned, Denied, SendReturns
  PROVE  Denied'
<1>1. caller.at = "sending" /\ c.started /\ Collector(c.hs) /\ UNCHANGED <<front, truth>>
  BY DEF SendReturns, At, Earned, Recorded, Silent, Beyond
<1>2. CASE Goes("wait") /\ UNCHANGED c
  <2>1. caller'.at = "wait" /\ caller'.stage = caller.stage
    BY <1>2 DEF Goes, Inv, Shape
  <2>2. Stuck => Stuck'
    BY <1>1, <1>2, <2>1 DEF Stuck
  <2>. QED
    BY <1>1, <1>2, <2>1, <2>2 DEF Denied, AskedOnce, Barred, Failing, Asking
<1>3. CASE caller.stage # 1 /\ c' = [c EXCEPT !.hs = Seal(@)] /\ Fails(Failure(c.hs, "send-rejected"))
  <2>1. /\ caller'.at = "failed" /\ caller'.stage = caller.stage
        /\ caller'.err = Failure(c.hs, "send-rejected")
    BY <1>3 DEF Fails, Inv, Shape
  <2>2. Stuck'
    BY <2>1, FailureIsFinal DEF Stuck
  <2>3. c'.hs.abortErr = c.hs.abortErr /\ c'.started = c.started
    BY <1>1, <1>3 DEF Seal, Collector, Inv, Shape
  <2>. QED
    BY <1>1, <2>1, <2>2, <2>3 DEF Denied, AskedOnce, Barred, Failing, Asking
<1>. QED
  BY <1>2, <1>3 DEF SendReturns

LEMMA WaitForStageDenied ==
  ASSUME Inv, Earned, Denied, WaitForStage
  PROVE  Denied'
<1> DEFINE login == IF caller.stage = 3 THEN c.hs.result ELSE caller.login
           e == IF WaitError(c.hs, c.late) # Nothing THEN WaitError(c.hs, c.late)
                ELSE IF caller.stage = 3 /\ login \notin Days THEN Failure(c.hs, "invalid-trading-day")
                ELSE Nothing
           h == Waited(c.hs, c.late)
<1>1. /\ caller.at = "wait" /\ c.started /\ Collector(c.hs) /\ caller.stage \in 1 .. 4 /\ c.late \in BOOLEAN
      /\ c.hs.stage = Stage[caller.stage]
  BY DEF WaitForStage, At, Earned, Recorded, Silent, Passed, Heard, Connecting, Asking, Beyond
<1>2. UNCHANGED <<front, truth>>
  BY DEF WaitForStage
<1>3. /\ h.abortErr = c.hs.abortErr
      /\ c.hs.stage # "settlement-confirm" => ~Retryable(WaitError(c.hs, c.late))
  BY <1>1, WaitedEnds DEF Denied, Failing, Asking
<1>4. Seal(h).abortErr = h.abortErr
  BY <1>1, WaitedFacts DEF Seal, Collector
<1>5. c'.hs \in {h, Seal(h)} /\ c'.started = c.started
  BY DEF WaitForStage, Inv, Shape
<1>6. CASE e # Nothing
  <2>1. caller' = [caller EXCEPT !.at = "failed", !.err = e]
    BY <1>6, Zenon DEF WaitForStage
  <2>2. caller.stage \in {2, 3} => ~Retryable(e)
    <3>1. ~Retryable(Failure(c.hs, "invalid-trading-day"))
      BY FailureIsFinal
    <3>2. caller.stage \in {2, 3} => c.hs.stage # "settlement-confirm"
      BY <1>1, StageFacts
    <3>. QED
      BY <1>3, <3>1, <3>2, NothingIsFinal
  <2> HIDE DEF login, e, h
  <2>3. caller'.at = "failed" /\ caller'.err = e /\ caller'.stage = caller.stage
    BY <2>1 DEF Inv, Shape
  <2>4. Stuck => Stuck'
    BY <1>1, <2>2, <2>3 DEF Stuck
  <2>. QED
    BY <1>1, <1>2, <1>3, <1>4, <1>5, <2>3, <2>4 DEF Denied, AskedOnce, Barred, Failing, Asking
<1>7. CASE e = Nothing
  <2>1. WaitError(c.hs, c.late) = Nothing
    BY <1>7
  <2>2. ~Hopeless(c.hs)
    BY <1>1, <2>1, WaitedFacts DEF Hopeless
  <2>3. ~Stuck
    BY <1>1, <2>2 DEF Stuck
  <2>4. \/ caller' = [caller EXCEPT !.at = "prepare", !.stage = @ + 1, !.login = login]
        \/ caller' = [caller EXCEPT !.at = "publish"]
    BY <1>7, Zenon DEF WaitForStage
  <2> HIDE DEF login, e, h
  <2>5. \/ caller'.at = "prepare" /\ caller'.stage = caller.stage + 1
        \/ caller'.at = "publish" /\ caller'.stage = caller.stage
    BY <2>4 DEF Inv, Shape
  <2>6. AskedOnce'
    BY <1>1, <1>2, <2>5 DEF Denied, AskedOnce
  <2>7. Barred'
    BY <1>2, <2>3, <2>5 DEF Denied, Barred
  <2>8. Failing'
    BY <1>1, <1>3, <1>4, <1>5, <2>5 DEF Denied, Failing, Asking
  <2>. QED
    BY <2>6, <2>7, <2>8 DEF Denied
<1>. QED
  BY <1>6, <1>7

\* Only a confirmation that timed out leads to another connection.
LEMMA RetryDenied ==
  ASSUME Inv, Earned, Denied, Retry
  PROVE  Denied'
<1>1. ~Stuck /\ front.posted = {} /\ UNCHANGED <<front, truth>>
  BY DEF Retry, At, Stuck, Inv, ClosesItself, Earned, Silent
<1>2. c'.started = FALSE /\ caller'.at = "start"
  BY DEF Retry, NewClient, Inv, Shape
<1>. QED
  BY <1>1, <1>2 DEF Denied, AskedOnce, Barred, Failing, Asking

-----------------------------------------------------------------------------
(* What the front says, and Close. *)

\* A change of the collector that opens nothing.
LEMMA ClosedDoors ==
  ASSUME Denied, c'.started = c.started, UNCHANGED caller,
         Hopeless(c.hs) => Hopeless(c'.hs),
         ~Retryable(c.hs.abortErr) => ~Retryable(c'.hs.abortErr),
         ~Retryable(c.hs.err) => ~Retryable(c'.hs.err),
         front'.posted = front.posted, truth'.refused = truth.refused
  PROVE  Denied'
<1>1. Stuck => Stuck'
  BY DEF Stuck
<1>2. AskedOnce'
  BY DEF Denied, AskedOnce
<1>3. Barred'
  BY <1>1 DEF Denied, Barred
<1>4. Failing'
  BY DEF Denied, Failing
<1>. QED
  BY <1>2, <1>3, <1>4 DEF Denied

LEMMA AbortDenied ==
  ASSUME Inv, Earned, Denied, AbortHandshake \/ FrontDisconnected
  PROVE  Denied'
<1>1. CASE AbortHandshake
  <2>1. UNCHANGED <<caller, front, truth>> /\ c'.started = c.started
    BY <1>1 DEF AbortHandshake, Inv, Shape
  <2>2. CASE ~c.started
    <3>1. c' = c
      BY <1>1, <2>2 DEF AbortHandshake, Earned, Recorded
    <3>. QED
      BY <2>1, <3>1, ClosedDoors
  <2>3. CASE c.started
    <3>1. c'.hs = c.hs \/ c'.hs = Abort(c.hs, "closed")
      BY <1>1 DEF AbortHandshake, Inv, Shape
    <3>2. Collector(c.hs)
      BY <2>3 DEF Earned, Recorded
    <3>3. /\ ~Retryable(c.hs.abortErr) => ~Retryable(Abort(c.hs, "closed").abortErr)
          /\ Abort(c.hs, "closed").err = c.hs.err
          /\ Hopeless(c.hs) => Hopeless(Abort(c.hs, "closed"))
      BY <3>2, AbortEnds
    <3>. QED
      BY <2>1, <3>1, <3>3, ClosedDoors
  <2>. QED
    BY <2>2, <2>3
<1>2. CASE FrontDisconnected
  <2>1. UNCHANGED <<caller, front, truth>> /\ c'.started = c.started /\ c'.hs = Abort(c.hs, "disconnected")
    BY <1>2 DEF FrontDisconnected, Said, Inv, Shape
  <2>2. Collector(c.hs)
    BY <1>2 DEF FrontDisconnected, Earned, Recorded, Silent
  <2>3. /\ ~Retryable(c.hs.abortErr) => ~Retryable(Abort(c.hs, "disconnected").abortErr)
        /\ Abort(c.hs, "disconnected").err = c.hs.err
        /\ Hopeless(c.hs) => Hopeless(Abort(c.hs, "disconnected"))
    BY <2>2, AbortEnds
  <2>. QED
    BY <2>1, <2>3, ClosedDoors
<1>. QED
  BY <1>1, <1>2

\* Being connected opens no door: whoever is at one is past the front.
LEMMA ConnectedDenied ==
  ASSUME Inv, Earned, Denied, FrontConnected
  PROVE  Denied'
<1> DEFINE h == Heeds(c.hs, "front", 0, "connected", 0, c.late)
<1>1. c.started /\ Collector(c.hs) /\ UNCHANGED <<caller, front>>
  BY DEF FrontConnected, Earned, Recorded, Silent
<1>2. c'.hs = h /\ c'.started = c.started
  BY DEF FrontConnected, Said, Heeds, Inv, Shape
<1>3. truth'.refused = truth.refused
  BY DEF FrontConnected, Earned, Recorded
<1>4. /\ h.abortErr = c.hs.abortErr
      /\ ~Retryable(c.hs.err) => ~Retryable(h.err)
      /\ c.hs.stage # "front" => h = c.hs
  BY <1>1, ReplyEnds
<1> HIDE DEF h
<1>5. caller.at \in Asking /\ caller.stage \in {2, 3} => c.hs.stage # "front"
  BY StageFacts DEF Earned, Heard
<1>6. Stuck => Stuck'
  BY <1>1, <1>2, <1>4, <1>5 DEF Stuck, Asking
<1>7. AskedOnce'
  BY <1>1 DEF Denied, AskedOnce
<1>8. Barred'
  BY <1>1, <1>2, <1>3, <1>4, <1>5, <1>6 DEF Denied, Barred, Asking
<1>9. Failing'
  BY <1>1, <1>2, <1>4 DEF Denied, Failing
<1>. QED
  BY <1>7, <1>8, <1>9 DEF Denied

LEMMA GeneralErrorUsedDenied ==
  ASSUME Inv, Earned, Denied, GeneralErrorUsed
  PROVE  Denied'
<1> DEFINE h == Heeds(c.hs, general.stage, general.id, Nothing, 1, c.late)
<1>1. Collector(c.hs) /\ UNCHANGED <<caller, front, truth>>
  BY DEF GeneralErrorUsed, Earned, Recorded, Silent
<1>2. c'.hs = h /\ c'.started = c.started
  BY DEF GeneralErrorUsed, Heeds, Inv, Shape
<1>3. /\ h.abortErr = c.hs.abortErr
      /\ ~Retryable(c.hs.err) => ~Retryable(h.err)
      /\ Hopeless(c.hs) => Hopeless(h)
  BY <1>1, ReplyEnds
<1> HIDE DEF h
<1>. QED
  BY <1>1, <1>2, <1>3, ClosedDoors

\* A request that got an error instead of an answer is gone, its caller still waits.
LEMMA GeneralErrorDenied ==
  ASSUME Inv, Earned, Denied, GeneralError
  PROVE  Denied'
<1>1. PICK r \in front.posted :
        /\ r.says = Nothing
        /\ front' = [front EXCEPT !.posted = @ \ {r}]
        /\ truth' = [truth EXCEPT !.refused = @ \/ r.kind \in {"authenticate", "login"}]
        /\ UNCHANGED <<c, caller>>
  BY Zenon DEF GeneralError
<1>2. front'.posted = front.posted \ {r}
  BY <1>1 DEF Inv, Shape
<1>3. truth'.refused = (truth.refused \/ r.kind \in Doors)
  BY <1>1 DEF Earned, Recorded, Doors
<1>4. Stuck' <=> Stuck
  BY <1>1 DEF Stuck
<1>5. AskedOnce'
  BY <1>1, <1>2 DEF Denied, AskedOnce
<1>6. Barred'
  <2>1. truth'.refused \in BOOLEAN /\ (truth'.refused => Stuck')
    BY <1>1, <1>3, <1>4 DEF Denied, Barred
  <2>2. ASSUME NEW q \in front'.posted, q.kind \in Doors
        PROVE  /\ q.says = Nothing =>
                    Stuck' /\ (caller'.at \in {"sending", "wait"} => q.kind = Stage[caller'.stage])
               /\ q.says = "refused" => truth'.refused
    BY <1>1, <1>2, <1>3, <1>4, <2>2 DEF Denied, Barred
  <2>3. ASSUME NEW q \in front'.posted, q.kind \in Doors,
               truth'.refused, caller'.at \in {"sending", "wait"}, q.kind = Stage[caller'.stage]
        PROVE  q.says = "refused"
    <3>1. CASE truth.refused
      BY <1>1, <1>2, <2>3, <3>1 DEF Denied, Barred
    <3>2. CASE r.kind \in Doors
      <4>1. r.kind = Stage[caller.stage]
        BY <1>1, <2>3, <3>2 DEF Denied, Barred
      <4>. QED
        BY <1>1, <1>2, <2>3, <3>2, <4>1 DEF Denied, AskedOnce
    <3>. QED
      BY <1>3, <2>3, <3>1, <3>2
  <2>4. caller'.at = "send" /\ caller'.stage \in {2, 3} => Hopeless(c'.hs)
    BY <1>1 DEF Denied, Barred
  <2>. QED
    BY <2>1, <2>2, <2>3, <2>4 DEF Barred
<1>7. Failing'
  BY <1>1 DEF Denied, Failing
<1>. QED
  BY <1>5, <1>6, <1>7 DEF Denied

\* Copies of an answer say what the answer said; the answer to another stage is not heard.
LEMMA AnswerDenied ==
  ASSUME Inv, Earned, Denied, AnswerHandshake
  PROVE  Denied'
<1>1. PICK r \in front.posted : \E say \in IF r.says = Nothing THEN Sayings(r.kind) ELSE {r.says} :
        /\ r.kind # "rows"
        /\ Said(Reply(c.hs, r.kind, r.id, IF say \in {"refused", "empty"} THEN Nothing ELSE say,
                      IF say = "refused" THEN 1 ELSE 0, TRUE, c.late))
        /\ truth' = CASE say = "refused" -> [truth EXCEPT !.refused = @ \/ r.kind # "settlement-confirm"]
                      [] say \notin {"refused", "empty"} /\ ~c.late ->
                           [truth EXCEPT !.answered = @ \cup {<<attempt, r.kind>>},
                                         !.said = IF r.kind = "login" THEN @ \cup {<<attempt, say>>} ELSE @]
                      [] OTHER -> truth
        /\ front' = [front EXCEPT !.posted = Answered(r, say),
                                  !.feed = IF r.kind = "login" /\ r.copies = 0 THEN OldReports ELSE @]
        /\ UNCHANGED <<mode, attempt, setup, caller, closer, general>>
  BY Zenon DEF AnswerHandshake
<1>2. PICK say \in IF r.says = Nothing THEN Sayings(r.kind) ELSE {r.says} :
        /\ Said(Reply(c.hs, r.kind, r.id, IF say \in {"refused", "empty"} THEN Nothing ELSE say,
                      IF say = "refused" THEN 1 ELSE 0, TRUE, c.late))
        /\ truth' = CASE say = "refused" -> [truth EXCEPT !.refused = @ \/ r.kind # "settlement-confirm"]
                      [] say \notin {"refused", "empty"} /\ ~c.late ->
                           [truth EXCEPT !.answered = @ \cup {<<attempt, r.kind>>},
                                         !.said = IF r.kind = "login" THEN @ \cup {<<attempt, say>>} ELSE @]
                      [] OTHER -> truth
        /\ front' = [front EXCEPT !.posted = Answered(r, say),
                                  !.feed = IF r.kind = "login" /\ r.copies = 0 THEN OldReports ELSE @]
        /\ UNCHANGED <<mode, attempt, setup, caller, closer, general>>
  BY <1>1, Zenon
<1> DEFINE value == IF say \in {"refused", "empty"} THEN Nothing ELSE say
           code == IF say = "refused" THEN 1 ELSE 0
           h == Heeds(c.hs, r.kind, r.id, value, code, c.late)
           copy == [r EXCEPT !.copies = @ + 1, !.says = say]
<1>3. Collector(c.hs) /\ UNCHANGED caller
  BY <1>2 DEF Earned, Recorded, Silent
<1>4. c'.hs = h /\ c'.started = c.started
  BY <1>2 DEF Said, Heeds, Inv, Shape
<1>5. /\ h.abortErr = c.hs.abortErr
      /\ ~Retryable(c.hs.err) => ~Retryable(h.err)
      /\ c.hs.stage # r.kind => h = c.hs
      /\ Hopeless(c.hs) /\ (code # 0 \/ value = Nothing) => Hopeless(h)
  BY <1>3, ReplyEnds
<1>6. say # Nothing
  BY <1>2, AnswerAssumption DEF Sayings
<1>7. /\ DOMAIN copy = DOMAIN r /\ copy.copies \in Nat /\ copy.kind = r.kind /\ copy.says = say
      /\ DOMAIN r = {"id", "kind", "rows", "copies", "says"}
  BY <1>1 DEF Denied, AskedOnce
<1>8. front'.posted \subseteq (front.posted \ {r}) \cup {copy}
  BY <1>2 DEF Answered, Inv, Shape
<1>9. truth'.refused = (truth.refused \/ (say = "refused" /\ r.kind # "settlement-confirm"))
  <2>1. truth.refused \in BOOLEAN
    BY DEF Denied, Barred
  <2>2. CASE say = "refused"
    BY <1>2, <2>1, <2>2 DEF Earned, Recorded
  <2>3. CASE say # "refused"
    BY <1>2, <2>1, <2>3 DEF Earned, Recorded
  <2>. QED
    BY <2>2, <2>3
<1>10. say = "refused" => code # 0
  OBVIOUS
<1>11. say \in {"refused", "empty"} => value = Nothing
  OBVIOUS
<1> HIDE DEF value, code, h, copy
<1>12. AskedOnce'
  <2>1. \A q \in front'.posted :
          /\ DOMAIN q = {"id", "kind", "rows", "copies", "says"} /\ q.copies \in Nat
          /\ q.kind \in Doors \cup {"rows", "settlement-confirm"}
    BY <1>7, <1>8 DEF Denied, AskedOnce
  <2>2. \A q \in front'.posted, s \in 2 .. 4 : q.kind = Stage[s] =>
          /\ s <= caller.stage
          /\ caller.at \in {"prepare", "send"} => s < caller.stage
    BY <1>1, <1>7, <1>8 DEF Denied, AskedOnce
  <2>3. \A p, q \in front'.posted : p.kind = q.kind /\ q.kind \in Doors => p = q
    BY <1>1, <1>7, <1>8 DEF Denied, AskedOnce
  <2>. QED
    BY <1>3, <2>1, <2>2, <2>3 DEF AskedOnce
\* At a door, only a grant of this door is heard, and there is none after a refusal.
<1>13. r.kind \in Doors /\ r.says = Nothing => Stuck /\ (caller.at \in {"sending", "wait"} => r.kind = Stage[caller.stage])
  BY <1>1 DEF Denied, Barred
<1>14. caller.at \in Asking => c.hs.stage = Stage[caller.stage]
  BY DEF Earned, Heard
<1>15. caller.at = "send" /\ caller.stage \in {2, 3} => r.kind # Stage[caller.stage]
  BY <1>1 DEF Denied, AskedOnce
<1>16. caller.stage \in {2, 3} => Stage[caller.stage] \in Doors
  BY StageFacts DEF Doors
<1>17. caller.at = "send" /\ caller.stage \in {2, 3} => Hopeless(h)
  BY <1>5, <1>14, <1>15 DEF Denied, Barred, Asking
<1>18. r.kind \in Doors => r.kind # "settlement-confirm"
  BY DEF Doors
<1>19. r.kind # "settlement-confirm" => r.kind \in Doors
  BY <1>1 DEF Denied, AskedOnce
<1>20. r.says # Nothing => say = r.says
  BY <1>2
<1>21. "refused" # Nothing
  BY AnswerAssumption
<1>22. truth'.refused => Stuck
  BY <1>1, <1>9, <1>13, <1>19, <1>20 DEF Denied, Barred
<1>23. \A q \in front'.posted : q.says = Nothing => q \in front.posted \ {r}
  BY <1>6, <1>7, <1>8
<1>24. ASSUME Stuck, truth'.refused \/ \E q \in front'.posted : q.kind \in Doors /\ q.says = Nothing
       PROVE  Stuck'
  <2>1. CASE caller.at \in {"failed", "closing", "closed", "done"} /\ ~Retryable(caller.err)
    BY <1>3, <2>1 DEF Stuck
  <2>2. CASE caller.at \in {"sending", "wait"} /\ caller.stage \in {2, 3} /\ Hopeless(c.hs)
    <3>1. CASE r.kind # Stage[caller.stage]
      BY <1>3, <1>4, <1>5, <1>14, <2>2, <3>1 DEF Stuck, Asking
    <3>2. CASE say \in {"refused", "empty"}
      BY <1>3, <1>4, <1>5, <1>11, <2>2, <3>2 DEF Stuck
    <3>3. CASE r.kind = Stage[caller.stage] /\ say \notin {"refused", "empty"}
      <4>1. r.kind \in Doors
        BY <1>16, <2>2, <3>3
      <4>2. ~truth.refused
        BY <1>1, <1>20, <1>21, <2>2, <3>3, <4>1 DEF Denied, Barred
      <4>3. PICK q \in front'.posted : q.kind \in Doors /\ q.says = Nothing
        BY <1>9, <1>24, <3>3, <4>2
      <4>4. q \in front.posted /\ q # r /\ q.kind = r.kind
        BY <1>23, <2>2, <3>3, <4>3 DEF Denied, Barred
      <4>. QED
        BY <1>1, <4>1, <4>4 DEF Denied, AskedOnce
    <3>. QED
      BY <3>1, <3>2, <3>3
  <2>. QED
    BY <1>24, <2>1, <2>2 DEF Stuck
<1>25. Barred'
  <2>1. truth'.refused \in BOOLEAN
    BY <1>9 DEF Denied, Barred
  <2>2. truth'.refused => Stuck'
    BY <1>22, <1>24
  <2>3. ASSUME NEW q \in front'.posted, q.kind \in Doors, q.says = Nothing
        PROVE  Stuck' /\ (caller.at \in {"sending", "wait"} => q.kind = Stage[caller.stage])
    BY <1>23, <1>24, <2>3 DEF Denied, Barred
  <2>4. ASSUME NEW q \in front'.posted, q.kind \in Doors, q.says = "refused"
        PROVE  truth'.refused
    BY <1>7, <1>8, <1>9, <1>18, <2>4 DEF Denied, Barred
  <2>5. ASSUME NEW q \in front'.posted, q.kind \in Doors,
               truth'.refused, caller.at \in {"sending", "wait"}, q.kind = Stage[caller.stage]
        PROVE  q.says = "refused"
    <3>1. CASE truth.refused
      <4>1. CASE q \in front.posted
        BY <2>5, <3>1, <4>1 DEF Denied, Barred
      <4>2. CASE q = copy
        BY <1>1, <1>7, <1>20, <1>21, <2>5, <3>1, <4>2 DEF Denied, Barred
      <4>. QED
        BY <1>8, <4>1, <4>2
    <3>2. CASE ~truth.refused
      <4>1. say = "refused" /\ r.kind \in Doors
        BY <1>9, <1>19, <2>5, <3>2
      <4>2. r.says = Nothing
        BY <1>1, <1>20, <3>2, <4>1 DEF Denied, Barred
      <4>3. r.kind = q.kind
        BY <1>13, <2>5, <4>1, <4>2
      <4>4. q \notin front.posted \ {r}
        BY <1>1, <2>5, <4>3 DEF Denied, AskedOnce
      <4>. QED
        BY <1>7, <1>8, <4>1, <4>4
    <3>. QED
      BY <3>1, <3>2
  <2>. QED
    BY <1>3, <1>4, <1>17, <2>1, <2>2, <2>3, <2>4, <2>5 DEF Barred
<1>26. Failing'
  BY <1>3, <1>4, <1>5 DEF Denied, Failing
<1>. QED
  BY <1>12, <1>25, <1>26 DEF Denied

-----------------------------------------------------------------------------
LEMMA NextDenied == Inv /\ Earned /\ Denied /\ [SessionNext]_vars => Denied'
<1> SUFFICES ASSUME Inv, Earned, Denied, [SessionNext]_vars PROVE Denied'
  OBVIOUS
<1>1. CASE \/ Publish \/ BeginQuery \/ SendQuery \/ QuerySendReturns \/ WaitForRows \/ AfterQuery
           \/ (\E o \in Orders : Insert(o)) \/ SendInsert \/ InsertSendReturns \/ Poll \/ Cancel
           \/ CallClose \/ CloseReturns \/ Finish \/ AbortQueries \/ Release \/ ElsewhereClosed
           \/ AnswerQuery \/ CounterReports \/ OrderReported \/ CallExpires \/ HandshakeExpires
  BY <1>1, ElsewhereSteps, ElsewhereKeeps
<1>2. CASE Connect \/ SetUp \/ Prepare \/ Send \/ SendReturns \/ WaitForStage \/ Retry
  BY <1>2, ConnectDenied, SetUpDenied, PrepareDenied, SendDenied, SendReturnsDenied, WaitForStageDenied, RetryDenied
<1>3. CASE AbortHandshake \/ FrontDisconnected \/ FrontConnected
  BY <1>3, AbortDenied, ConnectedDenied
<1>4. CASE GeneralError \/ GeneralErrorUsed \/ AnswerHandshake
  BY <1>4, GeneralErrorDenied, GeneralErrorUsedDenied, AnswerDenied
<1>5. CASE UNCHANGED vars
  BY <1>5 DEF vars, Denied, AskedOnce, Barred, Failing, Stuck
<1>. QED
  BY <1>1, <1>2, <1>3, <1>4, <1>5 DEF SessionNext, CallerStep, CloserStep, LibraryStep

\* Only Send asks anew.
LEMMA NobodyAsks ==
  ASSUME Inv, Earned, Denied, [SessionNext]_vars, truth.refused
  PROVE  \A r \in front'.posted \ front.posted : r.kind \in Doors => r.copies > 0
<1> SUFFICES ASSUME NEW r \in front'.posted \ front.posted, r.kind \in Doors PROVE r.copies > 0
  OBVIOUS
<1>1. CASE \/ Publish \/ BeginQuery \/ SendQuery \/ QuerySendReturns \/ WaitForRows \/ AfterQuery
           \/ (\E o \in Orders : Insert(o)) \/ SendInsert \/ InsertSendReturns \/ Poll \/ Cancel
           \/ CallClose \/ CloseReturns \/ Finish \/ AbortQueries \/ Release \/ ElsewhereClosed
           \/ AnswerQuery \/ CounterReports \/ OrderReported \/ CallExpires \/ HandshakeExpires
  <2>1. r.kind # "rows"
    BY DEF Doors
  <2>2. \A q \in front.posted : DOMAIN q = {"id", "kind", "rows", "copies", "says"}
    BY DEF Denied, AskedOnce
  <2>3. PICK q \in front.posted : q.kind = "rows" /\ \E rows : r = [q EXCEPT !.rows = rows]
    BY <1>1, <2>1, ElsewhereSteps DEF Elsewhere
  <2>4. r.kind = "rows"
    BY <2>2, <2>3
  <2>. QED
    BY <2>1, <2>4
<1>2. CASE Connect \/ SetUp \/ Prepare \/ SendReturns \/ WaitForStage \/ Retry \/ AbortHandshake
           \/ FrontDisconnected \/ FrontConnected \/ GeneralErrorUsed
  BY <1>2 DEF Connect, SetUp, Prepare, SendReturns, WaitForStage, Retry, AbortHandshake, FrontDisconnected,
              FrontConnected, GeneralErrorUsed, Inv, Shape
<1>3. CASE Send
  BY <1>3 DEF Send, At, Denied, Barred, Stuck
<1>4. CASE GeneralError
  BY <1>4 DEF GeneralError, Inv, Shape
<1>5. CASE AnswerHandshake
  <2>1. PICK q \in front.posted : \E say : front'.posted = Answered(q, say)
    BY <1>5 DEF AnswerHandshake, Inv, Shape
  <2>2. PICK say : front'.posted = Answered(q, say)
    BY <2>1
  <2>3. r = [q EXCEPT !.copies = @ + 1, !.says = say]
    BY <2>2 DEF Answered
  <2>4. DOMAIN q = {"id", "kind", "rows", "copies", "says"} /\ q.copies \in Nat
    BY DEF Denied, AskedOnce
  <2>. QED
    BY <2>3, <2>4
<1>6. CASE UNCHANGED vars
  BY <1>6 DEF vars
<1>. QED
  BY <1>1, <1>2, <1>3, <1>4, <1>5, <1>6 DEF SessionNext, CallerStep, CloserStep, LibraryStep

(***************************************************************************)
(* Once the front has refused to let the user in, no further request to    *)
(* authenticate or to log in is sent: only a timeout of the confirmation is *)
(* tried again (ctp/readonly_retry.go), and a refusal ends its stage with  *)
(* another error or none at all.                                           *)
(***************************************************************************)
THEOREM NobodyAsksAgain == SessionSpec => RefusedIsFinal
<1>1. Inv /\ Earned /\ Denied /\ [SessionNext]_vars =>
        [truth.refused => \A r \in front'.posted \ front.posted : r.kind \in {"authenticate", "login"} => r.copies > 0]_vars
  BY NobodyAsks DEF Doors
<1>. QED
  BY InitInv, NextInv, InitEarned, NextEarned, InitDenied, NextDenied, <1>1, PTL DEF SessionSpec, RefusedIsFinal

=============================================================================
