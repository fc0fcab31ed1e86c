------------------------------- MODULE Replay -------------------------------
(***************************************************************************)
(* The replay of a script of events (replay/engine.go, lifecycle.go) and   *)
(* the command that publishes its report (cmd/replay/main.go).  Every      *)
(* event is applied to a simulator restored from the last archive, and     *)
(* what it did is kept only when everything about it has succeeded; the    *)
(* first event that fails ends the run, and the report then holds the      *)
(* events before it.                                                       *)
(*                                                                         *)
(* The simulator, its day and its rules are the variables of Trading, the  *)
(* file is published by Publish.  An event is [id, kind, day, load], its   *)
(* load a record of what it carries, so a well formed one has one field.   *)
(***************************************************************************)
EXTENDS Trading, Publish

CONSTANTS
  Events,          \* the events a script is made of
  MaxFrames,       \* the most frames that fit a report
  Nothing         \* nothing to report from: the run failed before its first event

VARIABLES
  report,          \* [status, initial, frames, failedAt, final]
  stage,           \* "run", "publish" or "exited"
  exit             \* the exit code, 0 until then

running == <<report, stage, exit>>

R == INSTANCE Risk

\* The archive of the run, with the rules that bind it.
Moment == [day |-> day, rules |-> rules, sim |-> sim]

LoadOf ==
  [mark |-> "quote", trade |-> "trade", accept |-> "order", fill |-> "ref", cancel |-> "ref",
   deposit |-> "amount", withdraw |-> "amount", settle |-> "settlement", risk |-> "policy"]

\* The event carries one thing, and it is what its kind asks for.
WellLoaded(e) == e.kind \in DOMAIN LoadOf /\ DOMAIN e.load = {LoadOf[e.kind]}

\* What it carries has been read (replay/model.go Event, replay/codec.go) and is no
\* amount that is refused whatever the account is.
LoadHolds(e) ==
  /\ e.kind = "mark" => e.load.quote.last \in Nat /\ e.load.quote.pre \in Nat
  /\ e.kind = "trade" => RequestHolds(e.load.trade) /\ e.load.trade.volume > 0
  /\ e.kind = "accept" => RequestHolds(e.load.order.request) /\ e.load.order.request.volume > 0
  /\ e.kind \in {"deposit", "withdraw"} => e.load.amount \in Int
  /\ e.kind = "settle" =>
       LET x == e.load.settlement IN
       /\ x.next \in Nat \ {0}
       /\ \A name \in DOMAIN Accounts :
            /\ x.version # 0 => x.version \in DOMAIN Accounts[name].schedules
            /\ \A i \in DOMAIN Accounts[name].base.contracts : x.price[i] \in Nat \ {0}
  /\ e.kind = "risk" => e.load.policy \in [ratio : Int, equity : Int, available : Int]
ASSUME EventsAssumption == \A e \in Events : WellLoaded(e) => LoadHolds(e)

Known(inst) == inst \in Instruments

-----------------------------------------------------------------------------
(* What an event does to the working copy: a set of the moments after it,  *)
(* empty when the simulator refuses, so that no event is refused twice.    *)

With(s) == IF s.broken THEN {} ELSE {[Moment EXCEPT !.sim = s]}

WithAccount(acc) == With([sim EXCEPT !.acc = acc])

Trial(ok, s) == IF ok THEN With(s) ELSE {}

AfterFill(id) ==
  IF ~S(rules)!CanRelease(sim, id) THEN {}
  ELSE LET freed == S(rules)!Released(sim, id)
           tr    == S(rules)!TradeOf(sim.book.live[id].order)
       IN  IF S(rules)!CanTrade(freed, day, tr) THEN With(S(rules)!Traded(freed, day, tr)) ELSE {}

\* The rules of the next day; no rules given is version 0.
Prepared(x) ==
  /\ L!CanBind(Base, Schedules[x.version], x.next, x.version)
  /\ day \in TradingCalendar.days /\ C!NextDay(TradingCalendar, day) = x.next

AfterSettle(x) ==
  IF C!NextDay(TradingCalendar, day) # x.next THEN {}
  ELSE IF x.version = 0
  THEN IF ~L!Daily(rules) /\ S(rules)!CanSettle(sim, x.price) /\ S(rules)!AccountSettles(sim, x.price)
       THEN {[Moment EXCEPT !.sim = S(rules)!Settled(sim, x.price), !.day = x.next]} ELSE {}
  ELSE IF Prepared(x) /\ CanSettleWith(sim, x.price, NextRules(x.next, x.version))
  THEN {[day |-> x.next, rules |-> NextRules(x.next, x.version),
         sim |-> SettledUnder(sim, x.price, NextRules(x.next, x.version))]} ELSE {}

After(e) ==
  CASE e.kind = "mark" ->
         LET x == e.load.quote IN
         IF Known(x.inst) THEN Trial(S(rules)!CanMark(sim, x.inst, x), S(rules)!Marked(sim, x.inst, x)) ELSE {}
    [] e.kind = "trade" ->
         LET tr == e.load.trade IN
         IF Known(tr.inst) THEN Trial(S(rules)!CanTrade(sim, day, tr), S(rules)!Traded(sim, day, tr)) ELSE {}
    [] e.kind = "accept" ->
         LET x == e.load.order IN
         IF Known(x.request.inst)
         THEN Trial(S(rules)!CanPlace(sim, x.id, x.request), Placed(sim, x.id, x.request)) ELSE {}
    [] e.kind = "fill"     -> AfterFill(e.load.ref)
    [] e.kind = "cancel"   -> Trial(S(rules)!CanRelease(sim, e.load.ref), S(rules)!Released(sim, e.load.ref))
    [] e.kind = "deposit"  -> IF A!CanDeposit(e.load.amount)
                              THEN WithAccount(A!Deposited(sim.acc, e.load.amount)) ELSE {}
    [] e.kind = "withdraw" -> IF A!CanWithdraw(sim.acc, e.load.amount)
                              THEN WithAccount(A!Withdrawn(sim.acc, e.load.amount)) ELSE {}
    [] e.kind = "settle"   -> AfterSettle(e.load.settlement)
    [] e.kind = "risk"     -> IF R!CanAssess(sim.acc, e.load.policy) THEN {Moment} ELSE {}

-----------------------------------------------------------------------------
(* The report (replay/model.go). *)

Health(m) ==
  IF L!Daily(m.rules)
  THEN [blocking |-> L!Blocking(m.rules, S(m.rules)!Held(m.sim.positions)),
        closing |-> L!ExitByClose(m.rules, S(m.rules)!Held(m.sim.positions))]
  ELSE Nothing

Switches(e) == e.kind = "settle" /\ e.load.settlement.version # 0

Statement(before, after) ==
  [day |-> before.day, next |-> after.day, preBalance |-> before.sim.acc.preBalance,
   deposit |-> before.sim.acc.deposit, withdraw |-> before.sim.acc.withdraw,
   closeProfit |-> before.sim.acc.closeProfit, commission |-> before.sim.acc.settleCommission,
   balance |-> after.sim.acc.preBalance, margin |-> after.sim.acc.currMargin,
   positionProfit |-> after.sim.acc.preBalance - A!StaticBalance(before.sim.acc)
                        - before.sim.acc.closeProfit + before.sim.acc.settleCommission]

FrameOf(e, before, after) ==
  [event |-> e, day |-> after.day, sim |-> after.sim, version |-> after.rules.version,
   rules |-> IF Switches(e) THEN after.rules ELSE Nothing,
   statement |-> IF e.kind = "settle" THEN Statement(before, after) ELSE Nothing,
   health |-> Health(after),
   risk |-> IF e.kind = "risk" THEN R!Assess(after.sim.acc, e.load.policy) ELSE Nothing]

Pending == -1

\* What is reported of a run that never began.
Unconfigured ==
  [status |-> "failed", initial |-> Nothing, frames |-> <<>>, failedAt |-> Nothing, final |-> Nothing]

EventIds(frames) == {frames[k].event.id : k \in DOMAIN frames}

\* Faulty variant: events are not told apart by their names.
AcceptedAgain(e, after) ==
  /\ S(rules)!Restorable(sim, day)
  /\ WellLoaded(e) /\ e.day = day
  /\ after \in After(e)

\* Everything about the event succeeds, with the next moment.
Accepted(e, after) ==
  /\ e.id # NoID /\ e.id \notin EventIds(report.frames)
  /\ S(rules)!Restorable(sim, day)
  /\ WellLoaded(e) /\ e.day = day
  /\ after \in After(e)
  /\ L!Daily(after.rules) => L!Assessable(after.rules, S(after.rules)!Held(after.sim.positions))

\* With the frame the report stays within its limit.
Fits == Len(report.frames) < MaxFrames

Kept(e, after) ==
  [report EXCEPT !.frames = Append(@, FrameOf(e, Moment, after)), !.final = after]

Ended == [report EXCEPT !.failedAt = Len(report.frames)]

-----------------------------------------------------------------------------
(* Reading a report back (replay/report.go, replay/lifecycle.go). *)

At(r, k) ==
  IF k = 0
  THEN [day |-> r.initial.day, sim |-> r.initial.sim, version |-> r.initial.rules.version]
  ELSE [day |-> r.frames[k].day, sim |-> r.frames[k].sim, version |-> r.frames[k].version]

\* The daily rules in force after frame k, as far as the report tells.
Active(r, k) ==
  LET switches == {j \in 1 .. k : Switches(r.frames[j].event)} IN
  IF switches = {} THEN (IF L!Daily(r.initial.rules) THEN r.initial.rules ELSE Nothing)
                   ELSE r.frames[Max(switches)].rules

StatementFits(x, before, frame) ==
  /\ x.day = before.day /\ x.next = frame.day
  /\ x.preBalance = before.sim.acc.preBalance
  /\ x.deposit = before.sim.acc.deposit /\ x.withdraw = before.sim.acc.withdraw
  /\ x.closeProfit = before.sim.acc.closeProfit
  /\ x.commission = before.sim.acc.settleCommission
  /\ x.balance = frame.sim.acc.preBalance /\ x.margin = frame.sim.acc.currMargin
  /\ x.preBalance + x.deposit - x.withdraw + x.closeProfit + x.positionProfit - x.commission = x.balance

FrameFits(r, k) ==
  LET frame == r.frames[k]  before == At(r, k - 1) IN
  /\ frame.event.day = before.day
  /\ frame.sim.book.last >= before.sim.book.last
  /\ frame.event.id # NoID /\ frame.event.id \notin EventIds(SubSeq(r.frames, 1, k - 1))
  /\ A!RestorableAccount(frame.sim.acc)
  /\ IF frame.event.kind = "settle" THEN StatementFits(frame.statement, before, frame)
                                    ELSE frame.statement = Nothing

\* Rules change only with a settlement, to another version for the next day.
RulesFit(r, k) ==
  LET frame == r.frames[k]  active == Active(r, k)  before == At(r, k - 1) IN
  /\ IF Switches(frame.event)
     THEN /\ active.day = frame.event.load.settlement.next /\ active.version # before.version
          /\ C!NextDay(TradingCalendar, frame.event.day) = active.day
          /\ Active(r, k - 1) # Nothing => active.investor = Active(r, k - 1).investor
     ELSE /\ frame.rules = Nothing /\ frame.version = before.version
          /\ frame.event.kind = "settle" => active = Nothing
  /\ frame.event.kind # "settle" => frame.day = before.day
  /\ IF active = Nothing THEN frame.health = Nothing
     ELSE /\ active.day = frame.day /\ active.version = frame.version
          /\ S(active)!Restorable(frame.sim, frame.day)
          /\ frame.health = Health([day |-> frame.day, rules |-> active, sim |-> frame.sim])
  /\ IF frame.event.kind = "risk"
     THEN /\ R!CanAssess(frame.sim.acc, frame.event.load.policy)
          /\ frame.risk = R!Assess(frame.sim.acc, frame.event.load.policy)
          /\ frame.sim = before.sim
     ELSE frame.risk = Nothing

ReportValid(r) ==
  IF r.initial = Nothing THEN r = [Unconfigured EXCEPT !.failedAt = r.failedAt] /\ r.failedAt = Nothing
  ELSE /\ r.status = "passed" <=> r.failedAt = Nothing
       /\ r.failedAt # Nothing => r.failedAt = Len(r.frames)
       /\ A!RestorableAccount(r.initial.sim.acc)
       /\ L!Daily(r.initial.rules) => S(r.initial.rules)!Restorable(r.initial.sim, r.initial.day)
       /\ \A k \in DOMAIN r.frames : FrameFits(r, k) /\ RulesFit(r, k)
       /\ r.final.sim = At(r, Len(r.frames)).sim /\ r.final.day = At(r, Len(r.frames)).day

-----------------------------------------------------------------------------
(* The first difference of two reports (replay/diff.go Compare). *)

\* Faulty variant: what an event was is not compared, only what it did.
FramesAgreeByResult(f, g) == f.sim = g.sim /\ f.statement = g.statement

FramesAgree(f, g) ==
  /\ f.sim = g.sim /\ f.day = g.day /\ f.version = g.version
  /\ f.statement = g.statement /\ f.event = g.event
  /\ f.rules = g.rules /\ f.health = g.health /\ f.risk = g.risk

Equal      == [equal |-> TRUE, step |-> -1]
Differ(k)  == [equal |-> FALSE, step |-> k]

\* Steps are counted from 0; a difference before the first step is at -1.
Compare(a, b) ==
  LET common == Min({Len(a.frames), Len(b.frames)})
      differing == {k \in 1 .. common : ~FramesAgree(a.frames[k], b.frames[k])}
  IN  CASE a.initial # b.initial        -> Differ(-1)
        [] a.initial = b.initial /\ differing # {} -> Differ(Min(differing) - 1)
        [] OTHER -> IF Len(a.frames) # Len(b.frames) \/ a.status # b.status THEN Differ(common) ELSE Equal

-----------------------------------------------------------------------------
ReplayInit ==
  /\ account \in DOMAIN Accounts
  /\ day = 1
  /\ rules \in {NextRules(1, 1), L!PlainRules(Base)}
  /\ sim \in {s \in Accounts[account].starts : S(rules)!Restorable(s, 1)}
  /\ report = [status |-> "failed", initial |-> Moment, frames |-> <<>>, failedAt |-> Nothing,
               final |-> Moment]
  /\ stage = "run" /\ exit = Pending
  /\ PublishInit

\* The configuration or the archive to begin with is refused.
Refuse ==
  /\ stage = "run" /\ report.frames = <<>>
  /\ report' = Unconfigured /\ stage' = "publish"
  /\ UNCHANGED <<vars, exit, publishing>>

Keep(e) ==
  /\ stage = "run" /\ Fits
  /\ \E after \in After(e) :
       /\ Accepted(e, after)
       /\ report' = Kept(e, after)
       /\ day' = after.day /\ rules' = after.rules /\ sim' = after.sim
  /\ UNCHANGED <<account, stage, exit, publishing>>

FailAt(e) ==
  /\ stage = "run"
  /\ Fits => ~ \E after \in After(e) : Accepted(e, after)
  /\ report' = Ended /\ stage' = "publish"
  /\ UNCHANGED <<vars, exit, publishing>>

\* There are no more events.
Pass ==
  /\ stage = "run"
  /\ report' = [report EXCEPT !.status = "passed"] /\ stage' = "publish"
  /\ UNCHANGED <<vars, exit, publishing>>

\* Faulty variant: a run that failed is not told apart from one that passed.
ExitCodeOfFile == IF err = "none" THEN 0 ELSE 1

\* A report that failed is published too, and the command still fails.
ExitCode == IF err = "none" /\ report.status = "passed" THEN 0 ELSE 1

Exit ==
  /\ stage = "publish" /\ step = "done"
  /\ stage' = "exited" /\ exit' = ExitCode
  /\ UNCHANGED <<vars, report, publishing>>

PublishReport == stage = "publish" /\ PublishCall /\ UNCHANGED <<vars, running>>

\* Until the report is published there is nothing on disk to disturb.
Environment ==
  /\ stage # "run"
  /\ OtherCreates \/ Killed \/ PowerLoss
  /\ UNCHANGED <<vars, running>>

ReplayNext ==
  \/ Refuse \/ Pass \/ Exit \/ PublishReport \/ Environment
  \/ \E e \in Events : Keep(e) \/ FailAt(e)

ReplaySpec == ReplayInit /\ [][ReplayNext]_<<vars, running, publishing>>

-----------------------------------------------------------------------------
(***************************************************************************)
(* A report that is about to be published is one that ReadReport accepts,  *)
(* unless its last account is one that Restore itself refuses              *)
(* (replay/engine.go Run, replay/report.go validateReport).                *)
(***************************************************************************)
ReportsReadBack ==
  stage = "publish" /\ step = "create" /\ (report.initial = Nothing \/ S(rules)!Restorable(sim, day)) => ReportValid(report)

(***************************************************************************)
(* The command ends with 0 only when a whole report of a run that passed   *)
(* is under the name and the temporary name is gone (cmd/replay/main.go).  *)
(***************************************************************************)
ZeroMeansPublished ==
  [][exit' = 0 /\ exit # 0 =>
       target = "ours" /\ content = "whole" /\ ~temp /\ report.status = "passed"]_exit

(***************************************************************************)
(* Two runs of scripts that part at one event compare equal only when they *)
(* did not part at all, and else the difference is at that event           *)
(* (replay/diff.go Compare).                                               *)
(***************************************************************************)
DifferenceIsTheFirst ==
  stage = "run" /\ Fits =>
    LET longer == UNION {{Kept(e, after) : after \in {x \in After(e) : Accepted(e, x)}} : e \in Events} IN
    \A a, b \in longer : Compare(a, b) = IF a = b THEN Equal ELSE Differ(Len(report.frames))

(***************************************************************************)
(* The deposit a risk report asks for brings the account back within all   *)
(* three thresholds, and a cent less does not (risk/policy.go Assess).     *)
(***************************************************************************)
DepositIsLeast ==
  \A k \in DOMAIN report.frames : report.frames[k].risk # Nothing =>
    LET x == report.frames[k].risk
        short(amount) == R!Beyond(A!Deposited(x.account, amount), x.policy)
    IN  /\ short(x.deposit) = {}
        /\ x.deposit >= Cent => short(x.deposit - Cent) # {}
=============================================================================
