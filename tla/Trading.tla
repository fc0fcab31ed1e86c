------------------------------ MODULE Trading ------------------------------
(***************************************************************************)
(* A client at work on the simulator: requests are validated against the   *)
(* facts of the day (submit.go) and filled at once (Submit) or placed and  *)
(* filled later (Place, Fill), bars of prices move it through the day      *)
(* (advance.go), and the evening changes to the next day's rules in one    *)
(* call (lifecycle.go SettleWithRules).                                    *)
(*                                                                         *)
(* The facade's operations are those of SimulatorOps, under the contracts  *)
(* of the day: S(rules).                                                   *)
(***************************************************************************)
EXTENDS Validation, Sequences, FiniteSetsExt

CONSTANTS
  \* choices of the accounts, see SimulatorOps
  Cent, FeeRounding, FeeBasis, MarginBasis, SideScope,
  MarkBasis, Algorithm, FreezeBasis, UndatedClose, MaxSequence, NoID,
  Accounts,      \* name -> [base, schedules, starts]: base, the [version, contracts] daily
                 \* rules derive from; schedules, version -> what is declared; starts,
                 \* where the account may begin
  TradingCalendar, DayLength, Undeclared,        \* see Calendar
  TickRounding, PositionLimit,     \* facts of an instrument, or Missing
  ID, Requests, Times, Bars, Prices, Trades,     \* inputs
  MaxLots, MaxTrades               \* bounds

L == INSTANCE Lifecycle
C == INSTANCE Calendar

ASSUME CalendarHolds == C!CalendarValid(TradingCalendar)
ASSUME CentAssumption == Cent \in Nat \ {0}
\* Days and instants are whole numbers.
ASSUME DaysAssumption ==
  /\ DayLength \in Nat \ {0}
  /\ TradingCalendar.days \in SUBSET Nat /\ IsFiniteSet(TradingCalendar.days)
  /\ \A bar \in Bars : bar.start \in Nat /\ bar.end \in Nat
ASSUME TermsAssumption ==
  \A name \in DOMAIN Accounts : \A version \in DOMAIN Accounts[name].schedules :
    LET contracts == Accounts[name].schedules[version].contracts IN
    \A i \in DOMAIN contracts : contracts[i].lastHolding \in Nat

VARIABLES
  account,  \* which of the accounts
  day,      \* its trading day
  rules,    \* the daily rules in force
  sim       \* the simulator

vars == <<account, day, rules, sim>>

\* The facade under the contracts of given rules.
S(r) == INSTANCE SimulatorOps WITH Instruments <- DOMAIN r.contracts, Contract <- r.contracts

B == INSTANCE BookOps
A == INSTANCE AccountOps WITH Tolerance <- Cent

RateType == [byMoney : Nat, byVolume : Nat]
RequestHolds(request) ==
  request \in [inst : {request.inst}, dir : {"Buy", "Sell"},
               offset : {"Open", "Close", "CloseToday", "CloseYesterday"}, price : Nat \ {0}, volume : Int]

\* What the rules and the archives read from files are (refdata/refdata.go, state.go).
ContractHolds(contract) ==
  /\ contract.dateType \in {"UseHistory", "NoUseHistory"}
  /\ contract.measured \in BOOLEAN /\ contract.maxMarginSide \in BOOLEAN
  /\ contract.fee \in [{"Open", "Close", "CloseToday"} -> RateType]
MarginHolds(terms) ==
  /\ {"margin", "addOn"} \subseteq DOMAIN terms
  /\ terms.margin \in [{"Buy", "Sell"} -> RateType] /\ terms.addOn \in Nat
StepType == [from : Nat, margin : [{"Buy", "Sell"} -> RateType], addOn : Nat]

ASSUME ChoicesAssumption ==
  /\ FeeRounding \in {"NoRounding", "TruncateToCent", "HalfUpToCent"}
  /\ FeeBasis \in {"TradePrice", "PreSettlement"}
  /\ MarginBasis \in {"OpenTodayPreSettleHistory", "PreSettleAll", "LastAll"}
  /\ SideScope \in {"ByProduct", "ByInstrument", "NoNetting"}
  /\ MarkBasis \in {"Last", "PreSettlement"} /\ Algorithm \in {"All", "OnlyLost"}
  /\ FreezeBasis \in {"AtOrderPrice", "AtPreSettlement"}
  /\ UndatedClose \in {"Unmeasured", "AsYesterday"} /\ MaxSequence \in Nat
ASSUME AccountsAssumption ==
  \A name \in DOMAIN Accounts :
    LET base == Accounts[name].base IN
    /\ IsFiniteSet(DOMAIN base.contracts)
    /\ \A i \in DOMAIN base.contracts : ContractHolds(base.contracts[i]) /\ MarginHolds(base.contracts[i])
    /\ 1 \in DOMAIN Accounts[name].schedules
    /\ \A version \in DOMAIN Accounts[name].schedules :
         LET contracts == Accounts[name].schedules[version].contracts IN
         \A i \in DOMAIN contracts : contracts[i].steps \in Seq(StepType)
    /\ L!CanBind(base, Accounts[name].schedules[1], 1, 1)    \* what a run begins with
    /\ \A s \in Accounts[name].starts : S(base)!Readable(s) /\ ~s.broken    \* State gives out no broken one
ASSUME InputsAssumption ==
  /\ \A request \in Requests \cup Trades : RequestHolds(request)
  /\ \A tr \in Trades : tr.volume > 0
  /\ \A bar \in Bars : bar.close \in Nat
  /\ Prices \subseteq Nat \ {0}

(***************************************************************************)
(* Facts of the inputs that no operation asks for, and that theorems name  *)
(* as hypotheses.  The books an account starts with hold orders whose      *)
(* offsets mean something, as FreezeOf leaves them (submit.go), and that   *)
(* pass what validate checks of an order under the first day's rules; the  *)
(* contracts of one merge group are under one margin rule, as margin.go    *)
(* demands of those that are held.                                         *)
(***************************************************************************)
StartsMean ==
  \A name \in DOMAIN Accounts : \A s \in Accounts[name].starts : S(Accounts[name].base)!OrdersMean(s)

GroupsAgree(r) ==
  \A i, j \in DOMAIN r.contracts :
    S(r)!KeyOf(i) = S(r)!KeyOf(j) => r.contracts[i].maxMarginSide = r.contracts[j].maxMarginSide

BasesAgree == \A name \in DOMAIN Accounts : GroupsAgree(Accounts[name].base)

\* An order passes the checks whose facts stay the same within a day (order/order.go Validate).
OrderFits(rule, rounding, pre, order) ==
  /\ rule.isTrading
  /\ rule.tick > 0 => order.price % rule.tick = 0
  /\ LimitsKnown(rule, pre, rounding) => WithinLimits(order.price, rule, pre, rounding)
  /\ rule.maxVolume > 0 =>
       order.volume <= rule.maxVolume /\ (rule.minVolume > 0 => order.volume >= rule.minVolume)

Resting(r, s) ==
  \A id \in B!IDs(s.book) :
    LET order == s.book.live[id].order
        pre   == s.prices[order.inst].pre
    IN  pre # 0 /\ OrderFits(r.contracts[order.inst], TickRounding[order.inst], pre, order)

StartsRest ==
  \A name \in DOMAIN Accounts : \A s \in Accounts[name].starts :
    Resting(L!DailyRules(Accounts[name].base, Accounts[name].schedules[1], 1, 1), s)

Usable == ~sim.broken

Instruments == DOMAIN rules.contracts

-----------------------------------------------------------------------------
(* What the facade knows of a request (submit.go validate). *)

LotsOf(lots) ==
  [today |-> S(rules)!VolumeToday(lots), history |-> S(rules)!VolumeHistory(lots)]

\* An undated close is rewritten for the checks and the freezing, not for the book.
Effective(s, req) == S(rules)!DatedTrade(S(rules)!Rewritten(req))

SpanAt(inst, at) == C!SessionAt(TradingCalendar, rules.contracts[inst].product, at)

\* The time belongs to another trading day: an error, not a refusal.
TimeContradicts(span) == span.kind = "In" /\ span.day # day

InSession(span) ==
  CASE span.kind = "In"      -> TRUE
    [] span.kind = "Outside" -> FALSE
    [] OTHER                 -> Missing

\* Lots of the side to close that live orders have frozen.
FrozenClose(s, req) ==
  IF req.offset = "Open" THEN [today |-> 0, history |-> 0]
  ELSE S(rules)!FrozenOf(s.book, req.inst, Against(req.dir))

Facts(s, at, req, need) ==
  LET inst == req.inst IN
  [rule      |-> rules.contracts[inst],
   pre       |-> IF s.prices[inst].pre = 0 THEN Missing ELSE s.prices[inst].pre,
   rounding  |-> TickRounding[inst],
   position  |-> [dateType |-> rules.contracts[inst].dateType,
                  Buy |-> LotsOf(s.positions[inst]["Buy"]),
                  Sell |-> LotsOf(s.positions[inst]["Sell"])],
   frozen    |-> FrozenClose(s, req),
   available |-> A!Available(s.acc),
   need      |-> need,
   limit     |-> PositionLimit[inst],
   session   |-> InSession(SpanAt(inst, at))]

Need(order) == order.margin + order.commission

(***************************************************************************)
(* The request passes: it can be frozen, all eight checks are made and     *)
(* pass, and the daily rules still allow an opening.  An instrument the    *)
(* rules do not have cannot be checked.                                    *)
(***************************************************************************)
Valid(s, at, request) ==
  /\ request.inst \in Instruments
  /\ ~TimeContradicts(SpanAt(request.inst, at))
  /\ LET req == Effective(s, request) IN
     /\ S(rules)!CanFreezeOrder(s, req)
     /\ OK(req, Facts(s, at, req, Need(S(rules)!FrozenOrder(s, req))))
     /\ req.offset = "Open" => L!CheckOpening(rules, req.inst)

\* Faulty variant: the trade is reported with the offset the client wrote.
SubmittedAsWritten(request) == request

\* The trade a submitted request becomes; only the counter's own rewriting shows in it.
Submitted(request) == S(rules)!Rewritten(request)

Placed(s, id, request) == S(rules)!Placed(s, id, request)

-----------------------------------------------------------------------------
(* Bars (advance.go). *)

BarInside(bar, rule, pre, rounding) ==
  /\ bar.high * 100 <= UpperLimit(rule, pre, rounding)
  /\ bar.low * 100 >= LowerLimit(rule, pre, rounding)

\* Faulty variant: the two ends may lie in the same session of two days.
InOneSessionOfAnyDay(bar) ==
  LET from == SpanAt(bar.inst, bar.start)
      to   == SpanAt(bar.inst, bar.end - 1)
  IN  from.kind = "In" /\ to.kind = "In" /\ from.session = to.session /\ from.day = day

\* A bar that ends with a session has its last instant in it.
InOneSession(bar) ==
  LET from == SpanAt(bar.inst, bar.start)
      to   == SpanAt(bar.inst, bar.end - 1)
  IN  /\ from.kind = "In" /\ to.kind = "In"
      /\ from.session = to.session /\ from.anchor = to.anchor
      /\ from.day = day

\* Limits that cannot be derived are reported and not checked.
BarWithinLimits(s, bar) ==
  LET rule == rules.contracts[bar.inst]  pre == s.prices[bar.inst].pre IN
  pre > 0 /\ LimitsKnown(rule, pre, TickRounding[bar.inst]) =>
    BarInside(bar, rule, pre, TickRounding[bar.inst])

BarAccepted(s, bar) ==
  /\ bar.inst \in Instruments
  /\ bar.start < bar.end
  /\ bar.low > 0 /\ bar.low <= bar.close /\ bar.close <= bar.high
  /\ InOneSession(bar)
  /\ BarWithinLimits(s, bar)

Closing(bar) == [last |-> bar.close, pre |-> 0]

-----------------------------------------------------------------------------
(* The evening with the next day's rules (lifecycle.go). *)

HeldNow(s) == S(rules)!Held(s.positions)

SameContracts(s, next) ==
  \A i \in HeldNow(s) : L!SameContract(rules.contracts[i], next.contracts[i])

\* Faulty variant: the morning keeps the margin of the old day's rules.
SettledAsBefore(s, price, next) == S(rules)!Settled(s, price)

\* The day is settled under its own rules, the morning is valued under the next.
SettledUnder(s, price, next) ==
  LET evening == S(rules)!Settled(s, price) IN
  [evening EXCEPT !.acc = S(next)!Revalued(@, evening.positions, evening.prices)]

\* The evening can be archived, and the morning archived and restored.  What the
\* account asks of the margin under the next rules is among what Restore asks.
RestorableBoth(s, price, next) ==
  /\ S(rules)!Restorable(s, day)
  /\ S(next)!Restorable(SettledUnder(s, price, next), next.day)

\* The rules may change, and the working copy is settled and valued.
MayChange(s, price, next) ==
  /\ next.day > day
  /\ next.version # rules.version
  /\ L!Daily(rules) => next.investor = rules.investor
  /\ L!Assessable(next, HeldNow(s)) /\ L!Blocking(next, HeldNow(s)) = {}
  /\ SameContracts(s, next)
  /\ S(rules)!CanSettle(s, price) /\ S(rules)!AccountSettles(s, price)
  /\ S(next)!Valued(S(rules)!Rolled(s, price), S(rules)!NextPrices(s, price))

CanSettleWith(s, price, next) == MayChange(s, price, next) /\ RestorableBoth(s, price, next)

Base == Accounts[account].base

Schedules == Accounts[account].schedules

NextRules(next, version) == L!DailyRules(Base, Schedules[version], next, version)

-----------------------------------------------------------------------------
Init ==
  /\ account \in DOMAIN Accounts
  /\ day = 1
  /\ rules = NextRules(1, 1)
  /\ sim \in {s \in Accounts[account].starts : S(rules)!Restorable(s, 1)}

Within(s) ==
  /\ \A i \in Instruments, dir \in {"Buy", "Sell"} : S(rules)!Volume(s.positions[i][dir]) <= MaxLots
  /\ s.acc.commissionTrades <= MaxTrades

Becomes(s) ==
  /\ Usable
  /\ Within(s)
  /\ sim' = s
  /\ UNCHANGED <<account, day, rules>>

Submit(at, request) ==
  /\ Valid(sim, at, request)
  /\ S(rules)!CanTrade(sim, day, Submitted(request))
  /\ Becomes(S(rules)!Traded(sim, day, Submitted(request)))

\* Place does not look at the lots again: validation has.
Place(at, id, request) ==
  /\ id \notin B!IDs(sim.book)
  /\ Valid(sim, at, request)
  /\ LET order == S(rules)!FrozenOrder(sim, S(rules)!Rewritten(request)) IN
     A!CanFreeze(sim.acc, order.margin, order.commission)
  /\ B!CanInsert(sim.book, id)
  /\ Becomes(Placed(sim, id, request))

Cancel(id) == S(rules)!CanRelease(sim, id) /\ Becomes(S(rules)!Released(sim, id))

Fill(id) ==
  /\ S(rules)!CanRelease(sim, id)
  /\ LET freed == S(rules)!Released(sim, id)
         tr    == S(rules)!TradeOf(sim.book.live[id].order)
     IN  IF S(rules)!CanTrade(freed, day, tr)
         THEN Becomes(S(rules)!Traded(freed, day, tr))
         ELSE Becomes(S(rules)!PutBack(freed, id, sim.book.live[id]))

\* A trade reported by a counter, unchecked.
ApplyTrade(tr) ==
  tr.inst \in Instruments /\ S(rules)!CanTrade(sim, day, tr) /\ Becomes(S(rules)!Traded(sim, day, tr))

\* The previous settlement price of the day.
MarkPre(inst, pre) ==
  LET quote == [last |-> 0, pre |-> pre] IN
  S(rules)!CanMark(sim, inst, quote) /\ Becomes(S(rules)!Marked(sim, inst, quote))

Advance(bar) ==
  /\ BarAccepted(sim, bar)
  /\ S(rules)!CanMark(sim, bar.inst, Closing(bar))
  /\ Becomes(S(rules)!Marked(sim, bar.inst, Closing(bar)))

SettleWithRules(price, next, version) ==
  /\ Usable
  /\ L!CanBind(Base, Schedules[version], next, version)
  /\ CanSettleWith(sim, price, NextRules(next, version))
  /\ day' = next
  /\ rules' = NextRules(next, version)
  /\ sim' = SettledUnder(sim, price, NextRules(next, version))
  /\ UNCHANGED account

Next ==
  \/ \E request \in Requests, at \in Times : Submit(at, request)
  \/ \E id \in ID : \/ \E request \in Requests, at \in Times : Place(at, id, request)
                    \/ Cancel(id)
                    \/ Fill(id)
  \/ \E tr \in Trades : ApplyTrade(tr)
  \/ \E inst \in Instruments, pre \in Prices : MarkPre(inst, pre)
  \/ \E bar \in Bars : Advance(bar)
  \/ \E price \in [Instruments -> Prices], next \in TradingCalendar.days, version \in DOMAIN Schedules :
       SettleWithRules(price, next, version)

Spec == Init /\ [][Next]_vars

-----------------------------------------------------------------------------
Priced(s) == \A i \in Instruments : s.prices[i].last > 0 /\ s.prices[i].pre > 0

(***************************************************************************)
(* A request that is let through becomes a trade: once both prices are     *)
(* known, nothing that ApplyTrade looks at (lots, fee, quota, valuation)   *)
(* refuses what the checks and the freezing accepted (submit.go Submit).   *)
(***************************************************************************)
ValidOrdersTrade ==
  Usable /\ Priced(sim) =>
    \A request \in Requests, at \in Times :
      Valid(sim, at, request) => S(rules)!CanTrade(sim, day, Submitted(request))

(***************************************************************************)
(* Submitting a request, and placing it and filling it at once, leave the  *)
(* same simulator but for the sequence number that was used (submit.go     *)
(* Submit, place.go Place and Fill).                                       *)
(***************************************************************************)
SubmitIsPlaceThenFill ==
  Usable => \A request \in Requests, at \in Times, id \in ID \ B!IDs(sim.book) :
    /\ Valid(sim, at, request)
    /\ S(rules)!CanTrade(sim, day, Submitted(request))
    /\ B!CanInsert(sim.book, id)
    => LET placed == Placed(sim, id, request)
           freed  == S(rules)!Released(placed, id)
           filled == S(rules)!Traded(freed, day, S(rules)!TradeOf(placed.book.live[id].order))
       IN  [filled EXCEPT !.book = sim.book] = S(rules)!Traded(sim, day, Submitted(request))

(***************************************************************************)
(* An order that was valid when it was placed stays so through the day,    *)
(* whatever is traded, placed and quoted meanwhile, in everything but the  *)
(* session, the money and the position limit (order/order.go, place.go).   *)
(***************************************************************************)
RestingOrdersStayValid ==
  Usable => \A id \in B!IDs(sim.book) :
    LET freed == S(rules)!Released(sim, id)
        req   == S(rules)!DatedTrade(S(rules)!TradeOf(sim.book.live[id].order))
    IN  Rejecting(req, Facts(freed, CHOOSE at \in Times : TRUE, req, 0))
          \subseteq {"Session", "Funds", "PositionLimit"}

(***************************************************************************)
(* What a caller does not know never lets an order through: with any fact  *)
(* withheld, an order is accepted only if it is with all of them, and a    *)
(* refusal is by the same or a later check (order/order.go Validate).      *)
(***************************************************************************)
Names == {"rule", "pre", "rounding", "position", "available", "limit", "session"}

WithholdingNeverHelps ==
  Usable => \A request \in Requests, at \in Times : request.inst \in Instruments =>
    LET req   == Effective(sim, request)
        facts == Facts(sim, at, req, request.price)
    IN  \A name \in Names :
          LET fewer == [facts EXCEPT ![name] = Missing] IN
          /\ OK(req, fewer) => Rejected(req, facts) = "None"
          /\ Rejected(req, fewer) # "None" =>
               Rejected(req, facts) # "None" /\ Rank[Rejected(req, facts)] <= Rank[Rejected(req, fewer)]

(***************************************************************************)
(* A bar is compared with the calendar at its two ends only; every instant *)
(* between them is in a session of the day as well, so no quote of another *)
(* day, a break or the night after can move the account (advance.go        *)
(* barInOneSession, refdata/calendar.go).                                  *)
(***************************************************************************)
BarsInSession ==
  Usable => \A bar \in Bars : BarAccepted(sim, bar) =>
    \A t \in bar.start .. bar.end - 1 :
      SpanAt(bar.inst, t).kind = "In" /\ SpanAt(bar.inst, t).day = day

(***************************************************************************)
(* The first opening of the day the account is in, when the calendar gives *)
(* one, is the first instant that belongs to the day, the night before     *)
(* included (refdata/calendar_first_open.go).                              *)
(***************************************************************************)
DayBeginsAtFirstOpen ==
  \A i \in Instruments :
    LET open == C!FirstOpen(TradingCalendar, rules.contracts[i].product, day) IN
    open.kind = "Open" =>
      \A t \in 0 .. DayLength * (day + 1) - 1 :
        SpanAt(i, t).kind = "In" /\ SpanAt(i, t).day = day => t >= open.at

(***************************************************************************)
(* A trade that closes frees margin: it never raises what the held lots    *)
(* occupy, larger-side groups included (margin/margin.go Compute).         *)
(***************************************************************************)
ClosingFreesMargin ==
  [][/\ day' = day /\ sim'.positions # sim.positions
     /\ \A i \in Instruments, dir \in {"Buy", "Sell"} :
          S(rules)!Volume(sim'.positions[i][dir]) <= S(rules)!Volume(sim.positions[i][dir])
     => sim'.acc.currMargin <= sim.acc.currMargin]_vars

(***************************************************************************)
(* Nothing is carried into a day on which it may no longer be held: the    *)
(* day does not begin before it is closed (lifecycle/rules.go Assess).     *)
(***************************************************************************)
NothingHeldTooLong ==
  [][day' # day => \A i \in S(rules')!Held(sim'.positions) : day' <= rules'.terms[i].lastHolding]_vars

(***************************************************************************)
(* The change of the day restores two archives, and refuses when one of    *)
(* them is not taken back; the client would then never leave the day.  It  *)
(* does so only where the settlement overdraws the account, or where more  *)
(* lots were charged as closed today than were opened: every other evening *)
(* that may change the rules is taken back, and so is its morning,         *)
(* whatever was traded and whatever the next rules ask as margin           *)
(* (lifecycle.go SettleWithRules, state.go Restore).                       *)
(***************************************************************************)
Overcharged(s) ==
  \E i \in Instruments, dir \in {"Buy", "Sell"} : s.quotas[i][dir].charged > s.quotas[i][dir].opened

OnlyMoneyStopsTheEvening ==
  Usable /\ ~Overcharged(sim) =>
    \A price \in [Instruments -> Prices], next \in TradingCalendar.days, version \in DOMAIN Schedules :
      LET new == NextRules(next, version) IN
      /\ L!CanBind(Base, Schedules[version], next, version)
      /\ MayChange(sim, price, new)
      /\ SettledUnder(sim, price, new).acc.preBalance >= 0
      => RestorableBoth(sim, price, new)
=============================================================================
