---------------------------- MODULE SimulatorOps ----------------------------
(***************************************************************************)
(* The simulator as a value: one account, its positions, prices, live      *)
(* orders and quotas (simulator.go), and what the facade's operations do   *)
(* to it (trade.go, quota.go, submit.go FreezeOf, place.go, settle.go,     *)
(* state.go).  Only the speculation hedge flag is modelled, so a position  *)
(* is an instrument's, and a position that was never opened is a flat one. *)
(*                                                                         *)
(* A trade or an order request is [inst, dir, offset, price, volume].      *)
(***************************************************************************)
EXTENDS Fee, Margin, Lots

CONSTANTS
  Instruments,
  Contract,         \* instrument -> its rules
  MarkBasis,        \* intraday price of held lots
  Algorithm,        \* profit algorithm of the account
  FreezeBasis,      \* price the margin of an opening order is frozen at
  UndatedClose,     \* what an undated close means on a UseHistory instrument
  MaxSequence, NoID

ASSUME ContractTyped ==
  LET Rate == [byMoney : Nat, byVolume : Nat] IN
  \A i \in Instruments :
    /\ Contract[i].dateType \in {"UseHistory", "NoUseHistory"}
    /\ Contract[i].measured \in BOOLEAN    \* on DCE or CZCE
    /\ Contract[i].maxMarginSide \in BOOLEAN
    /\ Contract[i].fee \in [{"Open", "Close", "CloseToday"} -> Rate]
    /\ Contract[i].margin \in [{"Buy", "Sell"} -> Rate]
    /\ Contract[i].addOn \in Nat
ASSUME SimulatorChoices ==
  /\ MarkBasis \in {"Last", "PreSettlement"}
  /\ Algorithm \in {"All", "OnlyLost"}
  /\ FreezeBasis \in {"AtOrderPrice", "AtPreSettlement"}
  /\ UndatedClose \in {"Unmeasured", "AsYesterday"}
ASSUME InstrumentsFinite == IsFiniteSet(Instruments)

A == INSTANCE AccountOps WITH Tolerance <- Cent
B == INSTANCE BookOps

Directions == {"Buy", "Sell"}
Opposite(dir) == IF dir = "Buy" THEN "Sell" ELSE "Buy"
Sides == Instruments \X Directions

FlatSides  == [dir \in Directions |-> <<>>]
NoPrices   == [last |-> 0, pre |-> 0]          \* 0 is a price that is missing

NewSimulator(preBalance) ==
  [broken    |-> FALSE,
   acc       |-> A!NewAccount(preBalance, Algorithm),
   positions |-> [i \in Instruments |-> FlatSides],
   prices    |-> [i \in Instruments |-> NoPrices],
   book      |-> B!EmptyBook,
   quotas    |-> [i \in Instruments |-> [dir \in Directions |-> NoQuota]]]

-----------------------------------------------------------------------------
(***************************************************************************)
(* Valuation: margin and floating profit of all positions at given prices. *)
(* A held instrument without both prices, or one merge group under two     *)
(* margin rules, is refused.                                               *)
(***************************************************************************)
Held(positions) == {i \in Instruments : positions[i] # FlatSides}

KeyOf(inst) == GroupKey(Contract[inst].product, inst)

Valued(positions, prices) ==
  /\ \A i \in Held(positions) : prices[i].last > 0 /\ prices[i].pre > 0
  /\ \A i, j \in Held(positions) :
       KeyOf(i) = KeyOf(j) => Contract[i].maxMarginSide = Contract[j].maxMarginSide

MarkPrice(price) == IF MarkBasis = "Last" THEN price.last ELSE price.pre

Profit(positions, prices) ==
  SumFunction([x \in Sides |-> ByDate(positions[x[1]][x[2]], x[2], MarkPrice(prices[x[1]]))])

\* Both margins of one direction of a group, and of the group.
SideOf(members, dir, positions, prices) ==
  SumMargins([i \in members |->
                SideMargin(Contract[i].margin[dir], Contract[i].addOn,
                           positions[i][dir], prices[i].last, prices[i].pre)])

GroupOf(key, positions, prices) ==
  LET members == {i \in Held(positions) : KeyOf(i) = key} IN
  GroupMargin(SideOf(members, "Buy", positions, prices), SideOf(members, "Sell", positions, prices),
              \E i \in members : Contract[i].maxMarginSide)

HeldMargin(positions, prices) ==
  SumMargins([key \in {KeyOf(i) : i \in Held(positions)} |-> GroupOf(key, positions, prices)])

WithValuation(acc, margin, profit) ==
  A!WithPositionProfit(A!WithMargin(acc, margin.company, margin.exchange), profit)

\* What the account is told after a valuation.
Revalued(acc, positions, prices) ==
  WithValuation(acc, HeldMargin(positions, prices), Profit(positions, prices))

(***************************************************************************)
(* commit: the account follows positions and prices that have changed      *)
(* already, so a step it refuses breaks the simulator for good.  The steps *)
(* written before the refused one are left out: no operation looks at the  *)
(* account of a broken simulator.                                          *)
(***************************************************************************)
Committed(s, chargeable, written) ==
  IF chargeable /\ A!CanSetMargin(written.currMargin, written.exchangeMargin) /\ A!Check(written)
  THEN [s EXCEPT !.acc = written]
  ELSE [s EXCEPT !.broken = TRUE]

Commit(s, fee, atSettle, profit) ==
  Committed(s, A!CanCharge(fee, atSettle),
            Revalued(A!WithCloseProfit(A!Charged(s.acc, fee, atSettle), profit),
                     s.positions, s.prices))

(***************************************************************************)
(* Mark: new prices of one instrument, 0 for one that is not given.  The   *)
(* previous settlement price never changes within a day.                   *)
(***************************************************************************)
MarkedPrices(s, inst, quote) ==
  [s.prices EXCEPT ![inst] =
     [last |-> IF quote.last = 0 THEN @.last ELSE quote.last,
      pre  |-> IF quote.pre = 0 THEN @.pre ELSE quote.pre]]

CanMark(s, inst, quote) ==
  /\ quote.pre # 0 /\ s.prices[inst].pre # 0 => quote.pre = s.prices[inst].pre
  /\ Valued(s.positions, MarkedPrices(s, inst, quote))

Marked(s, inst, quote) == Commit([s EXCEPT !.prices = MarkedPrices(s, inst, quote)], 0, 0, 0)

-----------------------------------------------------------------------------
\* Lots frozen by the live orders that close the held side.
FrozenOf(book, inst, held) ==
  LET closing == {id \in B!IDs(book) : LET o == book.live[id].order IN
                    o.inst = inst /\ o.offset # "Open" /\ Opposite(o.dir) = held}
  IN  [today   |-> SumFunction([id \in closing |-> book.live[id].order.today]),
       history |-> SumFunction([id \in closing |-> book.live[id].order.history])]

(***************************************************************************)
(* An undated close takes history lots first, among the lots no live order *)
(* has frozen.  Freezing and filling use the same split.                   *)
(***************************************************************************)
ToHistory(s, inst, held, volume) ==
  Min({volume, Max({VolumeHistory(s.positions[inst][held])
                      - FrozenOf(s.book, inst, held).history, 0})})

CanSplit(s, inst, held, volume) ==
  volume - ToHistory(s, inst, held, volume)
    <= Max({VolumeToday(s.positions[inst][held]) - FrozenOf(s.book, inst, held).today, 0})

\* How many lots of a close, or of an order to close, are history lots.
HistoryPart(s, tr) ==
  CASE tr.offset = "CloseYesterday" -> tr.volume
    [] tr.offset = "Close"          -> ToHistory(s, tr.inst, Opposite(tr.dir), tr.volume)
    [] OTHER                        -> 0

\* An undated close on a UseHistory instrument, where one was chosen to mean something.
Dated(inst, offset) ==
  IF offset = "Close" /\ Contract[inst].dateType = "UseHistory" /\ UndatedClose = "AsYesterday"
  THEN "CloseYesterday" ELSE offset

\* Orders, never trades that have happened: a close-today becomes an undated close.
Rewritten(req) ==
  IF /\ req.offset = "CloseToday"
     /\ Contract[req.inst].measured /\ Contract[req.inst].dateType = "NoUseHistory"
  THEN [req EXCEPT !.offset = "Close"] ELSE req

FeePrice(s, req) == BasisPrice(req.price, s.prices[req.inst].pre)

TiersDiffer(inst) == Contract[inst].fee["Close"] # Contract[inst].fee["CloseToday"]

(***************************************************************************)
(* The fee of a trade, or of an order filled at its price; `today' is what *)
(* the quota gives an undated close.                                       *)
(***************************************************************************)
FeeKnown(s, req, today) ==
  LET fee == Contract[req.inst].fee IN
  /\ FeePrice(s, req) > 0
  /\ req.offset = "Close" =>
       UndatedKnown(fee["Close"], fee["CloseToday"], Contract[req.inst].measured,
                    FeePrice(s, req), req.volume, today)

FeeOf(s, req, today) ==
  LET fee == Contract[req.inst].fee
      Whole(charge, lots) ==
        [fee |-> charge.fee, atSettle |-> charge.atSettle, todayLots |-> lots]
  IN  IF req.offset = "Close"
      THEN UndatedCharge(fee["Close"], fee["CloseToday"], FeePrice(s, req), req.volume, today)
      ELSE Whole(Segment(fee[CASE req.offset = "CloseYesterday" -> "Close" [] OTHER -> req.offset],
                         FeePrice(s, req), req.volume),
                 IF req.offset = "CloseToday" THEN req.volume ELSE 0)

QuotaOf(s, req) == s.quotas[req.inst][Opposite(req.dir)]
TodayLots(s, req) == TodayTierLots(QuotaOf(s, req), req.volume)

\* The quota is asked only by an undated close under two different rates.
ChargeKnown(s, req) ==
  /\ FeeKnown(s, req, TodayLots(s, req))
  /\ req.offset = "Close" /\ TiersDiffer(req.inst) => TodayTierKnown(QuotaOf(s, req), req.volume)

Charge(s, req) == FeeOf(s, req, TodayLots(s, req))

-----------------------------------------------------------------------------
(***************************************************************************)
(* What a closing trade takes from its side.                               *)
(***************************************************************************)
CloseFits(s, tr) ==
  LET held == Opposite(tr.dir) IN
  IF tr.offset = "Close"
  THEN /\ Contract[tr.inst].dateType = "NoUseHistory"
       /\ CanSplit(s, tr.inst, held, tr.volume)
  ELSE Closable(s.positions[tr.inst][held], tr.offset, tr.volume)

\* Today's lots are closed after the history lots, on what those left.
ThenToday(first, volume) ==
  LET second == CloseLots(first.left, "CloseToday", volume, "Unmeasured") IN
  [pieces |-> first.pieces \o second.pieces, left |-> second.left]

TakenBy(s, tr) ==
  ThenToday(CloseLots(s.positions[tr.inst][Opposite(tr.dir)], "CloseYesterday",
                      HistoryPart(s, tr), "Unmeasured"),
            tr.volume - HistoryPart(s, tr))

\* Faulty variant: a trade may take lots that a live order has frozen.
LeavesFrozenUnchecked(s, inst, held, lots) == TRUE

\* The lots that remain still cover every live order.
LeavesFrozen(s, inst, held, lots) ==
  LET frozen == FrozenOf(s.book, inst, held) IN
  VolumeToday(lots) >= frozen.today /\ VolumeHistory(lots) >= frozen.history

DatedTrade(tr) == [tr EXCEPT !.offset = Dated(tr.inst, tr.offset)]

\* The positions after a trade whose offset is dated.
PositionsAfter(s, day, tr) ==
  IF tr.offset = "Open"
  THEN [s.positions EXCEPT ![tr.inst][tr.dir] =
          Append(@, Lot(day, tr.price, tr.volume, tr.price, FALSE))]
  ELSE [s.positions EXCEPT ![tr.inst][Opposite(tr.dir)] = TakenBy(s, tr).left]

TakesFreeLots(s, tr) ==
  tr.offset # "Open" =>
    CloseFits(s, tr) /\ LeavesFrozen(s, tr.inst, Opposite(tr.dir), TakenBy(s, tr).left)

DatedTradeFits(s, day, tr) ==
  /\ TakesFreeLots(s, tr)
  /\ ChargeKnown(s, tr)
  /\ Valued(PositionsAfter(s, day, tr), s.prices)

\* ApplyTrade accepts the trade.
CanTrade(s, day, request) == DatedTradeFits(s, day, DatedTrade(request))

Booked(s, tr, todayLots) ==
  IF tr.offset = "Open"
  THEN [s.quotas EXCEPT ![tr.inst][tr.dir].opened = @ + tr.volume]
  ELSE [s.quotas EXCEPT ![tr.inst][Opposite(tr.dir)] =
          [opened   |-> @.opened,
           charged  |-> @.charged + todayLots,
           explicit |-> @.explicit + IF tr.offset = "CloseToday" THEN todayLots ELSE 0]]

\* Profit against the opening price; as what the account books, a faulty variant.
CloseProfitByTrade(s, tr) ==
  IF tr.offset = "Open" THEN 0 ELSE ByTrade(TakenBy(s, tr).pieces, Opposite(tr.dir), tr.price)

CloseProfit(s, tr) ==
  IF tr.offset = "Open" THEN 0 ELSE ByDate(TakenBy(s, tr).pieces, Opposite(tr.dir), tr.price)

Recorded(s, day, tr, charge) ==
  Commit([s EXCEPT !.positions = PositionsAfter(s, day, tr),
                   !.quotas = Booked(s, tr, charge.todayLots)],
         charge.fee, charge.atSettle, CloseProfit(s, tr))

Traded(s, day, request) ==
  Recorded(s, day, DatedTrade(request), Charge(s, DatedTrade(request)))

-----------------------------------------------------------------------------
(***************************************************************************)
(* What an order freezes: an opening order margin, a closing order lots,   *)
(* and both their fee.                                                     *)
(***************************************************************************)
FreezePrice(s, req) ==
  IF FreezeBasis = "AtOrderPrice" THEN req.price ELSE s.prices[req.inst].pre

OrderMargin(s, req) ==
  IF req.offset # "Open" THEN 0
  ELSE Company(Contract[req.inst].margin[req.dir], Contract[req.inst].addOn,
               FreezePrice(s, req), req.volume)

\* FreezeOf of a request that has been rewritten; an opening order that freezes nothing is refused.
CanFreezeOrder(s, request) ==
  LET req == DatedTrade(request) IN
  /\ ChargeKnown(s, req)
  /\ req.offset = "Open" => FreezePrice(s, req) > 0 /\ OrderMargin(s, req) > 0
  /\ req.offset = "Close" => /\ Contract[req.inst].dateType = "NoUseHistory"
                             /\ CanSplit(s, req.inst, Opposite(req.dir), req.volume)

OrderFreezing(request, margin, commission, today, history) ==
  [inst |-> request.inst, dir |-> request.dir, offset |-> request.offset,
   price |-> request.price, volume |-> request.volume,
   margin |-> margin, commission |-> commission, today |-> today, history |-> history]

FrozenOrder(s, request) ==
  LET req == DatedTrade(request) IN
  OrderFreezing(request, OrderMargin(s, req), Charge(s, req).fee,
                IF req.offset = "Open" THEN 0 ELSE req.volume - HistoryPart(s, req),
                HistoryPart(s, req))

\* With what is frozen already the order does not freeze more lots than are held.
Coverable(s, order) ==
  LET held   == Opposite(order.dir)
      lots   == s.positions[order.inst][held]
      frozen == FrozenOf(s.book, order.inst, held)
  IN  order.offset # "Open" =>
        /\ frozen.today + order.today <= VolumeToday(lots)
        /\ frozen.history + order.history <= VolumeHistory(lots)

CanHold(s, order) ==
  Coverable(s, order) /\ A!CanFreeze(s.acc, order.margin, order.commission)

CanPlace(s, id, request) ==
  /\ CanFreezeOrder(s, Rewritten(request))
  /\ CanHold(s, FrozenOrder(s, Rewritten(request)))
  /\ B!CanInsert(s.book, id)

WithOrder(s, id, order) ==
  [s EXCEPT !.acc = A!WithFrozen(@, order.margin, order.commission),
            !.book = B!Insert(@, id, order)]

Placed(s, id, request) == WithOrder(s, id, FrozenOrder(s, Rewritten(request)))

\* The order is off the book and what it froze is free again.
Released(s, id) ==
  LET order == s.book.live[id].order IN
  [s EXCEPT !.acc = A!WithoutFrozen(@, order.margin, order.commission),
            !.book = B!Remove(@, id)]

CanRelease(s, id) ==
  id \in B!IDs(s.book)
    /\ A!CanUnfreeze(s.acc, s.book.live[id].order.margin, s.book.live[id].order.commission)

\* The trade a live order becomes, always in full and at its own price.
TradeOf(order) ==
  [inst |-> order.inst, dir |-> order.dir, offset |-> order.offset,
   price |-> order.price, volume |-> order.volume]

\* Faulty variant: the order goes back and what it froze stays free.
PutBackUnfrozen(s, id, entry) ==
  IF A!CanFreeze(s.acc, entry.order.margin, entry.order.commission)
       /\ B!CanReinsert(s.book, id, entry.sequence)
  THEN [s EXCEPT !.book = B!Reinsert(@, id, entry)]
  ELSE [s EXCEPT !.broken = TRUE]

(***************************************************************************)
(* A refused fill: the order is put back, under its own number, if it can  *)
(* be frozen again and takes its place; if not, the simulator breaks.      *)
(***************************************************************************)
PutBack(s, id, entry) ==
  LET frozen == [s EXCEPT !.acc = A!WithFrozen(@, entry.order.margin, entry.order.commission)]
  IN  IF ~A!CanFreeze(s.acc, entry.order.margin, entry.order.commission)
      THEN [s EXCEPT !.broken = TRUE]
      ELSE IF B!CanReinsert(s.book, id, entry.sequence)
           THEN [frozen EXCEPT !.book = B!Reinsert(@, id, entry)]
           ELSE [frozen EXCEPT !.broken = TRUE]

-----------------------------------------------------------------------------
(***************************************************************************)
(* The evening.  The floating profit is taken at the settlement prices,    *)
(* the account is settled, every lot rolled, and the next day begins with  *)
(* the settlement price as last and previous settlement price of whatever  *)
(* is held.  Prices of what is not held and the quotas are dropped.        *)
(*                                                                         *)
(* All of it is computed before the account is told, in the evening and    *)
(* again for the morning; a step the account refuses breaks the simulator, *)
(* as in Committed.                                                        *)
(***************************************************************************)
SettlementPrices(s, price) ==
  [i \in Instruments |-> IF i \in Held(s.positions)
                         THEN [last |-> price[i], pre |-> s.prices[i].pre] ELSE NoPrices]

NextPrices(s, price) ==
  [i \in Instruments |-> IF i \in Held(s.positions)
                         THEN [last |-> price[i], pre |-> price[i]] ELSE NoPrices]

Rolled(s, price) ==
  [i \in Instruments |-> [dir \in Directions |-> SettleAll(s.positions[i][dir], price[i])]]

CanSettle(s, price) ==
  /\ B!IDs(s.book) = {}
  /\ A!CanSettleAccount(s.acc)
  /\ Valued(s.positions, SettlementPrices(s, price))
  /\ Valued(Rolled(s, price), NextPrices(s, price))

EveningAccount(s, price) == Revalued(s.acc, s.positions, SettlementPrices(s, price))

NextMorning(s, price) ==
  [NewSimulator(0) EXCEPT
     !.acc = Revalued(A!SettledAccount(EveningAccount(s, price)), Rolled(s, price), NextPrices(s, price)),
     !.positions = Rolled(s, price),
     !.prices = NextPrices(s, price),
     !.book = s.book]

\* The account takes both margins, is settled between them, and passes its check.
AccountPasses(evening, morning) ==
  /\ A!CanSetMargin(evening.currMargin, evening.exchangeMargin)
  /\ A!CanSettleAccount(evening)
  /\ A!CanSetMargin(morning.currMargin, morning.exchangeMargin)
  /\ A!Check(morning)

AccountSettles(s, price) == AccountPasses(EveningAccount(s, price), NextMorning(s, price).acc)

Settled(s, price) ==
  IF AccountSettles(s, price) THEN NextMorning(s, price) ELSE [s EXCEPT !.broken = TRUE]

-----------------------------------------------------------------------------
(***************************************************************************)
(* State and Restore.  The archive is the simulator itself; a broken one   *)
(* is not given out.                                                       *)
(***************************************************************************)
\* Order shape the book demands again, and the amounts recomputed per order.
RestorableOrder(s, order) ==
  LET request == TradeOf(order)
      req == DatedTrade(request)
      want == FrozenOrder(s, request)
  IN  /\ order.price > 0
      /\ Rewritten(request) = request
      /\ IF req.offset = "Close"
         THEN /\ order.margin = 0
              /\ order.today + order.history = order.volume
              /\ \E k \in 0 .. order.volume :
                   FeeKnown(s, req, k) /\ FeeOf(s, req, k).fee = order.commission
         ELSE CanFreezeOrder(s, request) /\ want = order

RestorableQuotas(s) ==
  \A i \in Instruments, dir \in Directions :
    LET q == s.quotas[i][dir] IN
    /\ q.explicit <= q.charged /\ q.charged <= q.opened
    /\ VolumeToday(s.positions[i][dir]) <= q.opened

FrozenTotal(book) ==
  [margin     |-> SumFunction([id \in B!IDs(book) |-> book.live[id].order.margin]),
   commission |-> SumFunction([id \in B!IDs(book) |-> book.live[id].order.commission])]

FrozenAgrees(s) ==
  /\ FrozenTotal(s.book).margin = s.acc.frozenMargin
  /\ FrozenTotal(s.book).commission = s.acc.frozenCommission

\* Restore looks at the positions of the archive, not at the orders.
HeldFits(s) ==
  \A i \in Held(s.positions), held \in Directions : LeavesFrozen(s, i, held, s.positions[i][held])

\* Restore accepts what State gave out, leaving the account and the quotas aside.
RestorableRest(s, day) ==
  /\ \A i \in Instruments, dir \in Directions : RestorableSide(day, s.positions[i][dir])
  /\ B!RestorableBook(B!ArchivedBook(s.book))
  /\ \A id \in B!IDs(s.book) : RestorableOrder(s, s.book.live[id].order)
  /\ FrozenAgrees(s)
  /\ HeldFits(s)
  /\ Valued(s.positions, s.prices)
  /\ s.acc = Revalued(s.acc, s.positions, s.prices)

Restorable(s, day) ==
  A!RestorableAccount(s.acc) /\ RestorableQuotas(s) /\ RestorableRest(s, day)

-----------------------------------------------------------------------------
(* What an archive is read into (state.go State); the book takes no order that *)
(* order.FreezeOf refuses (order/freeze.go insertAt).                          *)
Offsets == {"Open", "Close", "CloseToday", "CloseYesterday"}

OrderType ==
  [inst : Instruments, dir : Directions, offset : Offsets,
   price : Int, volume : Nat \ {0}, margin : Nat, commission : Nat, today : Nat, history : Nat]
LotType == [openDay : Int, openPrice : Int, volume : Int, basis : Int, settled : BOOLEAN]

SimFields == {"broken", "acc", "positions", "prices", "book", "quotas"}
PricesType == [Instruments -> [last : Nat, pre : Nat]]
QuotasType == [Instruments -> [Directions -> QuotaType]]

Readable(s) ==
  /\ DOMAIN s = SimFields
  /\ s.broken \in BOOLEAN
  /\ s.acc \in A!ArchiveType
  /\ s.positions \in [Instruments -> [Directions -> Seq(LotType)]]
  /\ s.prices \in PricesType
  /\ s.quotas \in QuotasType
  /\ s.book.last \in Nat
  /\ IsFiniteSet(B!IDs(s.book))
  /\ \A id \in B!IDs(s.book) : s.book.live[id] \in [order : OrderType, sequence : Int]

(***************************************************************************)
(* It holds no undated close of an instrument whose lots are kept apart,   *)
(* unless such a close was chosen to mean something, and no close of an    *)
(* instrument it has no lots of.  The library writes no such archive,      *)
(* because FreezeOf and PlaceAccepted refuse the order; Restore would not  *)
(* notice one (state.go checkOrderFreeze, Restore).                        *)
(***************************************************************************)
OrdersMean(s) ==
  \A id \in B!IDs(s.book) :
    LET tr == DatedTrade(TradeOf(s.book.live[id].order)) IN
    /\ tr.offset = "Close" => Contract[tr.inst].dateType = "NoUseHistory"
    /\ tr.offset # "Open" => tr.inst \in Held(s.positions)

(***************************************************************************)
(* The part of a fee that is charged per lot is a whole number of cents.   *)
(* Otherwise a truncated fee and its settlement can differ by more than    *)
(* the cent per trade that the account allows, and a trade breaks the      *)
(* simulator (account.go AddCommission, Check).                            *)
(***************************************************************************)
FeesInCents ==
  \A i \in Instruments, offset \in {"Open", "Close", "CloseToday"} :
    LET perLot == Contract[i].fee[offset].byVolume IN \E k \in 0 .. perLot : perLot = Cent * k

-----------------------------------------------------------------------------
(***************************************************************************)
(* Every usable simulator is Ready, whatever was done to it: it has its    *)
(* types, the account agrees with the positions, the lots of live orders   *)
(* are there, what is frozen and charged is counted, and an archive of it  *)
(* would be true.                                                          *)
(***************************************************************************)
AccountFields ==
  {"algorithm", "preBalance", "deposit", "withdraw", "closeProfit", "commission", "settleCommission",
   "commissionTrades", "positionProfit", "currMargin", "exchangeMargin", "frozenMargin",
   "frozenCommission", "frozenCash"}

\* The amounts the balance is made of are numbers.
AccountTyped(a) ==
  /\ DOMAIN a = AccountFields
  /\ a.preBalance \in Int /\ a.deposit \in Int /\ a.withdraw \in Int
  /\ a.closeProfit \in Int /\ a.commission \in Int /\ a.settleCommission \in Int
  /\ a.positionProfit \in Int

\* What a trade is worth leaving aside the lots it opens: profit by trade, less its fee.
TradeCash(s, request) ==
  CloseProfitByTrade(s, DatedTrade(request)) - Charge(s, DatedTrade(request)).fee

\* The balance but for the floating profit.
BookedMoney(a) == A!StaticBalance(a) + a.closeProfit - a.commission

\* Trades, and what remains of an order once it is filled.
TradeType == [inst : Instruments, dir : Directions, offset : Offsets, price : Nat \ {0}, volume : Nat \ {0}]

\* Every side holds lots that an archive of this day could hold.
PositionsTyped(today, positions) ==
  /\ positions \in [Instruments -> [Directions -> Seq(LotSet)]]
  /\ \A i \in Instruments, dir \in Directions : RestorableSide(today, positions[i][dir])

OrderTyped(order) == TradeOf(order) \in TradeType /\ order.today \in Int /\ order.history \in Int

BookTyped(book) ==
  /\ IsFiniteSet(B!IDs(book))
  /\ \A id \in B!IDs(book) : OrderTyped(book.live[id].order)

SimTyped(today, s) ==
  /\ DOMAIN s = SimFields
  /\ AccountTyped(s.acc)
  /\ PositionsTyped(today, s.positions)
  /\ s.prices \in PricesType
  /\ BookTyped(s.book)
  /\ s.quotas \in QuotasType

\* What the bases of all held lots have moved: the profit that has been settled already.
Carried(positions) == SumFunction([x \in Sides |-> Drift(positions[x[1]][x[2]], x[2])])

\* What the account is told follows the lots, and c is what the client has without them.
Balanced(s, c) ==
  /\ c \in Int
  /\ s.acc.positionProfit = Profit(s.positions, s.prices)
  /\ MarkBasis = "Last" => BookedMoney(s.acc) = c + Carried(s.positions)

Good(today, s, c) == SimTyped(today, s) /\ Balanced(s, c)

(***************************************************************************)
(* An order has frozen the lots its offset names (submit.go FreezeOf); one *)
(* that names none is for an instrument that does not tell them apart.     *)
(***************************************************************************)
OrderLots(order) ==
  LET tr == DatedTrade(TradeOf(order)) IN
  /\ order.today \in Nat /\ order.history \in Nat
  /\ tr.offset = "CloseToday" => order.today = order.volume /\ order.history = 0
  /\ tr.offset = "CloseYesterday" => order.today = 0 /\ order.history = order.volume
  /\ tr.offset = "Close" => /\ order.today + order.history = order.volume
                            /\ Contract[order.inst].dateType = "NoUseHistory"

\* Of no side is more frozen than it holds.
FrozenFits(s) ==
  \A i \in Instruments, held \in Directions : LeavesFrozen(s, i, held, s.positions[i][held])

\* The orders fit the lots held, each by itself and all of them together.
Covered(s) == (\A id \in B!IDs(s.book) : OrderLots(s.book.live[id].order)) /\ FrozenFits(s)

\* An account that passes its own check, with its two margins in order.
Healthy(a) == a \in A!AccountType /\ A!Check(a) /\ a.currMargin >= a.exchangeMargin

\* The numbers orders carry are their own and were given out (order/sequence.go).
Numbered(book) ==
  /\ book.last \in Nat
  /\ \A id \in B!IDs(book) : id # NoID /\ B!Sequence(book, id) \in 1 .. book.last
  /\ \A a, b \in B!IDs(book) : a # b => B!Sequence(book, a) # B!Sequence(book, b)

AmountsTyped(order) == order.margin \in Nat /\ order.commission \in Nat

Funded(s) ==
  /\ Healthy(s.acc)
  /\ Numbered(s.book)
  /\ \A id \in B!IDs(s.book) : AmountsTyped(s.book.live[id].order)

\* One side's quota and its lots.
SideQuota(q, lots) ==
  /\ q.explicit <= q.charged
  /\ q.charged - q.explicit <= q.opened
  /\ VolumeToday(lots) <= q.opened

QuotasHold(s) ==
  \A i \in Instruments, dir \in Directions : SideQuota(s.quotas[i][dir], s.positions[i][dir])

\* The margins are those of the positions at the prices.
Told(s) ==
  /\ s.acc.currMargin = HeldMargin(s.positions, s.prices).company
  /\ s.acc.exchangeMargin = HeldMargin(s.positions, s.prices).exchange

OrdersRestorable(s) == \A id \in B!IDs(s.book) : RestorableOrder(s, s.book.live[id].order)

Archivable(s) ==
  /\ Told(s)
  /\ FrozenAgrees(s)
  /\ Valued(s.positions, s.prices)
  /\ OrdersRestorable(s)
  /\ QuotasHold(s)

\* What is known of a usable simulator.
Ready(today, s, c) == Good(today, s, c) /\ Covered(s) /\ Funded(s) /\ Archivable(s)

\* It can be worked with, whatever its client has without the lots.
Sound(today, s) == ~s.broken /\ \E c : Ready(today, s, c)
=============================================================================
