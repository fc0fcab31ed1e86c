-------------------------- MODULE SimulatorProofs --------------------------
(***************************************************************************)
(* Proofs about Simulator.  Every step is one operation of the facade and  *)
(* FacadeProofs says what the operation does; here are the invariants of   *)
(* the specification, to the theorems on the balance, on the lots of live  *)
(* orders, on what the account can pay and on what an archive says.        *)
(***************************************************************************)
EXTENDS Simulator, FacadeProofs

-----------------------------------------------------------------------------
(* The balance. *)

\* Since the lots were opened: what is settled already and what is not (pnl/pnl.go).
LEMMA OpenProfitParts ==
  ASSUME NEW today, NEW s, SimTyped(today, s)
  PROVE  OpenProfit(s) = Profit(s.positions, s.prices) + Carried(s.positions)
<1> DEFINE D == [x \in Sides |-> Drift(s.positions[x[1]][x[2]], x[2])]
           F == [x \in Sides |-> ByDate(s.positions[x[1]][x[2]], x[2], MarkPrice(s.prices[x[1]]))]
           H == [x \in Sides |-> ByTrade(s.positions[x[1]][x[2]], x[2], MarkPrice(s.prices[x[1]]))]
<1>1. ASSUME NEW x \in Sides
      PROVE  D[x] \in Int /\ F[x] \in Int /\ H[x] \in Int /\ H[x] = F[x] + D[x]
  <2> DEFINE lots == s.positions[x[1]][x[2]]
             price == MarkPrice(s.prices[x[1]])
  <2>1. lots \in Seq(LotSet) /\ x[1] \in Instruments
    BY DEF SimTyped, PositionsTyped, Sides
  <2>2. price \in Int
    BY <2>1, MarkPriceInt DEF SimTyped
  <2>3. D[x] = Drift(lots, x[2]) /\ F[x] = ByDate(lots, x[2], price) /\ H[x] = ByTrade(lots, x[2], price)
    OBVIOUS
  <2> HIDE DEF lots, price, D, F, H
  <2>. QED
    BY <2>1, <2>2, <2>3, ProfitsPart
<1>2. D \in [Sides -> Int] /\ F \in [Sides -> Int] /\ H \in [Sides -> Int]
  <2>1. DOMAIN D = Sides /\ DOMAIN F = Sides /\ DOMAIN H = Sides
    OBVIOUS
  <2>2. D = [x \in Sides |-> D[x]] /\ F = [x \in Sides |-> F[x]] /\ H = [x \in Sides |-> H[x]]
    OBVIOUS
  <2> HIDE DEF D, F, H
  <2>. QED
    BY <1>1, <2>1, <2>2
<1>3. SumFunction(H) = SumFunction(F) + SumFunction(D)
  <2> HIDE DEF D, F, H
  <2>. QED
    BY <1>1, <1>2, SidesFinite, SumOfSums
<1>. QED
  BY <1>3 DEF OpenProfit, Profit, Carried

\* What is true of a simulator as long as it is usable.
Books == day \in Int /\ (Usable => Good(day, sim, cash))

LEMMA InitBooks == Init => Books
<1> SUFFICES ASSUME Init PROVE day \in Int /\ Good(day, sim, cash)
  BY DEF Books
<1>1. /\ day = 1 /\ Readable(sim) /\ Restorable(sim, 1)
      /\ cash = A!Balance(sim.acc) - OpenProfit(sim)
  BY StartsTyped DEF Init
<1> DEFINE c == BookedMoney(sim.acc) - Carried(sim.positions)
<1>2. Good(1, sim, c)
  BY <1>1, RestoredBalance
<1>3. SimTyped(1, sim) /\ AccountTyped(sim.acc) /\ sim.acc.positionProfit = Profit(sim.positions, sim.prices)
  BY <1>2 DEF Good, Balanced, SimTyped
<1>4. OpenProfit(sim) = Profit(sim.positions, sim.prices) + Carried(sim.positions)
  BY <1>3, OpenProfitParts
<1>5. BookedMoney(sim.acc) \in Int /\ A!Balance(sim.acc) = BookedMoney(sim.acc) + sim.acc.positionProfit
  BY <1>3, BalanceIs
<1>6. Profit(sim.positions, sim.prices) \in Int /\ Carried(sim.positions) \in Int
  BY <1>3, ProfitInt, CarriedInt DEF SimTyped
<1>7. cash = c
  BY <1>1, <1>3, <1>4, <1>5, <1>6
<1>. QED
  BY <1>1, <1>2, <1>7

\* A step that leaves s usable leaves it good.
LEMMA BecomesKeeps ==
  ASSUME Books, NEW s, NEW amount, Becomes(s, amount),
         Usable /\ Good(day, sim, cash) /\ ~s.broken => Good(day, s, cash + amount)
  PROVE  Books'
BY DEF Books, Becomes, Usable

\* The account refuses no evening, so the next morning comes (settle.go Settle).
LEMMA SettleComes ==
  ASSUME day \in Int, Good(day, sim, cash), NEW price \in [Instruments -> Prices], Settle(price)
  PROVE  /\ price \in SettlementType /\ CanSettle(sim, price) /\ Usable /\ day' = day + 1
         /\ sim' = NextMorning(sim, price)
         /\ cash' = cash + sim.acc.commission - sim.acc.settleCommission
<1>1. price \in SettlementType
  BY InputsTyped DEF SettlementType
<1>2. /\ CanSettle(sim, price) /\ Usable /\ day' = day + 1 /\ sim' = Settled(sim, price)
      /\ cash' = cash + sim.acc.commission - sim.acc.settleCommission
  BY DEF Settle
<1>3. SimTyped(day, sim)
  BY DEF Good
<1>4. Settled(sim, price) = NextMorning(sim, price)
  BY <1>1, <1>2, <1>3, EveningSettles
<1>. QED
  BY <1>1, <1>2, <1>4

LEMMA BooksInductive == Books /\ [Next]_vars => Books'
<1> SUFFICES ASSUME Books, [Next]_vars PROVE Books'
  OBVIOUS
<1>0. day \in Int /\ (Usable => Good(day, sim, cash))
  BY DEF Books
<1>1. ASSUME NEW amount \in Amounts, Deposit(amount) PROVE Books'
  <2>1. amount \in Int
    BY InputsTyped
  <2>2. Good(day, sim, cash) => Good(day, [sim EXCEPT !.acc = A!Deposited(@, amount)], cash + amount)
    BY <2>1, DepositKeeps
  <2>3. Becomes([sim EXCEPT !.acc = A!Deposited(@, amount)], amount)
    BY <1>1 DEF Deposit
  <2>. QED
    BY <2>2, <2>3, BecomesKeeps
<1>2. ASSUME NEW amount \in Amounts, Withdraw(amount) PROVE Books'
  <2>1. amount \in Int
    BY InputsTyped
  <2>2. Good(day, sim, cash) => Good(day, [sim EXCEPT !.acc = A!Withdrawn(@, amount)], cash + (-amount))
    BY <2>1, WithdrawKeeps
  <2>3. Becomes([sim EXCEPT !.acc = A!Withdrawn(@, amount)], -amount)
    BY <1>2 DEF Withdraw
  <2>. QED
    BY <2>2, <2>3, BecomesKeeps
<1>3. ASSUME NEW inst \in Instruments, NEW quote \in [last : Nat, pre : Nat], Mark(inst, quote)
      PROVE  Books'
  <2>1. Becomes(Marked(sim, inst, quote), 0)
    BY <1>3 DEF Mark
  <2>2. Good(day, sim, cash) /\ ~Marked(sim, inst, quote).broken
          => Good(day, Marked(sim, inst, quote), cash + 0)
    <3>1. Good(day, sim, cash) => cash \in Int
      BY DEF Good, Balanced
    <3>2. cash \in Int => cash + 0 = cash
      OBVIOUS
    <3>. QED
      BY <3>1, <3>2, MarkKeeps
  <2>. QED
    BY <2>1, <2>2, BecomesKeeps
<1>4. ASSUME NEW tr \in Requests, ApplyTrade(tr) PROVE Books'
  <2>1. tr \in TradeType
    BY InputsTyped
  <2>2. Good(day, sim, cash) /\ ~Traded(sim, day, tr).broken
          => Good(day, Traded(sim, day, tr), cash + TradeCash(sim, tr))
    BY <1>0, <2>1, TradeKeeps
  <2>3. Becomes(Traded(sim, day, tr), TradeCash(sim, tr))
    BY <1>4 DEF ApplyTrade
  <2>. QED
    BY <2>2, <2>3, BecomesKeeps
<1>5. ASSUME NEW id \in ID, NEW request \in Requests, PlaceAccepted(id, request) PROVE Books'
  <2>1. request \in TradeType
    BY InputsTyped
  <2>2. Good(day, sim, cash) => Good(day, Placed(sim, id, request), cash)
    BY <2>1, PlaceKeeps
  <2>3. Becomes(Placed(sim, id, request), 0)
    BY <1>5 DEF PlaceAccepted
  <2>4. Good(day, sim, cash) => cash + 0 = cash
    BY DEF Good, Balanced
  <2>. QED
    BY <2>2, <2>3, <2>4, BecomesKeeps
<1>6. ASSUME NEW id \in ID, Cancel(id) PROVE Books'
  <2>1. Good(day, sim, cash) => Good(day, Released(sim, id), cash)
    BY ReleaseKeeps
  <2>2. Becomes(Released(sim, id), 0)
    BY <1>6 DEF Cancel
  <2>3. Good(day, sim, cash) => cash + 0 = cash
    BY DEF Good, Balanced
  <2>. QED
    BY <2>1, <2>2, <2>3, BecomesKeeps
<1>7. ASSUME NEW id \in ID, Fill(id) PROVE Books'
  <2> DEFINE freed == Released(sim, id)
             tr == TradeOf(sim.book.live[id].order)
  <2>1. Good(day, sim, cash) => Good(day, freed, cash)
    BY ReleaseKeeps
  <2>2. Good(day, sim, cash) => tr \in TradeType
    BY <1>7 DEF Fill, CanRelease, Good, SimTyped, BookTyped, OrderTyped
  <2>3. Becomes(Traded(freed, day, tr), TradeCash(freed, tr))
    BY <1>7 DEF Fill
  <2> HIDE DEF freed, tr
  <2>4. Good(day, sim, cash) /\ ~Traded(freed, day, tr).broken
          => Good(day, Traded(freed, day, tr), cash + TradeCash(freed, tr))
    BY <1>0, <2>1, <2>2, TradeKeeps
  <2>. QED
    BY <2>3, <2>4, BecomesKeeps
<1>8. ASSUME NEW id \in ID, FillRefused(id) PROVE Books'
  <2> DEFINE freed == Released(sim, id)
             entry == sim.book.live[id]
  <2>1. Good(day, sim, cash) => Good(day, freed, cash)
    BY ReleaseKeeps
  <2>2. Good(day, sim, cash) => OrderTyped(entry.order)
    BY <1>8 DEF FillRefused, CanRelease, Good, SimTyped, BookTyped
  <2>3. Becomes(PutBack(freed, id, entry), 0)
    BY <1>8 DEF FillRefused
  <2> HIDE DEF freed, entry
  <2>4. Good(day, sim, cash) /\ ~PutBack(freed, id, entry).broken
          => Good(day, PutBack(freed, id, entry), cash)
    BY <2>1, <2>2, PutBackKeeps
  <2>5. Good(day, sim, cash) => cash + 0 = cash
    BY DEF Good, Balanced
  <2>. QED
    BY <2>3, <2>4, <2>5, BecomesKeeps
<1>9. ASSUME NEW price \in [Instruments -> Prices], Settle(price) PROVE Books'
  <2>1. Good(day, sim, cash)
    BY <1>0, <1>9 DEF Settle
  <2>2. /\ price \in SettlementType /\ day' = day + 1 /\ sim' = NextMorning(sim, price)
        /\ cash' = cash + sim.acc.commission - sim.acc.settleCommission
    BY <1>0, <1>9, <2>1, SettleComes
  <2>3. Good(day + 1, NextMorning(sim, price), cash + sim.acc.commission - sim.acc.settleCommission)
    BY <1>0, <2>1, <2>2, SettleKeeps
  <2>. QED
    BY <1>0, <2>2, <2>3 DEF Books
<1>10. CASE UNCHANGED vars
  BY <1>0, <1>10 DEF vars, Books, Usable
<1>11. ASSUME NEW inst \in Instruments, NEW last \in Prices \cup {0}, NEW pre \in Prices \cup {0}
       PROVE  [last |-> last, pre |-> pre] \in [last : Nat, pre : Nat]
  BY InputsTyped
<1>. QED
  BY <1>1, <1>2, <1>3, <1>4, <1>5, <1>6, <1>7, <1>8, <1>9, <1>10, <1>11 DEF Next

\* The books give the balance.
LEMMA BooksBalance ==
  ASSUME MarkBasis = "Last"
  PROVE  Books => EquityIsTradeProfit
<1> SUFFICES ASSUME Good(day, sim, cash) PROVE A!Balance(sim.acc) = cash + OpenProfit(sim)
  BY DEF Books, EquityIsTradeProfit
<1>1. SimTyped(day, sim) /\ Balanced(sim, cash) /\ AccountTyped(sim.acc)
  BY DEF Good, SimTyped
<1>2. OpenProfit(sim) = Profit(sim.positions, sim.prices) + Carried(sim.positions)
  BY <1>1, OpenProfitParts
<1>3. A!Balance(sim.acc) = BookedMoney(sim.acc) + sim.acc.positionProfit
  BY <1>1, BalanceIs
<1>4. Carried(sim.positions) \in Int /\ Profit(sim.positions, sim.prices) \in Int
  BY <1>1, CarriedInt, ProfitInt DEF SimTyped
<1>. QED
  BY <1>1, <1>2, <1>3, <1>4 DEF Balanced

(***************************************************************************)
(* Where held lots are marked at the last price, the balance the day-by-   *)
(* day books show is what the client would have if every lot had been      *)
(* booked against its opening price, whatever trades, orders, quotes,      *)
(* payments, evenings and restores there were (trade.go, settle.go,        *)
(* pnl/pnl.go).  Marked at the previous settlement price it is not: the    *)
(* evening then leaves the profit of the day out.                          *)
(***************************************************************************)
THEOREM BooksAgreeWithTrades ==
  ASSUME MarkBasis = "Last"
  PROVE  Spec => []EquityIsTradeProfit
BY InitBooks, BooksInductive, BooksBalance, PTL DEF Spec

-----------------------------------------------------------------------------
(* The specification once more: besides the balance, the lots of orders. *)

Covering == Books /\ (Usable => Covered(sim))

LEMMA InitCovering ==
  ASSUME OrdersMeanSomething
  PROVE  Init => Covering
<1> SUFFICES ASSUME Init PROVE Covering
  OBVIOUS
<1>1. Readable(sim) /\ OrdersMean(sim) /\ Restorable(sim, 1)
  BY StartsTyped DEF Init, OrdersMeanSomething
<1>. QED
  BY <1>1, InitBooks, RestoredCovered DEF Covering

\* A step that leaves s usable leaves its orders covered.
LEMMA BecomesCovers ==
  ASSUME Covering, NEW s, NEW amount, Becomes(s, amount),
         Usable /\ Good(day, sim, cash) /\ Covered(sim) /\ ~s.broken => Covered(s)
  PROVE  (Usable => Covered(sim))'
BY DEF Covering, Books, Becomes, Usable

LEMMA CoveringInductive == Covering /\ [Next]_vars => Covering'
<1> SUFFICES ASSUME Covering, [Next]_vars PROVE Covering'
  OBVIOUS
<1>0. Books' /\ day \in Int /\ (Usable => Good(day, sim, cash) /\ Covered(sim))
  BY BooksInductive DEF Covering, Books
<1>1. SUFFICES (Usable => Covered(sim))'
  BY <1>0 DEF Covering
<1>2. Good(day, sim, cash) => SimTyped(day, sim) /\ DOMAIN sim = SimFields
  BY DEF Good, SimTyped
<1>3. ASSUME NEW amount \in Amounts, Deposit(amount) \/ Withdraw(amount) PROVE (Usable => Covered(sim))'
  <2>1. ASSUME NEW a, NEW more, Becomes([sim EXCEPT !.acc = a], more) PROVE (Usable => Covered(sim))'
    <3> DEFINE after == [sim EXCEPT !.acc = a]
    <3>1. Good(day, sim, cash) => after.positions = sim.positions /\ after.book = sim.book
      BY <1>2 DEF SimFields
    <3>2. Becomes(after, more)
      BY <2>1
    <3> HIDE DEF after
    <3>3. Good(day, sim, cash) /\ Covered(sim) => Covered(after)
      BY <3>1, SameCovered
    <3>. QED
      BY <3>2, <3>3, BecomesCovers
  <2>2. \/ Becomes([sim EXCEPT !.acc = A!Deposited(sim.acc, amount)], amount)
        \/ Becomes([sim EXCEPT !.acc = A!Withdrawn(sim.acc, amount)], -amount)
    BY <1>3 DEF Deposit, Withdraw
  <2>. QED
    BY <2>1, <2>2
<1>4. ASSUME NEW inst \in Instruments, NEW quote \in [last : Nat, pre : Nat], Mark(inst, quote)
      PROVE  (Usable => Covered(sim))'
  <2> DEFINE after == Marked(sim, inst, quote)
  <2>1. Becomes(after, 0)
    BY <1>4 DEF Mark
  <2>2. Good(day, sim, cash) /\ ~after.broken => after.positions = sim.positions /\ after.book = sim.book
    BY MarkKeeps
  <2> HIDE DEF after
  <2>3. Good(day, sim, cash) /\ Covered(sim) /\ ~after.broken => Covered(after)
    BY <2>2, SameCovered
  <2>. QED
    BY <2>1, <2>3, BecomesCovers
\* A trade, of the simulator as it is or of one that has set an order free.
<1>5. ASSUME NEW s, NEW c, Good(day, s, c), Covered(s), NEW request \in TradeType, CanTrade(s, day, request),
             ~Traded(s, day, request).broken
      PROVE  Covered(Traded(s, day, request))
  <2> DEFINE after == Traded(s, day, request)
             tr == DatedTrade(request)
  <2>1. after.positions = PositionsAfter(s, day, tr) /\ after.book = s.book
    BY <1>0, <1>5, TradeKeeps
  <2>2. TakesFreeLots(s, tr) /\ tr \in TradeType
    BY <1>5, DatedTyped DEF CanTrade, DatedTradeFits
  <2>3. SimTyped(day, s)
    BY <1>5 DEF Good
  <2> HIDE DEF after, tr
  <2>4. Covered(after)
    BY <1>0, <1>5, <2>1, <2>2, <2>3, TradeCovered
  <2>. QED
    BY <2>4 DEF after
<1>6. ASSUME NEW request \in Requests, ApplyTrade(request) PROVE (Usable => Covered(sim))'
  <2>1. request \in TradeType
    BY InputsTyped
  <2>2. CanTrade(sim, day, request) /\ Becomes(Traded(sim, day, request), TradeCash(sim, request))
    BY <1>6 DEF ApplyTrade
  <2>3. Good(day, sim, cash) /\ Covered(sim) /\ ~Traded(sim, day, request).broken
          => Covered(Traded(sim, day, request))
    BY <1>5, <2>1, <2>2
  <2>. QED
    BY <2>2, <2>3, BecomesCovers
<1>7. ASSUME NEW id \in ID, NEW request \in Requests, PlaceAccepted(id, request)
      PROVE  (Usable => Covered(sim))'
  <2>1. request \in TradeType
    BY InputsTyped
  <2>2. CanPlace(sim, id, request) /\ Becomes(Placed(sim, id, request), 0)
    BY <1>7 DEF PlaceAccepted
  <2>3. Good(day, sim, cash) /\ Covered(sim) => Covered(Placed(sim, id, request))
    BY <1>2, <2>1, <2>2, PlaceCovered
  <2>. QED
    BY <2>2, <2>3, BecomesCovers
<1>8. ASSUME NEW id \in ID, Cancel(id) PROVE (Usable => Covered(sim))'
  <2>1. id \in B!IDs(sim.book) /\ Becomes(Released(sim, id), 0)
    BY <1>8 DEF Cancel, CanRelease
  <2>2. Good(day, sim, cash) /\ Covered(sim) => Covered(Released(sim, id))
    BY <1>2, <2>1, ReleaseCovered
  <2>. QED
    BY <2>1, <2>2, BecomesCovers
<1>9. ASSUME NEW id \in ID, Fill(id) PROVE (Usable => Covered(sim))'
  <2> DEFINE freed == Released(sim, id)
             tr == TradeOf(sim.book.live[id].order)
  <2>1. id \in B!IDs(sim.book) /\ CanTrade(freed, day, tr) /\ Becomes(Traded(freed, day, tr), TradeCash(freed, tr))
    BY <1>9 DEF Fill, CanRelease
  <2>2. Good(day, sim, cash) => tr \in TradeType
    BY <2>1 DEF Good, SimTyped, BookTyped, OrderTyped
  <2>3. Good(day, sim, cash) /\ Covered(sim) => Good(day, freed, cash) /\ Covered(freed)
    BY <1>2, <2>1, ReleaseKeeps, ReleaseCovered
  <2> HIDE DEF freed, tr
  <2>4. Good(day, sim, cash) /\ Covered(sim) /\ ~Traded(freed, day, tr).broken => Covered(Traded(freed, day, tr))
    BY <1>5, <2>1, <2>2, <2>3
  <2>. QED
    BY <2>1, <2>4, BecomesCovers
<1>10. ASSUME NEW id \in ID, FillRefused(id) PROVE (Usable => Covered(sim))'
  <2> DEFINE after == PutBack(Released(sim, id), id, sim.book.live[id])
  <2>1. id \in B!IDs(sim.book) /\ Becomes(after, 0)
    BY <1>10 DEF FillRefused, CanRelease
  <2>2. Good(day, sim, cash) /\ Covered(sim) /\ ~after.broken => Covered(after)
    BY <1>2, <2>1, PutBackCovered
  <2> HIDE DEF after
  <2>. QED
    BY <2>1, <2>2, BecomesCovers
<1>11. ASSUME NEW price \in [Instruments -> Prices], Settle(price) PROVE (Usable => Covered(sim))'
  <2>1. Good(day, sim, cash)
    BY <1>0, <1>11 DEF Settle
  <2>2. price \in SettlementType /\ CanSettle(sim, price) /\ sim' = NextMorning(sim, price)
    BY <1>0, <1>11, <2>1, SettleComes
  <2>3. Covered(NextMorning(sim, price))
    BY <1>0, <1>2, <2>1, <2>2, SettleCovered
  <2>4. Covered(sim)' <=> Covered(sim')
    BY DEF Covered, FrozenFits, LeavesFrozen
  <2>. QED
    BY <2>2, <2>3, <2>4
<1>12. CASE UNCHANGED vars
  BY <1>0, <1>12 DEF vars, Usable
<1>13. ASSUME NEW inst \in Instruments, NEW last \in Prices \cup {0}, NEW pre \in Prices \cup {0}
       PROVE  [last |-> last, pre |-> pre] \in [last : Nat, pre : Nat]
  BY InputsTyped
<1>. QED
  BY <1>3, <1>4, <1>6, <1>7, <1>8, <1>9, <1>10, <1>11, <1>12, <1>13 DEF Next

\* A covered order could be filled.
LEMMA CoveringFinds == Covering => LotsForEveryOrder
<1> SUFFICES ASSUME Good(day, sim, cash), Covered(sim), NEW id \in B!IDs(sim.book)
             PROVE  LET freed == [sim EXCEPT !.book = B!Remove(@, id)] IN
                      TakesFreeLots(freed, DatedTrade(TradeOf(sim.book.live[id].order)))
  BY DEF Covering, Books, LotsForEveryOrder
<1>. QED
  BY OrderFinds DEF Good

(***************************************************************************)
(* The lots a live order to close needs stay there, whatever trades, other *)
(* orders, cancellations, refused fills and evenings come between: filled  *)
(* now, it would find its lots and leave those of all the other orders     *)
(* (place.go PlaceAccepted, trade.go ApplyTrade, undatedSplit).            *)
(***************************************************************************)
THEOREM OrdersFindTheirLots ==
  ASSUME OrdersMeanSomething
  PROVE  Spec => []LotsForEveryOrder
BY InitCovering, CoveringInductive, CoveringFinds, PTL DEF Spec

-----------------------------------------------------------------------------
(* The specification once more: besides the balance, the account and the order numbers. *)

Paying == Books /\ (Usable => Funded(sim))

LEMMA InitPaying == Init => Paying
BY InitBooks, RestoredFunded, StartsTyped DEF Init, Paying

\* A live order of s costs more than s could pay with that order taken off the book.
Unpayable(s) == \E id \in B!IDs(s.book) : ShortFor(Released(s, id), s.book.live[id].order)

\* What may become of a usable simulator.
PaidFor(s, after) == IF after.broken THEN FeesInCents => Unpayable(s) ELSE Funded(after)

LEMMA StepPaid ==
  ASSUME Paying, Next
  PROVE  Usable /\ PaidFor(sim, sim')
<1>1. Usable
  BY DEF Next, Deposit, Withdraw, Mark, ApplyTrade, PlaceAccepted, Cancel, Fill, FillRefused, Becomes, Settle
<1>2. /\ day \in Int /\ Good(day, sim, cash) /\ SimTyped(day, sim) /\ DOMAIN sim = SimFields
      /\ ~sim.broken /\ Funded(sim)
  BY <1>1 DEF Paying, Books, Good, SimTyped, Usable
<1>3. SUFFICES PaidFor(sim, sim')
  BY <1>1
<1>4. ASSUME NEW s, NEW amount, Becomes(s, amount), PaidFor(sim, s) PROVE PaidFor(sim, sim')
  BY <1>4 DEF Becomes
<1>5. ASSUME NEW amount \in Amounts, Deposit(amount) \/ Withdraw(amount) PROVE PaidFor(sim, sim')
  <2>1. ASSUME NEW a, NEW more, Healthy(a), Becomes([sim EXCEPT !.acc = a], more) PROVE PaidFor(sim, sim')
    <3>1. PaidFor(sim, [sim EXCEPT !.acc = a])
      BY <1>2, <2>1, AccountFunded DEF PaidFor
    <3>. QED
      BY <1>4, <2>1, <3>1
  <2>2. amount \in Int /\ Healthy(sim.acc)
    BY <1>2, InputsTyped DEF Funded
  <2>3. CASE Deposit(amount)
    <3>1. /\ A!CanDeposit(amount)
          /\ Becomes([sim EXCEPT !.acc = A!Deposited(sim.acc, amount)], amount)
      BY <2>3 DEF Deposit
    <3>. QED
      BY <2>1, <2>2, <3>1, HealthyMoney
  <2>4. CASE Withdraw(amount)
    <3>1. /\ A!CanWithdraw(sim.acc, amount)
          /\ Becomes([sim EXCEPT !.acc = A!Withdrawn(sim.acc, amount)], -amount)
      BY <2>4 DEF Withdraw
    <3>. QED
      BY <2>1, <2>2, <3>1, HealthyMoney
  <2>. QED
    BY <1>5, <2>3, <2>4
<1>6. ASSUME NEW inst \in Instruments, NEW quote \in [last : Nat, pre : Nat], Mark(inst, quote)
      PROVE  PaidFor(sim, sim')
  <2>1. Becomes(Marked(sim, inst, quote), 0)
    BY <1>6 DEF Mark
  <2>2. PaidFor(sim, Marked(sim, inst, quote))
    BY <1>2, <1>6, MarkFunded DEF PaidFor
  <2>. QED
    BY <1>4, <2>1, <2>2
<1>7. ASSUME NEW request \in Requests, ApplyTrade(request) PROVE PaidFor(sim, sim')
  <2>1. request \in TradeType
    BY InputsTyped
  <2>2. CanTrade(sim, day, request) /\ Becomes(Traded(sim, day, request), TradeCash(sim, request))
    BY <1>7 DEF ApplyTrade
  <2>3. PaidFor(sim, Traded(sim, day, request))
    BY <1>2, <2>1, <2>2, TradeFunded DEF PaidFor
  <2>. QED
    BY <1>4, <2>2, <2>3
<1>8. ASSUME NEW id \in ID, NEW request \in Requests, PlaceAccepted(id, request)
      PROVE  PaidFor(sim, sim')
  <2>1. request \in TradeType
    BY InputsTyped
  <2>2. CanPlace(sim, id, request) /\ Becomes(Placed(sim, id, request), 0)
    BY <1>8 DEF PlaceAccepted
  <2>3. Funded(Placed(sim, id, request))
    BY <1>2, <2>1, <2>2, PlaceFunded
  <2>4. Placed(sim, id, request).broken = sim.broken
    BY <1>2 DEF Placed, WithOrder, SimFields
  <2>5. PaidFor(sim, Placed(sim, id, request))
    BY <1>2, <2>3, <2>4 DEF PaidFor
  <2>. QED
    BY <1>4, <2>2, <2>5
\* An order off the book leaves the simulator funded.
<1>9. ASSUME NEW id, CanRelease(sim, id)
      PROVE  Funded(Released(sim, id)) /\ ~Released(sim, id).broken
  <2>1. Released(sim, id).broken = sim.broken
    BY <1>2 DEF Released, SimFields
  <2>. QED
    BY <1>2, <1>9, <2>1, ReleaseFunded
<1>10. ASSUME NEW id \in ID, Cancel(id) PROVE PaidFor(sim, sim')
  <2>1. CanRelease(sim, id) /\ Becomes(Released(sim, id), 0)
    BY <1>10 DEF Cancel
  <2>2. PaidFor(sim, Released(sim, id))
    BY <1>9, <2>1 DEF PaidFor
  <2>. QED
    BY <1>4, <2>1, <2>2
<1>11. ASSUME NEW id \in ID, Fill(id) PROVE PaidFor(sim, sim')
  <2> DEFINE freed == Released(sim, id)
             tr == TradeOf(sim.book.live[id].order)
  <2>1. CanRelease(sim, id) /\ CanTrade(freed, day, tr) /\ Becomes(Traded(freed, day, tr), TradeCash(freed, tr))
    BY <1>11 DEF Fill
  <2>2. tr \in TradeType
    BY <1>2, <2>1 DEF CanRelease, SimTyped, BookTyped, OrderTyped
  <2>3. Good(day, freed, cash) /\ Funded(freed) /\ ~freed.broken
    BY <1>2, <1>9, <2>1, ReleaseKeeps
  <2> HIDE DEF freed, tr
  <2>4. PaidFor(sim, Traded(freed, day, tr))
    BY <1>2, <2>1, <2>2, <2>3, TradeFunded DEF PaidFor
  <2>. QED
    BY <1>4, <2>1, <2>4
<1>12. ASSUME NEW id \in ID, FillRefused(id) PROVE PaidFor(sim, sim')
  <2> DEFINE freed == Released(sim, id)
             entry == sim.book.live[id]
             after == PutBack(freed, id, entry)
  <2>1. id \in B!IDs(sim.book) /\ CanRelease(sim, id) /\ Becomes(after, 0)
    BY <1>12 DEF FillRefused, CanRelease
  <2>2. (after.broken => ShortFor(freed, entry.order)) /\ (~after.broken => Funded(after))
    BY <1>2, <2>1, PutBackFunded
  <2>3. ShortFor(freed, entry.order) => Unpayable(sim)
    BY <2>1 DEF Unpayable
  <2> HIDE DEF after, freed, entry
  <2>4. PaidFor(sim, after)
    BY <2>2, <2>3 DEF PaidFor
  <2>. QED
    BY <1>4, <2>1, <2>4
<1>13. ASSUME NEW price \in [Instruments -> Prices], Settle(price) PROVE PaidFor(sim, sim')
  <2>1. price \in SettlementType /\ sim' = NextMorning(sim, price)
    BY <1>2, <1>13, SettleComes
  <2>2. PaidFor(sim, NextMorning(sim, price))
    BY <1>2, <2>1, SettleFunded DEF PaidFor
  <2>. QED
    BY <2>1, <2>2
<1>14. ASSUME NEW inst \in Instruments, NEW last \in Prices \cup {0}, NEW pre \in Prices \cup {0}
       PROVE  [last |-> last, pre |-> pre] \in [last : Nat, pre : Nat]
  BY InputsTyped
<1>. QED
  BY <1>5, <1>6, <1>7, <1>8, <1>10, <1>11, <1>12, <1>13, <1>14 DEF Next

LEMMA PayingInductive == Paying /\ [Next]_vars => Paying'
<1> SUFFICES ASSUME Paying, [Next]_vars PROVE Paying'
  OBVIOUS
<1>1. Books'
  BY BooksInductive DEF Paying
<1>2. (Usable => Funded(sim))'
  <2>1. CASE Next
    <3>1. ~sim'.broken => Funded(sim')
      BY <2>1, StepPaid DEF PaidFor
    <3>2. Funded(sim)' <=> Funded(sim')
      BY DEF Funded, Healthy, Numbered, AmountsTyped
    <3>. QED
      BY <3>1, <3>2 DEF Usable
  <2>2. CASE UNCHANGED vars
    BY <2>2 DEF Paying, vars, Usable
  <2>. QED
    BY <2>1, <2>2
<1>. QED
  BY <1>1, <1>2 DEF Paying

LEMMA PayingBreaksShort ==
  ASSUME FeesInCents
  PROVE  Paying /\ [Next]_vars =>
           [sim'.broken =>
              \E id \in B!IDs(sim.book) :
                LET order == sim.book.live[id].order IN
                order.margin + order.commission > A!Available(Released(sim, id).acc)]_vars
<1> SUFFICES ASSUME Paying, Next, sim'.broken PROVE Unpayable(sim)
  BY DEF Unpayable, ShortFor
<1>. QED
  BY StepPaid DEF PaidFor

(***************************************************************************)
(* Where the fees per lot are whole cents, the account refuses nothing     *)
(* that a trade, a quote or an evening tells it: charges are within its    *)
(* tolerance and margins in order.  Only the refused fill of an order that *)
(* the client can no longer pay for breaks a simulator (trade.go commit,   *)
(* place.go Fill).                                                         *)
(***************************************************************************)
THEOREM OnlyShortFundsBreak ==
  ASSUME FeesInCents
  PROVE  Spec => BrokenOnlyWhenFundsShort
BY InitPaying, PayingInductive, PayingBreaksShort, PTL DEF Spec, BrokenOnlyWhenFundsShort

-----------------------------------------------------------------------------
(* The specification for the last time: an archive of a usable simulator is true. *)

Archiving == Covering /\ Paying /\ (Usable => Archivable(sim))

LEMMA InitArchiving ==
  ASSUME OrdersMeanSomething
  PROVE  Init => Archiving
<1> SUFFICES ASSUME Init PROVE Archiving
  OBVIOUS
<1>1. Readable(sim) /\ OrdersMean(sim) /\ Restorable(sim, 1)
  BY StartsTyped DEF Init, OrdersMeanSomething
<1>. QED
  BY <1>1, InitCovering, InitPaying, RestoredArchivable DEF Archiving

\* A step that leaves s usable leaves it archivable.
LEMMA BecomesArchives ==
  ASSUME Archiving, NEW s, NEW amount, Becomes(s, amount),
         Ready(day, sim, cash) /\ ~sim.broken /\ ~s.broken => Archivable(s)
  PROVE  (Usable => Archivable(sim))'
BY DEF Archiving, Covering, Paying, Books, Ready, Becomes, Usable

LEMMA ArchivingInductive == Archiving /\ [Next]_vars => Archiving'
<1> SUFFICES ASSUME Archiving, [Next]_vars PROVE Archiving'
  OBVIOUS
<1>0. /\ Covering' /\ Paying' /\ day \in Int
      /\ Usable => Ready(day, sim, cash) /\ ~sim.broken
  BY CoveringInductive, PayingInductive DEF Archiving, Covering, Paying, Books, Ready, Usable
<1>1. SUFFICES (Usable => Archivable(sim))'
  BY <1>0 DEF Archiving
<1>2. ASSUME NEW s, NEW c, Ready(day, s, c)
      PROVE  /\ Good(day, s, c) /\ Covered(s) /\ Funded(s) /\ Archivable(s)
             /\ SimTyped(day, s) /\ DOMAIN s = SimFields /\ DOMAIN s.acc = AccountFields
  BY <1>2 DEF Ready, Good, SimTyped, AccountTyped
<1>3. ASSUME NEW amount \in Amounts, Deposit(amount) \/ Withdraw(amount) PROVE (Usable => Archivable(sim))'
  <2>1. ASSUME NEW a, NEW more, Becomes([sim EXCEPT !.acc = a], more),
               DOMAIN sim.acc = AccountFields =>
                 /\ a.currMargin = sim.acc.currMargin /\ a.exchangeMargin = sim.acc.exchangeMargin
                 /\ a.frozenMargin = sim.acc.frozenMargin /\ a.frozenCommission = sim.acc.frozenCommission
        PROVE  (Usable => Archivable(sim))'
    <3> DEFINE after == [sim EXCEPT !.acc = a]
    <3>1. Ready(day, sim, cash) => Archivable(after)
      BY <1>2, <2>1, AccountArchivable
    <3>2. Becomes(after, more)
      BY <2>1
    <3> HIDE DEF after
    <3>. QED
      BY <3>1, <3>2, BecomesArchives
  <2>2. CASE Deposit(amount)
    <3> DEFINE a == A!Deposited(sim.acc, amount)
    <3>1. Becomes([sim EXCEPT !.acc = a], amount)
      BY <2>2 DEF Deposit
    <3>2. DOMAIN sim.acc = AccountFields =>
                 /\ a.currMargin = sim.acc.currMargin /\ a.exchangeMargin = sim.acc.exchangeMargin
                 /\ a.frozenMargin = sim.acc.frozenMargin /\ a.frozenCommission = sim.acc.frozenCommission
      BY DEF A!Deposited, AccountFields
    <3> HIDE DEF a
    <3>. QED
      BY <2>1, <3>1, <3>2
  <2>3. CASE Withdraw(amount)
    <3> DEFINE a == A!Withdrawn(sim.acc, amount)
    <3>1. Becomes([sim EXCEPT !.acc = a], -amount)
      BY <2>3 DEF Withdraw
    <3>2. DOMAIN sim.acc = AccountFields =>
                 /\ a.currMargin = sim.acc.currMargin /\ a.exchangeMargin = sim.acc.exchangeMargin
                 /\ a.frozenMargin = sim.acc.frozenMargin /\ a.frozenCommission = sim.acc.frozenCommission
      BY DEF A!Withdrawn, AccountFields
    <3> HIDE DEF a
    <3>. QED
      BY <2>1, <3>1, <3>2
  <2>. QED
    BY <1>3, <2>2, <2>3
<1>4. ASSUME NEW inst \in Instruments, NEW quote \in [last : Nat, pre : Nat], Mark(inst, quote)
      PROVE  (Usable => Archivable(sim))'
  <2> DEFINE after == Marked(sim, inst, quote)
  <2>1. CanMark(sim, inst, quote) /\ Becomes(after, 0)
    BY <1>4 DEF Mark
  <2>2. Ready(day, sim, cash) /\ ~after.broken => Archivable(after)
    BY <1>2, <2>1, MarkArchivable
  <2> HIDE DEF after
  <2>. QED
    BY <2>1, <2>2, BecomesArchives
<1>5. ASSUME NEW request \in Requests, ApplyTrade(request) PROVE (Usable => Archivable(sim))'
  <2> DEFINE after == Traded(sim, day, request)
  <2>1. request \in TradeType
    BY InputsTyped
  <2>2. CanTrade(sim, day, request) /\ Becomes(after, TradeCash(sim, request))
    BY <1>5 DEF ApplyTrade
  <2>3. Ready(day, sim, cash) /\ ~after.broken => Archivable(after)
    BY <1>0, <1>2, <2>1, <2>2, TradeArchivable
  <2> HIDE DEF after
  <2>. QED
    BY <2>2, <2>3, BecomesArchives
<1>6. ASSUME NEW id \in ID, NEW request \in Requests, PlaceAccepted(id, request)
      PROVE  (Usable => Archivable(sim))'
  <2> DEFINE after == Placed(sim, id, request)
  <2>1. request \in TradeType
    BY InputsTyped
  <2>2. CanPlace(sim, id, request) /\ Becomes(after, 0)
    BY <1>6 DEF PlaceAccepted
  <2>3. Ready(day, sim, cash) => Archivable(after)
    BY <1>2, <2>1, <2>2, PlaceArchivable
  <2> HIDE DEF after
  <2>. QED
    BY <2>2, <2>3, BecomesArchives
<1>7. ASSUME NEW id \in ID, Cancel(id) PROVE (Usable => Archivable(sim))'
  <2> DEFINE after == Released(sim, id)
  <2>1. id \in B!IDs(sim.book) /\ CanRelease(sim, id) /\ Becomes(after, 0)
    BY <1>7 DEF Cancel, CanRelease
  <2>2. Ready(day, sim, cash) => Archivable(after)
    BY <1>2, <2>1, ReleaseArchivable
  <2> HIDE DEF after
  <2>. QED
    BY <2>1, <2>2, BecomesArchives
<1>8. ASSUME NEW id \in ID, Fill(id) PROVE (Usable => Archivable(sim))'
  <2> DEFINE freed == Released(sim, id)
             tr == TradeOf(sim.book.live[id].order)
             after == Traded(freed, day, tr)
  <2>1. /\ id \in B!IDs(sim.book) /\ CanRelease(sim, id) /\ CanTrade(freed, day, tr)
        /\ Becomes(after, TradeCash(freed, tr))
    BY <1>8 DEF Fill, CanRelease
  <2>2. Ready(day, sim, cash) => tr \in TradeType
    BY <1>2, <2>1 DEF SimTyped, BookTyped, OrderTyped
  <2>3. Ready(day, sim, cash) => Good(day, freed, cash) /\ Covered(freed) /\ Archivable(freed)
    BY <1>2, <2>1, ReleaseKeeps, ReleaseCovered, ReleaseArchivable
  <2> HIDE DEF freed, tr
  <2>4. Ready(day, sim, cash) /\ ~after.broken => Archivable(after)
    BY <1>0, <2>1, <2>2, <2>3, TradeArchivable
  <2> HIDE DEF after
  <2>. QED
    BY <2>1, <2>4, BecomesArchives
<1>9. ASSUME NEW id \in ID, FillRefused(id) PROVE (Usable => Archivable(sim))'
  <2> DEFINE after == PutBack(Released(sim, id), id, sim.book.live[id])
  <2>1. id \in B!IDs(sim.book) /\ CanRelease(sim, id) /\ Becomes(after, 0)
    BY <1>9 DEF FillRefused, CanRelease
  <2>2. Ready(day, sim, cash) /\ ~after.broken => Archivable(after)
    BY <1>2, <2>1, PutBackArchivable
  <2> HIDE DEF after
  <2>. QED
    BY <2>1, <2>2, BecomesArchives
<1>10. ASSUME NEW price \in [Instruments -> Prices], Settle(price) PROVE (Usable => Archivable(sim))'
  <2>1. Good(day, sim, cash) /\ SimTyped(day, sim)
    BY <1>0, <1>2, <1>10 DEF Settle
  <2>2. price \in SettlementType /\ CanSettle(sim, price) /\ sim' = NextMorning(sim, price)
    BY <1>0, <1>10, <2>1, SettleComes
  <2>3. Archivable(NextMorning(sim, price))
    BY <1>0, <2>1, <2>2, SettleArchivable
  <2>. QED
    BY <2>2, <2>3
<1>11. CASE UNCHANGED vars
  BY <1>11 DEF Archiving, vars, Usable
<1>12. ASSUME NEW inst \in Instruments, NEW last \in Prices \cup {0}, NEW pre \in Prices \cup {0}
       PROVE  [last |-> last, pre |-> pre] \in [last : Nat, pre : Nat]
  BY InputsTyped
<1>. QED
  BY <1>3, <1>4, <1>5, <1>6, <1>7, <1>8, <1>9, <1>10, <1>11, <1>12 DEF Next

\* An archive that is true is taken back, but for the quotas.
LEMMA ArchivingRestores == Archiving => RestoredUnlessOvercharged
<1> SUFFICES ASSUME Ready(day, sim, cash)
             PROVE  /\ RestorableRest(sim, day)
                    /\ A!RestorableParts(sim.acc)
                    /\ \A x \in Sides : SideQuota(sim.quotas[x[1]][x[2]], sim.positions[x[1]][x[2]])
  BY DEF Archiving, Covering, Paying, Books, Ready, RestoredUnlessOvercharged, SideQuota
<1>1. /\ SimTyped(day, sim) /\ Balanced(sim, cash) /\ Covered(sim) /\ Healthy(sim.acc) /\ Numbered(sim.book)
      /\ Archivable(sim)
  BY DEF Ready, Good, Funded
<1>2. B!RestorableBook(B!ArchivedBook(sim.book))
  <2> DEFINE archive == B!ArchivedBook(sim.book)
  <2>1. archive.last = sim.book.last
        /\ \A e \in archive.entries : \E id \in B!IDs(sim.book) : e = [id |-> id, entry |-> sim.book.live[id]]
    BY DEF B!ArchivedBook
  <2> HIDE DEF archive
  <2>2. ASSUME NEW e \in archive.entries PROVE e.id # NoID /\ e.entry.sequence \in 1 .. archive.last
    <3>1. PICK id \in B!IDs(sim.book) : e = [id |-> id, entry |-> sim.book.live[id]]
      BY <2>1, <2>2
    <3>. QED
      BY <1>1, <2>1, <3>1 DEF Numbered, B!Sequence
  <2>3. ASSUME NEW e \in archive.entries, NEW f \in archive.entries, e # f
        PROVE  e.id # f.id /\ e.entry.sequence # f.entry.sequence
    <3>1. PICK a \in B!IDs(sim.book) : e = [id |-> a, entry |-> sim.book.live[a]]
      BY <2>1, <2>3
    <3>2. PICK b \in B!IDs(sim.book) : f = [id |-> b, entry |-> sim.book.live[b]]
      BY <2>1, <2>3
    <3>3. a # b
      BY <2>3, <3>1, <3>2
    <3>. QED
      BY <1>1, <3>1, <3>2, <3>3 DEF Numbered, B!Sequence
  <2>. QED
    BY <2>2, <2>3 DEF B!RestorableBook, archive
<1>3. sim.acc = Revalued(sim.acc, sim.positions, sim.prices)
  <2> DEFINE margin == HeldMargin(sim.positions, sim.prices)
             profit == Profit(sim.positions, sim.prices)
  <2>1. /\ sim.acc.currMargin = margin.company /\ sim.acc.exchangeMargin = margin.exchange
        /\ sim.acc.positionProfit = profit
    BY <1>1 DEF Archivable, Told, Balanced
  <2>2. sim.acc \in A!AccountType
    BY <1>1 DEF Healthy
  <2>3. Revalued(sim.acc, sim.positions, sim.prices)
          = [[sim.acc EXCEPT !.currMargin = margin.company, !.exchangeMargin = margin.exchange]
               EXCEPT !.positionProfit = profit]
    BY DEF Revalued, WithValuation, A!WithPositionProfit, A!WithMargin
  <2>4. ASSUME NEW a \in A!AccountType
        PROVE  /\ [a EXCEPT !.currMargin = a.currMargin, !.exchangeMargin = a.exchangeMargin] = a
               /\ [a EXCEPT !.positionProfit = a.positionProfit] = a
    BY <2>4 DEF A!AccountType, A!AccountOf
  <2> HIDE DEF margin, profit
  <2>. QED
    BY <2>1, <2>2, <2>3, <2>4
<1>4. RestorableRest(sim, day)
  BY <1>1, <1>2, <1>3
     DEF RestorableRest, SimTyped, PositionsTyped, Archivable, OrdersRestorable, Covered,
         FrozenFits, HeldFits, Held
<1>5. A!RestorableParts(sim.acc)
  BY <1>1 DEF Healthy, A!AccountType, A!AccountOf, A!RestorableParts
<1>6. ASSUME NEW x \in Sides PROVE SideQuota(sim.quotas[x[1]][x[2]], sim.positions[x[1]][x[2]])
  <2>1. x[1] \in Instruments /\ x[2] \in Directions
    BY <1>6 DEF Sides
  <2>. QED
    BY <1>1, <2>1 DEF Archivable, QuotasHold
<1>. QED
  BY <1>4, <1>5, <1>6

(***************************************************************************)
(* Whatever trades, orders, quotes, payments and evenings came, what State *)
(* gives out of a usable simulator Restore takes back: margins, profit and *)
(* frozen amounts are those it works out again, orders are as it would     *)
(* freeze them, lots cover them, and order numbers are in order.  What is  *)
(* left out is a previous balance below zero and quotas that explicit      *)
(* close-todays have overcharged (state.go State, Restore).                *)
(***************************************************************************)
THEOREM ArchivesAreTrue ==
  ASSUME OrdersMeanSomething
  PROVE  Spec => []RestoredUnlessOvercharged
BY InitArchiving, ArchivingInductive, ArchivingRestores, PTL DEF Spec
=============================================================================
