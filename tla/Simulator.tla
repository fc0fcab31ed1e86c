----------------------------- MODULE Simulator -----------------------------
(***************************************************************************)
(* The simulator over several trading days: money in and out, quotes,      *)
(* trades that have happened, orders a counter has accepted, their         *)
(* cancellation and filling, and the evening.  Calls the code refuses      *)
(* leave the state alone and are left out, with one exception: a refused   *)
(* fill takes the order off the book first and has to put it back.         *)
(***************************************************************************)
EXTENDS SimulatorOps

CONSTANTS
  ID,            \* ids of orders
  Starts,        \* simulators a run starts from, new or restored
  Requests,      \* trades that happen and orders that are accepted
  Prices,        \* prices that are quoted and settle
  Amounts,       \* deposits and withdrawals
  LastDay,       \* bound: no settlement beyond this day
  MaxLots,       \* bound: lots held on one side
  MaxTrades,     \* bound: trades of one day
  MaxFlow        \* bound: money paid in, and out, of one day

ASSUME InputsTyped ==
  /\ Requests \subseteq TradeType
  /\ Prices \subseteq Nat \ {0} /\ Amounts \subseteq Nat \ {0}
ASSUME StartsTyped == \A s \in Starts : Readable(s)

\* No archive that a run starts from holds a close without a meaning or without lots.
OrdersMeanSomething == \A s \in Starts : OrdersMean(s)

VARIABLES
  day,    \* trading day of the account, 1 at the start
  sim,    \* the simulator
  cash    \* history: what the client would own if every lot were sold at its opening price

vars == <<day, sim, cash>>

\* Profit of all held lots since they were opened.
OpenProfit(s) ==
  SumFunction([x \in Sides |-> ByTrade(s.positions[x[1]][x[2]], x[2], MarkPrice(s.prices[x[1]]))])

Init ==
  /\ day = 1
  /\ sim \in {s \in Starts : Restorable(s, 1)}
  /\ cash = A!Balance(sim.acc) - OpenProfit(sim)

Usable == ~sim.broken

\* The bounds, on the simulator after a step.
Within(s) ==
  /\ \A x \in Sides : Volume(s.positions[x[1]][x[2]]) <= MaxLots
  /\ s.acc.commissionTrades <= MaxTrades
  /\ s.acc.deposit <= MaxFlow /\ s.acc.withdraw <= MaxFlow

\* A usable simulator becomes s, and the client's cash changes by amount.
Becomes(s, amount) ==
  /\ Usable
  /\ Within(s)
  /\ sim' = s
  /\ cash' = cash + amount
  /\ day' = day

Deposit(amount) ==
  A!CanDeposit(amount) /\ Becomes([sim EXCEPT !.acc = A!Deposited(@, amount)], amount)

Withdraw(amount) ==
  A!CanWithdraw(sim.acc, amount) /\ Becomes([sim EXCEPT !.acc = A!Withdrawn(@, amount)], -amount)

Mark(inst, quote) == CanMark(sim, inst, quote) /\ Becomes(Marked(sim, inst, quote), 0)

ApplyTrade(tr) ==
  /\ CanTrade(sim, day, tr)
  /\ Becomes(Traded(sim, day, tr), TradeCash(sim, tr))

PlaceAccepted(id, request) ==
  CanPlace(sim, id, request) /\ Becomes(Placed(sim, id, request), 0)

Cancel(id) == CanRelease(sim, id) /\ Becomes(Released(sim, id), 0)

\* A fill that goes through: the order leaves the book, its trade is applied.
Fill(id) ==
  /\ CanRelease(sim, id)
  /\ LET freed == Released(sim, id)
         tr    == TradeOf(sim.book.live[id].order)
     IN  CanTrade(freed, day, tr) /\ Becomes(Traded(freed, day, tr), TradeCash(freed, tr))

\* A fill that is refused when the order is off the book already.
FillRefused(id) ==
  /\ CanRelease(sim, id)
  /\ ~CanTrade(Released(sim, id), day, TradeOf(sim.book.live[id].order))
  /\ Becomes(PutBack(Released(sim, id), id, sim.book.live[id]), 0)

\* The fees become those of the settlement.  Nothing asks a broken simulator its day.
Settle(price) ==
  /\ Usable
  /\ day < LastDay
  /\ CanSettle(sim, price)
  /\ day' = day + 1
  /\ sim' = Settled(sim, price)
  /\ cash' = cash + sim.acc.commission - sim.acc.settleCommission

Next ==
  \/ \E amount \in Amounts : Deposit(amount) \/ Withdraw(amount)
  \/ \E inst \in Instruments : \E last, pre \in Prices \cup {0} :
       Mark(inst, [last |-> last, pre |-> pre])
  \/ \E tr \in Requests : ApplyTrade(tr)
  \/ \E id \in ID : \/ \E request \in Requests : PlaceAccepted(id, request)
                    \/ Cancel(id)
                    \/ Fill(id)
                    \/ FillRefused(id)
  \/ \E price \in [Instruments -> Prices] : Settle(price)

Spec == Init /\ [][Next]_vars

-----------------------------------------------------------------------------
(***************************************************************************)
(* Once an order that closes is live, the lots it needs stay there: if it  *)
(* were filled now, after whatever other orders and trades came between,   *)
(* the split would find its lots and leave those of every other order      *)
(* (place.go PlaceAccepted, trade.go ApplyTrade, undatedSplit).            *)
(***************************************************************************)
LotsForEveryOrder ==
  Usable => \A id \in B!IDs(sim.book) :
    LET tr    == DatedTrade(TradeOf(sim.book.live[id].order))
        freed == [sim EXCEPT !.book = B!Remove(@, id)]
        held  == Opposite(tr.dir)
      IN  TakesFreeLots(freed, tr)

(***************************************************************************)
(* The day-by-day book-keeping comes to the trade-by-trade truth: the      *)
(* balance, built from settlements, bases and closes against the basis, is *)
(* the cash the client would have if every lot had been booked against its *)
(* opening price, plus what the held lots have earned since they were      *)
(* opened (settle.go, trade.go, pnl/pnl.go).                               *)
(***************************************************************************)
EquityIsTradeProfit == Usable => A!Balance(sim.acc) = cash + OpenProfit(sim)

(***************************************************************************)
(* A simulator that is not broken can be saved and restored, except when   *)
(* its day began overdrawn, or when explicit close-todays, which need no   *)
(* quota, made a side's charges exceed what it opened (state.go).          *)
(***************************************************************************)
RestoredUnlessOvercharged ==
  Usable =>
    /\ RestorableRest(sim, day)
    /\ A!RestorableParts(sim.acc)
    /\ \A x \in Sides : LET q == sim.quotas[x[1]][x[2]] IN
         /\ q.explicit <= q.charged
         /\ q.charged - q.explicit <= q.opened
         /\ VolumeToday(sim.positions[x[1]][x[2]]) <= q.opened

(***************************************************************************)
(* Only one thing breaks a simulator: a refused fill whose order the       *)
(* client can no longer pay for.  No account step refuses what a trade, a  *)
(* quote or an evening tells it: no charge, no margin of the day or of the *)
(* morning, no check (trade.go commit, settle.go, place.go Fill).          *)
(***************************************************************************)
BrokenOnlyWhenFundsShort ==
  [][sim'.broken =>
       \E id \in B!IDs(sim.book) :
         LET order == sim.book.live[id].order IN
         order.margin + order.commission > A!Available(Released(sim, id).acc)]_vars

-----------------------------------------------------------------------------
(* Claims of the repository that the code does not keep. *)

(***************************************************************************)
(* "State() exports everything and Restore() puts it back as it was"       *)
(* (docs/design.md), for a client that is not overdrawn.                   *)
(***************************************************************************)
QuotasTakenBack == Usable => RestorableQuotas(sim)

(***************************************************************************)
(* The evening prices everything at the settlement price, "whatever        *)
(* Choices.Mark says" (settle.go).                                         *)
(***************************************************************************)
SettlementTakesAllProfit ==
  [][day' # day =>
       A!Balance(sim'.acc) = cash'
         + SumFunction([x \in Sides |->
             ByTrade(sim'.positions[x[1]][x[2]], x[2], sim'.prices[x[1]].last)])]_vars
=============================================================================
