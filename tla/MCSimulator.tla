---------------------------- MODULE MCSimulator ----------------------------
(***************************************************************************)
(* Contracts, starting simulators and choices of the runs of Simulator.    *)
(* Two units make one cent, so an opening fee of 1 per unit of price is    *)
(* worth half cents at an odd price and the settlement's fee differs.      *)
(***************************************************************************)
EXTENDS Simulator

CONSTANTS m, n, orderA, orderB      \* two instruments of one product, two orders

Rate(byMoney, byVolume) == [byMoney |-> byMoney, byVolume |-> byVolume]

\* An instrument whose undated closes are charged by quota, at two rates.
Dalian ==
  [product |-> "p", dateType |-> "NoUseHistory", measured |-> TRUE, maxMarginSide |-> TRUE,
   fee |-> [o \in {"Open", "Close", "CloseToday"} |->
              CASE o = "Open" -> Rate(1, 0) [] o = "Close" -> Rate(0, 2) [] OTHER -> Rate(0, 4)],
   margin |-> [d \in {"Buy", "Sell"} |-> IF d = "Buy" THEN Rate(1, 0) ELSE Rate(2, 1)],
   addOn |-> 1]

DalianContract   == [i \in Instruments |-> Dalian]

\* A simulator restored with the given lots of instrument m, bought at 2 and settled at 3.
With(preBalance, dir, lots) ==
  LET bare == [NewSimulator(preBalance) EXCEPT
                 !.positions[m][dir] = lots,
                 !.prices[m] = [last |-> 3, pre |-> 3]]
  IN  [bare EXCEPT !.acc = Revalued(@, bare.positions, bare.prices)]

HistoryLot == Lot(0, 2, 1, 3, TRUE)

Restored == With(20, "Buy", <<HistoryLot>>)
Short    == With(14, "Sell", <<HistoryLot>>)
Poor     == With(11, "Buy", <<HistoryLot>>)

Request(inst, dir, offset, price, volume) ==
  [inst |-> inst, dir |-> dir, offset |-> offset, price |-> price, volume |-> volume]

\* Long lots of m, opened at 3, closed undated at 2 and as today lots at 3.
DalianStarts == {Restored, Poor}
DalianRequests ==
  {Request(m, "Buy", "Open", 3, 1)}
    \cup {Request(m, "Sell", "Close", 2, volume) : volume \in {1, 2}}
    \cup {Request(m, "Sell", "CloseToday", 3, 1)}

\* What SimulatorProofs assumes of archives when it follows the lots of orders.
ASSUME StartsMeanSomething == OrdersMeanSomething
\* And of fees when it looks for what breaks a simulator.
ASSUME FeesAreWholeCents == FeesInCents
=============================================================================
