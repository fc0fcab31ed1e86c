--------------------------- MODULE PositionProofs ---------------------------
(***************************************************************************)
(* Proofs about Position.  What a call does to the lots of one side is     *)
(* proved in FacadeProofs; here it is put together over a position's days. *)
(***************************************************************************)
EXTENDS Position, FiniteSetTheorems, TLAPS

\* The lemmas on lots.  They are proved beside those on the facade, whose constants lots do
\* not depend on.
F == INSTANCE FacadeProofs
       WITH Instruments <- {}, Contract <- <<>>, MarkBasis <- "Last", Algorithm <- "All",
            FreezeBasis <- "AtOrderPrice", UndatedClose <- "Unmeasured", MaxSequence <- 0, NoID <- 0,
            Cent <- 1, FeeRounding <- "NoRounding", FeeBasis <- "TradePrice",
            MarginBasis <- "LastAll", SideScope <- "NoNetting"

\* The constants chosen are among those that the facade allows.
LEMMA FacadeAssumptions ==
  F!ContractTyped /\ F!SimulatorChoices /\ F!InstrumentsFinite /\ F!CentPositive /\ F!FeeChoices
    /\ F!MarginChoices
<1>1. F!InstrumentsFinite
  BY FS_EmptySet DEF F!InstrumentsFinite, F!IsFiniteSet, IsFiniteSet
<1>2. F!ContractTyped /\ F!SimulatorChoices
  BY DEF F!ContractTyped, F!SimulatorChoices
<1>3. F!CentPositive /\ F!FeeChoices /\ F!MarginChoices
  BY DEF F!CentPositive, F!FeeChoices, F!MarginChoices
<1>. QED
  BY <1>1, <1>2, <1>3

-----------------------------------------------------------------------------
(* Both modules mean the same by lots. *)

LEMMA SameSums ==
  /\ F!LotSet = LotSet
  /\ \A s : F!Total(s) = Total(s)
  /\ \A s, K : F!Picked(s, K) = Picked(s, K)
BY DEF F!LotSet, LotSet, F!Total, Total, F!Picked, Picked

LEMMA SameProfits ==
  ASSUME NEW lots, NEW dir, NEW price
  PROVE  /\ F!ByDate(lots, dir, price) = ByDate(lots, dir, price)
         /\ F!ByTrade(lots, dir, price) = ByTrade(lots, dir, price)
         /\ F!Drift(lots, dir) = Drift(lots, dir)
<1>1. F!LotDrift(dir) = LotDrift(dir)
  BY SameSums DEF F!LotDrift, LotDrift, F!Sign, Sign
<1>2. F!Drifts(lots, dir) = Drifts(lots, dir)
  BY <1>1 DEF F!Drifts, Drifts
<1>. QED
  BY <1>2, SameSums DEF F!ByDate, ByDate, F!ByTrade, ByTrade, F!Drift, Drift, F!Sign, Sign

LEMMA SameSides ==
  ASSUME NEW lots, NEW today, NEW price
  PROVE  /\ F!RestorableSide(today, lots) = RestorableSide(today, lots)
         /\ F!SettleAll(lots, price) = SettleAll(lots, price)
         /\ F!HistoryFirst(lots) <=> \A i, j \in DOMAIN lots : i < j /\ lots[j].settled => lots[i].settled
<1>1. F!RestorableSide(today, lots) = RestorableSide(today, lots)
  BY DEF F!RestorableSide, RestorableSide
<1>2. F!SettleAll(lots, price) = SettleAll(lots, price)
  BY DEF F!SettleAll, SettleAll
<1>. QED
  BY <1>1, <1>2 DEF F!HistoryFirst

LEMMA SameWalks ==
  ASSUME NEW lots, NEW offset, NEW order
  PROVE  F!Walk(lots, offset, order) = Walk(lots, offset, order)
BY SameSums DEF F!Walk, Walk, F!HistoryLots, HistoryLots, F!TodaysLots, TodaysLots

LEMMA SameClose ==
  ASSUME NEW lots, NEW offset, NEW volume, NEW order
  PROVE  F!CloseLots(lots, offset, volume, order) = CloseLots(lots, offset, volume, order)
<1>1. \A walk : F!Consume(lots, walk, volume) = Consume(lots, walk, volume)
  BY DEF F!Consume, Consume, F!TakeFrom, TakeFrom, F!Min, Min
<1>2. \A walked : F!Kept(walked) = Kept(walked)
  BY SameSums DEF F!Kept, Kept, F!DropEmpty, DropEmpty
<1>. QED
  BY <1>1, <1>2, SameWalks DEF F!CloseLots, CloseLots

-----------------------------------------------------------------------------
(* The lemmas, as they are used below. *)

\* The two profits of lots differ by their drift, whatever the price.
LEMMA ProfitsDiffer ==
  ASSUME NEW lots \in Seq(LotSet), NEW dir, NEW price \in Int
  PROVE  /\ ByTrade(lots, dir, price) \in Int /\ ByDate(lots, dir, price) \in Int
         /\ ByTrade(lots, dir, price) - ByDate(lots, dir, price) = Drift(lots, dir)
BY F!ProfitsDiffer, FacadeAssumptions, SameSums, SameProfits

\* The drift is a number, and what Position measures it by.
LEMMA DriftIsInt ==
  ASSUME NEW lots \in Seq(LotSet), NEW dir
  PROVE  Drift(lots, dir) \in Int /\ BasisDrift(lots, dir) = Drift(lots, dir)
<1>1. Drift(lots, dir) \in Int
  BY ProfitsDiffer
<1>. QED
  BY <1>1, ProfitsDiffer DEF BasisDrift

\* A lot opened today comes last and has not moved (position.go Open).
LEMMA OpenedLot ==
  ASSUME NEW lots \in Seq(LotSet), NEW today \in Int, RestorableSide(today, lots),
         NEW price \in Nat \ {0}, NEW volume \in Nat \ {0}
  PROVE  LET after == Append(lots, Lot(today, price, volume, price, FALSE)) IN
           /\ after \in Seq(LotSet) /\ RestorableSide(today, after)
           /\ \A dir : Drift(after, dir) = Drift(lots, dir)
<1>1. F!Lot(today, price, volume, price, FALSE) = Lot(today, price, volume, price, FALSE)
  BY DEF F!Lot, Lot
<1> DEFINE lot == F!Lot(today, price, volume, price, FALSE)
<1>2. lots \in Seq(F!LotSet) /\ F!RestorableSide(today, lots)
  BY SameSums, SameSides
<1>3. /\ Append(lots, lot) \in Seq(F!LotSet) /\ F!RestorableSide(today, Append(lots, lot))
      /\ \A dir : F!Drift(Append(lots, lot), dir) = F!Drift(lots, dir)
  BY <1>2, F!OpenedLot, FacadeAssumptions
<1> HIDE DEF lot
<1>4. lot = Lot(today, price, volume, price, FALSE)
  BY <1>1 DEF lot
<1>. QED
  BY <1>3, <1>4, SameSums, SameProfits, SameSides

\* What a close takes and what it leaves (position.go Close).
LEMMA ClosedLots ==
  ASSUME NEW lots \in Seq(LotSet), NEW today \in Int, RestorableSide(today, lots),
         NEW offset, NEW order, offset \in {"CloseToday", "CloseYesterday"} \/ order \in CloseOrders,
         NEW volume \in Nat
  PROVE  LET closed == CloseLots(lots, offset, volume, order) IN
           /\ closed.pieces \in Seq(LotSet) /\ closed.left \in Seq(LotSet)
           /\ RestorableSide(today, closed.left)
           /\ \A dir : Drift(closed.pieces, dir) + Drift(closed.left, dir) = Drift(lots, dir)
<1>1. F!CloseOrders = CloseOrders
  BY DEF F!CloseOrders, CloseOrders
<1> DEFINE closed == F!CloseLots(lots, offset, volume, order)
<1>2. lots \in Seq(F!LotSet) /\ F!RestorableSide(today, lots)
  BY SameSums, SameSides
<1>3. /\ closed.pieces \in Seq(F!LotSet) /\ closed.left \in Seq(F!LotSet)
      /\ F!RestorableSide(today, closed.left)
      /\ \A dir : F!Drift(closed.pieces, dir) + F!Drift(closed.left, dir) = F!Drift(lots, dir)
  BY <1>1, <1>2, F!ClosedLots, FacadeAssumptions
<1>4. closed = CloseLots(lots, offset, volume, order)
  BY SameClose
<1> HIDE DEF closed
<1>. QED
  BY <1>3, <1>4, SameSums, SameProfits, SameSides

\* The evening moves every basis to the settlement price (position.go Settle).
LEMMA SettledLots ==
  ASSUME NEW lots \in Seq(LotSet), NEW today \in Int, RestorableSide(today, lots), NEW price \in Nat \ {0}
  PROVE  LET after == SettleAll(lots, price) IN
           /\ after \in Seq(LotSet) /\ RestorableSide(today + 1, after)
           /\ \A dir : Drift(after, dir) = Drift(lots, dir) + ByDate(lots, dir, price)
<1> DEFINE after == F!SettleAll(lots, price)
<1>1. lots \in Seq(F!LotSet) /\ F!RestorableSide(today, lots)
  BY SameSums, SameSides
<1>2. /\ after \in Seq(F!LotSet) /\ F!RestorableSide(today + 1, after)
      /\ \A dir : F!Drift(after, dir) = F!Drift(lots, dir) + F!ByDate(lots, dir, price)
  BY <1>1, F!SettledLots, FacadeAssumptions
<1>3. after = SettleAll(lots, price)
  BY SameSides
<1> HIDE DEF after
<1>. QED
  BY <1>2, <1>3, SameSums, SameProfits, SameSides

\* On a side with its history lots first the two walks are one.
LEMMA SameWalk ==
  ASSUME NEW lots \in Seq(LotSet), \A i, j \in DOMAIN lots : i < j /\ lots[j].settled => lots[i].settled
  PROVE  Walk(lots, "Close", "YesterdayFirst") = Walk(lots, "Close", "FIFO")
BY F!SameWalk, FacadeAssumptions, SameWalks, SameSides

-----------------------------------------------------------------------------
(***************************************************************************)
(* The inductive invariant.  The drift of the lots held is the gap between *)
(* the two ways of booking; that a side is restorable is inductive with    *)
(* the types alone.                                                        *)
(***************************************************************************)
PInv ==
  /\ day \in Int /\ gap \in Int
  /\ side \in [Directions -> Seq(LotSet)]
  /\ AlwaysRestorable
  /\ gap = Drift(side["Buy"], "Buy") + Drift(side["Sell"], "Sell")

\* What Restore takes (restore.go).
LEMMA AcceptedLots ==
  ASSUME NEW lots \in Accepted
  PROVE  lots \in Seq(LotSet) /\ RestorableSide(FirstDay, lots)
<1> DEFINE Shape == [openDay : Int, openPrice : Int, volume : Int, basis : Int, settled : BOOLEAN]
<1>1. lots \in Seq(Shape) /\ RestorableSide(FirstDay, lots)
  BY ArchivesOfLots DEF Accepted
<1>2. ASSUME NEW i \in 1 .. Len(lots) PROVE lots[i] \in LotSet
  <2>1. lots[i] \in Shape
    <3> HIDE DEF Shape
    <3>. QED
      BY <1>1
  <2>2. lots[i].volume > 0
    BY <1>1 DEF RestorableSide
  <2>. QED
    BY <2>1, <2>2 DEF LotSet
<1>3. lots \in Seq(LotSet)
  <2> HIDE DEF Shape
  <2>. QED
    BY <1>1, <1>2
<1>. QED
  BY <1>1, <1>3

\* New and restored positions.
LEMMA InitPInv == Init => PInv
<1> SUFFICES ASSUME Init PROVE PInv
  OBVIOUS
<1>1. ASSUME NEW dir \in Directions PROVE side[dir] \in Seq(LotSet) /\ RestorableSide(FirstDay, side[dir])
  <2>1. side[dir] \in Accepted \/ side[dir] = <<>>
    BY DEF Init
  <2>2. <<>> \in Seq(LotSet) /\ RestorableSide(FirstDay, <<>>)
    BY DEF RestorableSide
  <2>. QED
    BY <2>1, <2>2, AcceptedLots
<1>2. side \in [Directions -> Seq(LotSet)]
  <2>1. side = [dir \in Directions |-> side[dir]]
    BY DEF Init
  <2>. QED
    BY <1>1, <2>1
<1>3. day = FirstDay /\ day \in Int
  BY DaysOrdered DEF Init
<1>4. side["Buy"] \in Seq(LotSet) /\ side["Sell"] \in Seq(LotSet)
  BY <1>1 DEF Directions
<1>5. gap = Drift(side["Buy"], "Buy") + Drift(side["Sell"], "Sell")
  BY <1>4, DriftIsInt DEF Init
<1>6. gap \in Int
  BY <1>4, <1>5, DriftIsInt
<1>. QED
  BY <1>1, <1>2, <1>3, <1>5, <1>6 DEF PInv, AlwaysRestorable

\* What changes one side and the gap by as much keeps the invariant.
LEMMA OneSide ==
  ASSUME PInv, NEW dir \in Directions, NEW after \in Seq(LotSet), RestorableSide(day, after),
         side' = [side EXCEPT ![dir] = after], day' = day,
         gap' = gap + Drift(after, dir) - Drift(side[dir], dir)
  PROVE  PInv'
<1>1. side \in [Directions -> Seq(LotSet)] /\ day \in Int /\ gap \in Int
  BY DEF PInv
<1>2. side' \in [Directions -> Seq(LotSet)] /\ side'[dir] = after /\ \A d \in Directions : d # dir => side'[d] = side[d]
  BY <1>1
<1>3. \A d \in Directions : RestorableSide(day, side'[d])
  BY <1>2 DEF PInv, AlwaysRestorable
<1>4. \A d \in Directions : Drift(side[d], d) \in Int /\ Drift(side'[d], d) \in Int
  BY <1>1, <1>2, DriftIsInt
<1>5. gap' = Drift(side'["Buy"], "Buy") + Drift(side'["Sell"], "Sell") /\ gap' \in Int
  <2>1. gap = Drift(side["Buy"], "Buy") + Drift(side["Sell"], "Sell")
    BY DEF PInv
  <2>2. "Buy" \in Directions /\ "Sell" \in Directions /\ (dir = "Buy" \/ dir = "Sell")
    BY DEF Directions
  <2>3. CASE dir = "Buy"
    BY <1>2, <1>4, <2>1, <2>2, <2>3
  <2>4. CASE dir = "Sell"
    BY <1>2, <1>4, <2>1, <2>2, <2>4
  <2>. QED
    BY <2>2, <2>3, <2>4
<1>. QED
  BY <1>1, <1>2, <1>3, <1>5 DEF PInv, AlwaysRestorable

\* Opening keeps the invariant (position.go Open).
LEMMA OpenKeeps ==
  ASSUME PInv, NEW dir \in Directions, NEW price \in Prices, NEW volume \in Volumes, Open(dir, price, volume)
  PROVE  PInv'
<1> DEFINE after == Append(side[dir], Lot(day, price, volume, price, FALSE))
<1>1. side[dir] \in Seq(LotSet) /\ RestorableSide(day, side[dir]) /\ day \in Int /\ gap \in Int
  BY DEF PInv, AlwaysRestorable
<1>2. price \in Nat \ {0} /\ volume \in Nat \ {0}
  BY PricesPositive, VolumesPositive
<1>3. after \in Seq(LotSet) /\ RestorableSide(day, after) /\ \A d : Drift(after, d) = Drift(side[d], d) \/ d # dir
  <2>1. after \in Seq(LotSet) /\ RestorableSide(day, after) /\ \A d : Drift(after, d) = Drift(side[dir], d)
    BY <1>1, <1>2, OpenedLot
  <2> HIDE DEF after
  <2>. QED
    BY <2>1
<1>4. side' = [side EXCEPT ![dir] = after] /\ day' = day /\ gap' = gap
  BY DEF Open
<1>5. Drift(side[dir], dir) \in Int
  BY <1>1, DriftIsInt
<1> HIDE DEF after
<1>6. gap' = gap + Drift(after, dir) - Drift(side[dir], dir)
  BY <1>1, <1>3, <1>4, <1>5
<1>. QED
  BY <1>3, <1>4, <1>6, OneSide

\* Closing keeps the invariant (position.go Close).
LEMMA CloseKeeps ==
  ASSUME PInv, NEW dir \in Directions, NEW price \in Prices, NEW volume \in Volumes,
         NEW offset, NEW order, offset \in DatedOffsets \/ order \in CloseOrders,
         Close(dir, offset, price, volume, order)
  PROVE  PInv'
<1> DEFINE closed == CloseLots(side[dir], offset, volume, order)
<1>1. side[dir] \in Seq(LotSet) /\ RestorableSide(day, side[dir]) /\ day \in Int /\ gap \in Int
  BY DEF PInv, AlwaysRestorable
<1>2. price \in Int /\ volume \in Nat
  BY PricesPositive, VolumesPositive
<1>3. /\ closed.pieces \in Seq(LotSet) /\ closed.left \in Seq(LotSet)
      /\ RestorableSide(day, closed.left)
      /\ Drift(closed.pieces, dir) + Drift(closed.left, dir) = Drift(side[dir], dir)
  <2>1. offset \in {"CloseToday", "CloseYesterday"} \/ order \in CloseOrders
    BY DEF DatedOffsets
  <2>. QED
    BY <1>1, <1>2, <2>1, ClosedLots
<1>4. /\ side' = [side EXCEPT ![dir] = closed.left] /\ day' = day
      /\ gap' = gap + ByDate(closed.pieces, dir, price) - ByTrade(closed.pieces, dir, price)
  BY DEF Close
<1> HIDE DEF closed
<1>5. /\ ByTrade(closed.pieces, dir, price) \in Int /\ ByDate(closed.pieces, dir, price) \in Int
      /\ ByTrade(closed.pieces, dir, price) - ByDate(closed.pieces, dir, price) = Drift(closed.pieces, dir)
  BY <1>2, <1>3, ProfitsDiffer
<1>6. Drift(closed.pieces, dir) \in Int /\ Drift(closed.left, dir) \in Int /\ Drift(side[dir], dir) \in Int
  BY <1>1, <1>3, DriftIsInt
<1>7. gap' = gap + Drift(closed.left, dir) - Drift(side[dir], dir)
  BY <1>1, <1>3, <1>4, <1>5, <1>6
<1>. QED
  BY <1>3, <1>4, <1>7, OneSide

\* The evening keeps the invariant (position.go Settle).
LEMMA SettleKeeps ==
  ASSUME PInv, NEW price \in Prices, Settle(price)
  PROVE  PInv'
<1> DEFINE after(dir) == SettleAll(side[dir], price)
<1>1. ASSUME NEW dir \in Directions
      PROVE  /\ side[dir] \in Seq(LotSet) /\ side'[dir] \in Seq(LotSet)
             /\ RestorableSide(day', side'[dir])
             /\ Drift(side'[dir], dir) = Drift(side[dir], dir) + ByDate(side[dir], dir, price)
             /\ Drift(side[dir], dir) \in Int /\ ByDate(side[dir], dir, price) \in Int
  <2>1. side[dir] \in Seq(LotSet) /\ RestorableSide(day, side[dir]) /\ day \in Int
    BY DEF PInv, AlwaysRestorable
  <2>2. price \in Nat \ {0} /\ price \in Int
    BY PricesPositive
  <2>3. /\ after(dir) \in Seq(LotSet) /\ RestorableSide(day + 1, after(dir))
        /\ Drift(after(dir), dir) = Drift(side[dir], dir) + ByDate(side[dir], dir, price)
    BY <2>1, <2>2, SettledLots
  <2>4. side'[dir] = after(dir) /\ day' = day + 1
    BY DEF Settle
  <2> HIDE DEF after
  <2>5. ByDate(side[dir], dir, price) \in Int /\ Drift(side[dir], dir) \in Int
    BY <2>1, <2>2, ProfitsDiffer, DriftIsInt
  <2>. QED
    BY <2>1, <2>3, <2>4, <2>5
<1>2. side' \in [Directions -> Seq(LotSet)]
  <2>1. side' = [dir \in Directions |-> side'[dir]]
    BY DEF Settle
  <2>. QED
    BY <1>1, <2>1
<1>3. day' \in Int
  BY DEF PInv, Settle
<1>4. gap' = Drift(side'["Buy"], "Buy") + Drift(side'["Sell"], "Sell") /\ gap' \in Int
  <2>1. gap = Drift(side["Buy"], "Buy") + Drift(side["Sell"], "Sell") /\ gap \in Int
    BY DEF PInv
  <2>2. gap' = gap + ByDate(side["Buy"], "Buy", price) + ByDate(side["Sell"], "Sell", price)
    BY DEF Settle
  <2>3. "Buy" \in Directions /\ "Sell" \in Directions
    BY DEF Directions
  <2>. QED
    BY <1>1, <2>1, <2>2, <2>3
<1>. QED
  BY <1>1, <1>2, <1>3, <1>4 DEF PInv, AlwaysRestorable

\* Every step keeps the invariant.
LEMMA PInvInductive == PInv /\ [Next]_vars => PInv'
<1> SUFFICES ASSUME PInv, [Next]_vars PROVE PInv'
  OBVIOUS
<1>1. ASSUME NEW dir \in Directions, NEW price \in Prices, NEW volume \in Volumes, Open(dir, price, volume)
      PROVE  PInv'
  BY <1>1, OpenKeeps
<1>2. ASSUME NEW dir \in Directions, NEW price \in Prices, NEW volume \in Volumes, NEW order \in CloseOrders,
             Close(dir, "Close", price, volume, order)
      PROVE  PInv'
  BY <1>2, CloseKeeps
<1>3. ASSUME NEW dir \in Directions, NEW price \in Prices, NEW volume \in Volumes, NEW offset \in DatedOffsets,
             Close(dir, offset, price, volume, "Unmeasured")
      PROVE  PInv'
  BY <1>3, CloseKeeps
<1>4. ASSUME NEW price \in Prices, Settle(price) PROVE PInv'
  BY <1>4, SettleKeeps
<1>5. CASE UNCHANGED vars
  BY <1>5 DEF vars, PInv, AlwaysRestorable
<1>. QED
  BY <1>1, <1>2, <1>3, <1>4, <1>5 DEF Next

(***************************************************************************)
(* AlwaysRestorable, for every set of prices, volumes and archives: opens, *)
(* closes of any offset in any order and evenings leave sides that Restore *)
(* takes back (position/restore.go).                                       *)
(***************************************************************************)
THEOREM SidesRestorable == Spec => []AlwaysRestorable
<1>1. PInv => AlwaysRestorable
  BY DEF PInv
<1>. QED
  BY <1>1, InitPInv, PInvInductive, PTL DEF Spec

(***************************************************************************)
(* TwoBasesAgree: what is booked by day and what is booked by trade differ *)
(* by the drift of the lots still held, through splits, partial closes and *)
(* rolls (position/lot.go, pnl/pnl.go).                                    *)
(***************************************************************************)
THEOREM ProfitsAgree == Spec => []TwoBasesAgree
<1>1. PInv => TwoBasesAgree
  <2> SUFFICES ASSUME PInv PROVE TwoBasesAgree
    OBVIOUS
  <2>1. side["Buy"] \in Seq(LotSet) /\ side["Sell"] \in Seq(LotSet)
    BY DEF PInv, Directions
  <2>. QED
    BY <2>1, DriftIsInt DEF PInv, TwoBasesAgree
<1>. QED
  BY <1>1, InitPInv, PInvInductive, PTL DEF Spec

(***************************************************************************)
(* YesterdayFirstIsFIFO, because history comes first on every side that    *)
(* can be reached: both orders walk the lots from the first to the last    *)
(* (position/position.go, the comment beside CloseOrder).                  *)
(***************************************************************************)
THEOREM OldestFirstIsHistoryFirst == Spec => []YesterdayFirstIsFIFO
<1>1. PInv => YesterdayFirstIsFIFO
  <2> SUFFICES ASSUME PInv, NEW dir \in Directions, NEW volume \in 1 .. Volume(side[dir])
               PROVE  CloseLots(side[dir], "Close", volume, "YesterdayFirst")
                        = CloseLots(side[dir], "Close", volume, "FIFO")
    BY DEF YesterdayFirstIsFIFO
  <2>1. side[dir] \in Seq(LotSet)
        /\ \A i, j \in DOMAIN side[dir] : i < j /\ side[dir][j].settled => side[dir][i].settled
    BY DEF PInv, AlwaysRestorable, RestorableSide
  <2>2. Walk(side[dir], "Close", "YesterdayFirst") = Walk(side[dir], "Close", "FIFO")
    BY <2>1, SameWalk
  <2>. QED
    BY <2>2, Zenon DEF CloseLots
<1>. QED
  BY <1>1, InitPInv, PInvInductive, PTL DEF Spec
=============================================================================
