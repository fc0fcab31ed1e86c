-------------------------------- MODULE Lots --------------------------------
(***************************************************************************)
(* Lots: the open-lot list of one side of one position (position/lot.go)   *)
(* and the ways the library consumes it (position/position.go).            *)
(*                                                                         *)
(* A side is a sequence of lots in the order they were opened.  A lot      *)
(* carries two prices because two profit conventions exist side by side:   *)
(* openPrice (never changes) and basis (moved to the settlement price      *)
(* every evening).  "settled" says whether the lot has lived through a     *)
(* settlement, which is what makes it a history lot; the open day is not   *)
(* what decides it.                                                        *)
(***************************************************************************)
EXTENDS Integers, FiniteSetsExt, Sequences

Lot(openDay, openPrice, volume, basis, settled) ==
  [openDay |-> openDay, openPrice |-> openPrice, volume |-> volume,
   basis |-> basis, settled |-> settled]

\* The sum of a sequence of numbers, and the members of a sequence at the places in K.
Total(s) ==
  LET sum[i \in 0 .. Len(s)] == IF i = 0 THEN 0 ELSE sum[i - 1] + s[i] IN sum[Len(s)]

Picked(s, K) ==
  LET picked[i \in 0 .. Len(s)] ==
        IF i = 0 THEN <<>> ELSE IF i \in K THEN Append(picked[i - 1], s[i]) ELSE picked[i - 1]
  IN  picked[Len(s)]

HistoryLots(lots) == {i \in DOMAIN lots : lots[i].settled}
TodaysLots(lots)  == {i \in DOMAIN lots : ~lots[i].settled}

VolumeWhere(lots, K) == Total([i \in DOMAIN lots |-> IF i \in K THEN lots[i].volume ELSE 0])
Volume(lots)         == VolumeWhere(lots, DOMAIN lots)
VolumeToday(lots)    == VolumeWhere(lots, TodaysLots(lots))
VolumeHistory(lots)  == VolumeWhere(lots, HistoryLots(lots))

DropEmpty(lots) == Picked(lots, {i \in DOMAIN lots : lots[i].volume > 0})

CloseOrders == {"YesterdayFirst", "TodayFirst", "FIFO"}

(***************************************************************************)
(* The indexes of the lots a close may use, in the order it walks them: an *)
(* offset that does not say which lots it means goes by the close order.   *)
(***************************************************************************)
Walk(lots, offset, order) ==
  LET index   == [i \in DOMAIN lots |-> i]
      history == Picked(index, HistoryLots(lots))
      today   == Picked(index, TodaysLots(lots))
  IN  CASE offset = "CloseToday"     -> today
        [] offset = "CloseYesterday" -> history
        [] OTHER -> CASE order = "YesterdayFirst" -> history \o today
                      [] order = "TodayFirst"     -> today \o history
                      [] order = "FIFO"           -> index

\* One step of the walk: what is still wanted is taken from the i-th lot.
TakeFrom(walked, i) ==
  LET taken == Min({walked.left[i].volume, walked.wanted}) IN
  [wanted |-> walked.wanted - taken,
   pieces |-> Append(walked.pieces, [walked.left[i] EXCEPT !.volume = taken]),
   left   |-> [walked.left EXCEPT ![i].volume = @ - taken]]

Consume(lots, walk, volume) ==
  LET walked[k \in 0 .. Len(walk)] ==
        IF k = 0 THEN [wanted |-> volume, pieces |-> <<>>, left |-> lots]
                 ELSE TakeFrom(walked[k - 1], walk[k])
  IN  walked[Len(walk)]

\* The consumed pieces in the order of the walk, and what is left of the side.
Kept(walked) == [pieces |-> DropEmpty(walked.pieces), left |-> DropEmpty(walked.left)]

\* Close refuses more lots than the offset may use.
Closable(lots, offset, volume) ==
  CASE offset = "CloseToday"     -> volume <= VolumeToday(lots)
    [] offset = "CloseYesterday" -> volume <= VolumeHistory(lots)
    [] OTHER                     -> volume <= Volume(lots)

CloseLots(lots, offset, volume, order) ==
  Kept(Consume(lots, Walk(lots, offset, order), volume))

\* Faulty variant: the base price moves and no lot is marked as history.
SettleAllRebaseOnly(lots, price) ==
  [i \in DOMAIN lots |-> [lots[i] EXCEPT !.basis = price]]

\* Faulty variant: lots that are history already keep yesterday's base price.
SettleAllTodayOnly(lots, price) ==
  [i \in DOMAIN lots |-> IF lots[i].settled THEN lots[i]
                          ELSE [lots[i] EXCEPT !.basis = price, !.settled = TRUE]]

\* The evening roll: every lot becomes a history lot on the settlement price.
SettleAll(lots, price) ==
  [i \in DOMAIN lots |-> [lots[i] EXCEPT !.basis = price, !.settled = TRUE]]

\* Faulty variant: the order of history and today lots is not looked at.
RestorableSideAnyOrder(day, lots) ==
  \A i \in DOMAIN lots :
    /\ lots[i].volume > 0
    /\ lots[i].openPrice > 0
    /\ lots[i].basis > 0
    /\ IF lots[i].settled THEN lots[i].openDay < day ELSE lots[i].openDay = day

(***************************************************************************)
(* What Restore demands of an archived side before it is believed.         *)
(***************************************************************************)
RestorableSide(day, lots) ==
  /\ \A i \in DOMAIN lots :
       /\ lots[i].volume > 0
       /\ lots[i].openPrice > 0
       /\ lots[i].basis > 0
       /\ IF lots[i].settled THEN lots[i].openDay < day ELSE lots[i].openDay = day
  /\ \A i, j \in DOMAIN lots : i < j /\ lots[j].settled => lots[i].settled

-----------------------------------------------------------------------------
(***************************************************************************)
(* Profit of a list of lots or consumed pieces (pnl/pnl.go).  Sign is +1   *)
(* for a long side and -1 for a short one.  The contract multiplier is a   *)
(* common positive factor and is 1 here.                                   *)
(***************************************************************************)
Sign(dir) == IF dir = "Buy" THEN 1 ELSE -1

\* Daily mark-to-market: against the basis.
ByDate(lots, dir, price) ==
  Total([i \in DOMAIN lots |-> (price - lots[i].basis) * lots[i].volume * Sign(dir)])

\* Trade by trade: against the original opening price.
ByTrade(lots, dir, price) ==
  Total([i \in DOMAIN lots |-> (price - lots[i].openPrice) * lots[i].volume * Sign(dir)])

-----------------------------------------------------------------------------
(* How far the bases of lots have moved from their opening prices, times   *)
(* their volumes: the difference of the two profits, whatever the price.   *)
LotSet == [openDay : Int, openPrice : Int, volume : Nat, basis : Int, settled : BOOLEAN]

LotDrift(dir) == [lot \in LotSet |-> (lot.basis - lot.openPrice) * lot.volume * Sign(dir)]
Drifts(lots, dir) == [i \in 1 .. Len(lots) |-> LotDrift(dir)[lots[i]]]
Drift(lots, dir) == Total(Drifts(lots, dir))
=============================================================================
