------------------------------ MODULE Position ------------------------------
(***************************************************************************)
(* One position: the long and the short side of one instrument under one   *)
(* hedge flag (position/position.go, restore.go).  Sides never net against *)
(* each other.  A position starts empty (New) or from an archive whose     *)
(* lots passed Restore, which is the one entrance through which lots that  *)
(* were not built by Open and Settle can come in.                          *)
(*                                                                         *)
(* Every operation names a trading day and is refused unless it is the     *)
(* day the position stands on; the model leaves the refused calls out.     *)
(***************************************************************************)
EXTENDS Lots

CONSTANTS
  Prices,      \* prices that trade and settle
  Volumes,     \* volumes of one trade
  Archives,    \* candidate archived sides; Restore decides which it takes
  FirstDay,    \* trading day of the first state
  LastDay,     \* bound: no settlement beyond this day
  MaxVolume    \* bound: lots held on one side

ASSUME PricesPositive  == \A price \in Prices : price \in Nat \ {0}
ASSUME VolumesPositive == \A volume \in Volumes : volume \in Nat \ {0}
ASSUME ArchivesOfLots  ==
  Archives \subseteq Seq([openDay : Int, openPrice : Int, volume : Int, basis : Int, settled : BOOLEAN])
ASSUME DaysOrdered     == FirstDay \in Nat /\ LastDay \in Nat /\ FirstDay <= LastDay

VARIABLES
  day,    \* trading day the position stands on
  side,   \* direction held -> sequence of lots
  gap     \* history: profit booked so far by day minus profit booked by trade

vars == <<day, side, gap>>

Directions   == {"Buy", "Sell"}
DatedOffsets == {"CloseToday", "CloseYesterday"}

\* How far the bases of the lots still held have moved from their open prices.
BasisDrift(lots, dir) == ByTrade(lots, dir, 0) - ByDate(lots, dir, 0)

Accepted == {lots \in Archives : RestorableSide(FirstDay, lots)}

Init ==
  /\ day = FirstDay
  /\ side \in [Directions -> Accepted \cup {<<>>}]
  /\ gap = BasisDrift(side["Buy"], "Buy") + BasisDrift(side["Sell"], "Sell")

Open(dir, price, volume) ==
  /\ Volume(side[dir]) + volume <= MaxVolume
  /\ side' = [side EXCEPT ![dir] = Append(@, Lot(day, price, volume, price, FALSE))]
  /\ UNCHANGED <<day, gap>>

(***************************************************************************)
(* Close takes the lots the offset allows.  Over-closing is refused, never *)
(* turned into a position on the other side.  Only an offset that does not *)
(* say which lots it means looks at the close order.                       *)
(***************************************************************************)
Close(dir, offset, price, volume, order) ==
  /\ Closable(side[dir], offset, volume)
  /\ LET closed == CloseLots(side[dir], offset, volume, order) IN
       /\ side' = [side EXCEPT ![dir] = closed.left]
       /\ gap' = gap + ByDate(closed.pieces, dir, price) - ByTrade(closed.pieces, dir, price)
  /\ UNCHANGED day

\* Settle books the move of every basis to the settlement price and rolls.
Settle(price) ==
  /\ day < LastDay
  /\ day' = day + 1
  /\ side' = [dir \in Directions |-> SettleAll(side[dir], price)]
  /\ gap' = gap + ByDate(side["Buy"], "Buy", price) + ByDate(side["Sell"], "Sell", price)

Next ==
  \/ \E dir \in Directions, price \in Prices, volume \in Volumes :
       \/ Open(dir, price, volume)
       \/ \E order \in CloseOrders : Close(dir, "Close", price, volume, order)
       \/ \E offset \in DatedOffsets : Close(dir, offset, price, volume, "Unmeasured")
  \/ \E price \in Prices : Settle(price)

Spec == Init /\ [][Next]_vars

-----------------------------------------------------------------------------
(***************************************************************************)
(* Whatever trades and settlements a position has lived through, its       *)
(* archive is one that Restore takes back: no empty lot survives a close,  *)
(* every settled lot was opened on an earlier day, every other one today,  *)
(* and history lots come first (position/restore.go).                      *)
(***************************************************************************)
AlwaysRestorable == \A dir \in Directions : RestorableSide(day, side[dir])

(***************************************************************************)
(* The claim beside the CloseOrder constants: on the lots this library     *)
(* builds, closing the oldest lot first and closing history first take the *)
(* same pieces and leave the same side, whatever volume is closed.         *)
(***************************************************************************)
YesterdayFirstIsFIFO ==
  \A dir \in Directions : \A volume \in 1 .. Volume(side[dir]) :
    CloseLots(side[dir], "Close", volume, "YesterdayFirst")
      = CloseLots(side[dir], "Close", volume, "FIFO")

(***************************************************************************)
(* The two profit conventions never part company: all profit booked by day *)
(* (closes against the basis, plus every evening's move of the basis)      *)
(* equals all profit booked by trade plus what the held lots' bases have   *)
(* moved since they were opened.  A lot split between two closes, closed   *)
(* twice, rolled twice or forgotten by a roll breaks it.                   *)
(***************************************************************************)
TwoBasesAgree ==
  gap = BasisDrift(side["Buy"], "Buy") + BasisDrift(side["Sell"], "Sell")
=============================================================================
