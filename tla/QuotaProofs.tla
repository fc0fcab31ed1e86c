---------------------------- MODULE QuotaProofs ----------------------------
(***************************************************************************)
(* What the quota of undated closes promises for any tariff, any volumes   *)
(* and any number of trades.  The lots that undated closes have paid the   *)
(* today rate for are what the counters call charged and not explicit; a   *)
(* close is refused where explicit close-todays would make a difference,   *)
(* so every lot it charges is within what that remainder leaves.           *)
(***************************************************************************)
EXTENDS Quota, FiniteSetTheorems, TLAPS

\* The counters are numbers, and the history variable is told by them.
QInv ==
  /\ quota \in QuotaType
  /\ day = [fee |-> day.fee, atSettle |-> day.atSettle, trades |-> day.trades,
            undated |-> quota.charged - quota.explicit]
  /\ quota.charged - quota.explicit \in 0 .. quota.opened
  /\ tariff \in Tariffs

-----------------------------------------------------------------------------
LEMMA MinOfTwo ==
  ASSUME NEW x \in Int, NEW y \in Int
  PROVE  Min({x, y}) = IF x <= y THEN x ELSE y
<1>1. \E z \in {x, y} : \A w \in {x, y} : z <= w
  OBVIOUS
<1>2. Min({x, y}) \in {x, y} /\ \A w \in {x, y} : Min({x, y}) <= w
  BY <1>1 DEF Min
<1> QED
  BY <1>2

LEMMA MaxOfTwo ==
  ASSUME NEW x \in Int, NEW y \in Int
  PROVE  Max({x, y}) = IF x >= y THEN x ELSE y
<1>1. \E z \in {x, y} : \A w \in {x, y} : z >= w
  OBVIOUS
<1>2. Max({x, y}) \in {x, y} /\ \A w \in {x, y} : Max({x, y}) >= w
  BY <1>1 DEF Max
<1> QED
  BY <1>2

\* How many lots of a close pay the today rate, spelt out.
LEMMA LotsAtTodayIs ==
  ASSUME NEW volume \in Nat, NEW left \in Int
  PROVE  LotsAtToday(volume, left) =
           IF left <= 0 THEN 0 ELSE IF volume <= left THEN volume ELSE left
<1>1. Max({left, 0}) = IF left >= 0 THEN left ELSE 0
  BY MaxOfTwo
<1>2. Max({left, 0}) \in Int
  BY <1>1
<1>3. LotsAtToday(volume, left) = IF volume <= Max({left, 0}) THEN volume ELSE Max({left, 0})
  BY <1>2, MinOfTwo DEF LotsAtToday
<1> QED
  BY <1>1, <1>3

\* A quota as QInv has it.
Fit(q) == q \in QuotaType /\ q.charged - q.explicit \in 0 .. q.opened

\* Where the two readings of the quota agree, a close stays within what is left of it.
LEMMA UndatedLotsFit ==
  ASSUME NEW q, Fit(q), NEW volume \in Nat, TodayTierKnown(q, volume)
  PROVE  /\ TodayTierLots(q, volume) \in 0 .. volume
         /\ q.charged - q.explicit + TodayTierLots(q, volume) \in 0 .. q.opened
<1>1. q.opened \in Nat /\ q.charged \in Nat /\ q.explicit \in Nat
  BY DEF Fit, QuotaType
<1>2. TodayTierLots(q, volume) = LotsAtToday(volume, q.opened - (q.charged - q.explicit))
  BY DEF TodayTierKnown
<1> DEFINE left == q.opened - (q.charged - q.explicit)
<1>3. LotsAtToday(volume, left) =
        IF left <= 0 THEN 0 ELSE IF volume <= left THEN volume ELSE left
  BY <1>1, LotsAtTodayIs
<1>4. left \in Nat
  BY <1>1 DEF Fit
<1> QED
  BY <1>1, <1>2, <1>3, <1>4 DEF Fit

LEMMA QuotaChargedIs ==
  ASSUME NEW q \in QuotaType, NEW lots \in Nat, NEW explicit \in Nat
  PROVE  /\ QuotaCharged(q, lots, explicit) \in QuotaType
         /\ QuotaCharged(q, lots, explicit).opened = q.opened
         /\ QuotaCharged(q, lots, explicit).charged = q.charged + lots
         /\ QuotaCharged(q, lots, explicit).explicit = q.explicit + explicit
BY DEF QuotaCharged, QuotaType

LEMMA InitFits == Init => QInv
BY DEF Init, QInv, NoQuota, NewDay, QuotaType

LEMMA OpenFits ==
  ASSUME QInv, NEW price, NEW volume \in Volumes, Open(price, volume)
  PROVE  QInv'
<1>1. volume \in Nat
  BY InputsPositive
<1> QED
  BY <1>1 DEF QInv, Open, QuotaOpened, ChargedWith, QuotaType

\* An explicit close-today moves both counters, so their difference stays.
LEMMA CloseTodayFits ==
  ASSUME QInv, NEW price, NEW volume \in Volumes, CloseToday(price, volume)
  PROVE  QInv'
<1>1. volume \in Nat
  BY InputsPositive
<1>2. quota \in QuotaType /\ quota' = QuotaCharged(quota, volume, volume)
  BY DEF QInv, CloseToday
<1>3. /\ quota' \in QuotaType
      /\ quota'.opened = quota.opened
      /\ quota'.charged = quota.charged + volume
      /\ quota'.explicit = quota.explicit + volume
  BY <1>1, <1>2, QuotaChargedIs
<1>4. quota'.charged - quota'.explicit = quota.charged - quota.explicit
  BY <1>1, <1>2, <1>3 DEF QuotaType
<1>5. /\ day' = [fee |-> day'.fee, atSettle |-> day'.atSettle, trades |-> day'.trades,
                 undated |-> day.undated + 0]
      /\ tariff' = tariff
  BY DEF CloseToday, ChargedWith
<1>6. day.undated = quota.charged - quota.explicit /\ day.undated \in Int
  BY DEF QInv
<1> QED
  BY <1>3, <1>4, <1>5, <1>6 DEF QInv

LEMMA CloseYesterdayFits ==
  ASSUME QInv, NEW price, NEW volume, CloseYesterday(price, volume)
  PROVE  QInv'
BY DEF QInv, CloseYesterday, ChargedWith, QuotaType

LEMMA CloseFits ==
  ASSUME QInv, NEW price, NEW volume \in Volumes, Close(price, volume)
  PROVE  QInv'
<1> DEFINE lots == UndatedCharge(tariff.close, tariff.closeToday, price, volume,
                                 UndatedLots(volume)).todayLots
<1>1. volume \in Nat
  BY InputsPositive
<1>2. Fit(quota)
  BY DEF QInv, Fit
<1>3. lots = IF tariff.close = tariff.closeToday THEN 0 ELSE UndatedLots(volume)
  BY DEF UndatedCharge, Split, BothSegments
<1>4. lots \in Nat /\ quota.charged - quota.explicit + lots \in 0 .. quota.opened
  <2>1. CASE tariff.close = tariff.closeToday
    BY <1>2, <1>3, <2>1 DEF Fit, QuotaType
  <2>2. CASE tariff.close # tariff.closeToday
    <3>1. TodayTierKnown(quota, volume)
      BY <2>2 DEF Close, CanClose
    <3> QED
      BY <1>1, <1>2, <1>3, <2>2, <3>1, UndatedLotsFit DEF UndatedLots
  <2> QED
    BY <2>1, <2>2
<1>5. quota' = QuotaCharged(quota, lots, 0)
  BY DEF Close
<1>6. /\ day' = [fee |-> day'.fee, atSettle |-> day'.atSettle, trades |-> day'.trades,
                 undated |-> day.undated + lots]
      /\ tariff' = tariff
  BY DEF Close, ChargedWith
<1> HIDE DEF lots
<1>7. /\ quota' \in QuotaType
      /\ quota'.opened = quota.opened
      /\ quota'.charged = quota.charged + lots
      /\ quota'.explicit = quota.explicit
  <2>1. quota \in QuotaType /\ 0 \in Nat /\ quota.explicit + 0 = quota.explicit
    BY <1>2 DEF Fit, QuotaType
  <2> QED
    BY <1>4, <1>5, <2>1, QuotaChargedIs
<1>8. day.undated + lots = quota'.charged - quota'.explicit
  BY <1>2, <1>4, <1>7 DEF QInv, QuotaType
<1>9. quota'.charged - quota'.explicit \in 0 .. quota'.opened
  BY <1>2, <1>4, <1>7 DEF Fit, QuotaType
<1> QED
  BY <1>6, <1>7, <1>8, <1>9 DEF QInv

LEMMA EveningFits ==
  ASSUME QInv, Evening
  PROVE  QInv'
BY DEF QInv, Evening, NoQuota, NewDay, QuotaType

THEOREM QuotaSound == Spec => []QInv
<1>1. Init => QInv
  BY InitFits
<1>2. QInv /\ [Next]_vars => QInv'
  <2> SUFFICES ASSUME QInv, [Next]_vars
               PROVE  QInv'
    OBVIOUS
  <2>1. ASSUME NEW price \in TradePrices, NEW volume \in Volumes,
               \/ Open(price, volume)
               \/ CloseToday(price, volume)
               \/ CloseYesterday(price, volume)
               \/ Close(price, volume)
        PROVE  QInv'
    BY <2>1, OpenFits, CloseTodayFits, CloseYesterdayFits, CloseFits
  <2>2. CASE Evening
    BY <2>2, EveningFits
  <2>3. CASE UNCHANGED vars
    BY <2>3 DEF QInv, vars
  <2> QED
    BY <2>1, <2>2, <2>3 DEF Next
<1> QED
  BY <1>1, <1>2, PTL DEF Spec

(***************************************************************************)
(* Undated closes never pay the today rate for more lots than were opened  *)
(* today, for any tariff and any volumes.                                  *)
(***************************************************************************)
THEOREM NoLotTooMany == Spec => []TodayRateOnlyForTodaysLots
<1>1. QInv => TodayRateOnlyForTodaysLots
  BY DEF QInv, TodayRateOnlyForTodaysLots, QuotaType
<1> QED
  BY <1>1, QuotaSound, PTL

(***************************************************************************)
(* Closing in two trades or in one is the same to the quota, whatever the  *)
(* counters and the volumes.                                               *)
(***************************************************************************)
THEOREM SplittingIsNeutral == Spec => []SplittingAClose
<1>1. QInv => SplittingAClose
  <2> SUFFICES ASSUME QInv, NEW x \in 1 .. MaxHeld, NEW y \in 1 .. MaxHeld
               PROVE  LET first == TodayTierLots(quota, x)
                          then  == QuotaCharged(quota, first, 0)
                      IN  /\ TodayTierKnown(quota, x + y)
                               <=> TodayTierKnown(quota, x) /\ TodayTierKnown(then, y)
                          /\ TodayTierKnown(quota, x + y)
                               => TodayTierLots(quota, x + y) = first + TodayTierLots(then, y)
    BY DEF SplittingAClose
  <2> DEFINE o     == quota.opened
             c     == quota.charged
             e     == quota.explicit
             first == TodayTierLots(quota, x)
             then  == QuotaCharged(quota, first, 0)
             Lots(v, left) == IF left <= 0 THEN 0 ELSE IF v <= left THEN v ELSE left
  <2> MaxHeld \in Nat
    BY BoundsTyped
  <2>1. o \in Nat /\ c \in Nat /\ e \in Nat /\ x \in Nat /\ y \in Nat
    BY DEF QInv, QuotaType
  <2>2. \A v \in Nat, left \in Int : LotsAtToday(v, left) = Lots(v, left)
    BY LotsAtTodayIs
  <2>3. first = Lots(x, o - c) /\ first \in Nat
    BY <2>1, <2>2 DEF TodayTierLots
  <2>4. then.opened = o /\ then.charged = c + first /\ then.explicit = e
    BY <2>1 DEF QuotaCharged
  <2>5. /\ TodayTierLots(then, y) = Lots(y, o - (c + first))
        /\ TodayTierKnown(then, y) <=>
             Lots(y, o - (c + first)) = Lots(y, o - (c + first - e))
    BY <2>1, <2>2, <2>3, <2>4 DEF TodayTierLots, TodayTierKnown
  <2>6. /\ TodayTierLots(quota, x + y) = Lots(x + y, o - c)
        /\ TodayTierKnown(quota, x) <=> first = Lots(x, o - (c - e))
        /\ TodayTierKnown(quota, x + y) <=> Lots(x + y, o - c) = Lots(x + y, o - (c - e))
    BY <2>1, <2>2, <2>3 DEF TodayTierLots, TodayTierKnown
  <2>7. c - e \in 0 .. o
    BY DEF QInv
  <2>8. ASSUME NEW f \in Nat, f = Lots(x, o - c)
        PROVE  /\ Lots(x + y, o - c) = Lots(x + y, o - (c - e))
                    <=> /\ f = Lots(x, o - (c - e))
                        /\ Lots(y, o - (c + f)) = Lots(y, o - (c + f - e))
               /\ Lots(x + y, o - c) = Lots(x + y, o - (c - e))
                    => Lots(x + y, o - c) = f + Lots(y, o - (c + f))
    BY <2>1, <2>7, <2>8
  <2> QED
    BY <2>3, <2>5, <2>6, <2>8
<1> QED
  BY <1>1, QuotaSound, PTL

-----------------------------------------------------------------------------
(* The lemmas on fees are proved beside those on the facade. *)

F == INSTANCE FacadeProofs
       WITH Instruments <- {}, Contract <- <<>>, MarkBasis <- "Last", Algorithm <- "All",
            FreezeBasis <- "AtOrderPrice", UndatedClose <- "Unmeasured", MaxSequence <- 0, NoID <- 0,
            MarginBasis <- "LastAll", SideScope <- "NoNetting"

\* The constants chosen are among those that the facade allows.
LEMMA FacadeAssumptions ==
  F!ContractTyped /\ F!SimulatorChoices /\ F!InstrumentsFinite /\ F!CentPositive /\ F!FeeChoices
    /\ F!MarginChoices
<1>1. F!InstrumentsFinite
  BY FS_EmptySet DEF F!InstrumentsFinite, F!IsFiniteSet, IsFiniteSet
<1>2. F!ContractTyped /\ F!SimulatorChoices
  BY DEF F!ContractTyped, F!SimulatorChoices
<1>3. F!CentPositive /\ F!FeeChoices /\ F!MarginChoices
  BY CentPositive, FeeChoices DEF F!CentPositive, F!FeeChoices, F!MarginChoices
<1>. QED
  BY <1>1, <1>2, <1>3

\* What AddCommission demands of the two fees of a trade.
Near(charge) ==
  /\ charge.fee \in Int /\ charge.atSettle \in Int
  /\ charge.atSettle - charge.fee \in -Cent .. Cent

\* Every per-lot part of a rate is a whole number of cents.
WholeCents ==
  \A t \in Tariffs : \A rate \in {t.open, t.close, t.closeToday} :
    \E k \in Nat : rate.byVolume = Cent * k

\* A rate whose part per lot is a whole number of cents.
Whole(rate) == rate \in [byMoney : Nat, byVolume : Nat] /\ \E k \in Nat : rate.byVolume = Cent * k

\* Both modules mean the same by fees.
LEMMA SameFees ==
  /\ \A charge : F!Near(charge) <=> Near(charge)
  /\ \A rate : F!Whole(rate) <=> Whole(rate)
  /\ \A x : F!Rounded(x) = Rounded(x) /\ F!HalfUpToCent(x) = HalfUpToCent(x)
  /\ \A rate, price, volume : F!Money(rate, price, volume) = Money(rate, price, volume)
  /\ \A rate, volume : F!PerLot(rate, volume) = PerLot(rate, volume)
BY DEF F!Near, Near, F!Whole, Whole, F!Rounded, Rounded, F!HalfUpToCent, HalfUpToCent,
       F!TruncateToCent, TruncateToCent, F!Money, Money, F!PerLot, PerLot

LEMMA SameSegment ==
  ASSUME NEW rate, NEW price, NEW volume
  PROVE  F!Segment(rate, price, volume) = Segment(rate, price, volume)
BY SameFees DEF F!Segment, Segment

LEMMA SameSplit ==
  ASSUME NEW close, NEW closeToday, NEW price, NEW today, NEW rest
  PROVE  /\ F!Split(close, closeToday, price, today, rest) = Split(close, closeToday, price, today, rest)
         /\ F!SameAsWhole(close, closeToday, price, today, rest)
              <=> SameAsWhole(close, closeToday, price, today, rest)
<1>1. F!Split(close, closeToday, price, today, rest) = Split(close, closeToday, price, today, rest)
  BY SameSegment DEF F!Split, Split, F!BothSegments, BothSegments
<1>. QED
  BY <1>1, SameFees DEF F!SameAsWhole, SameAsWhole

\* The charge of a segment, and of a close that was accepted.
LEMMA SegmentIsNear ==
  ASSUME NEW rate, Whole(rate), NEW price \in Nat, NEW volume \in Nat
  PROVE  Near(Segment(rate, price, volume))
<1>1. F!Near(F!Segment(rate, price, volume))
  BY F!SegmentIsNear, FacadeAssumptions, SameFees
<1>. QED
  BY <1>1, SameFees, SameSegment

LEMMA AcceptedSplitIsNear ==
  ASSUME NEW close, Whole(close), NEW closeToday, Whole(closeToday), NEW price \in Nat,
         NEW today \in Nat, NEW rest \in Nat,
         SameAsWhole(close, closeToday, price, today, rest)
  PROVE  Near(Split(close, closeToday, price, today, rest))
<1>1. F!Near(F!Split(close, closeToday, price, today, rest))
  BY F!AcceptedSplitIsNear, FacadeAssumptions, SameFees, SameSplit
<1>. QED
  BY <1>1, SameFees, SameSplit

-----------------------------------------------------------------------------
\* The fees of the day are numbers within a cent per trade of each other.
FeesNear ==
  /\ day.fee \in Int /\ day.atSettle \in Int /\ day.trades \in Nat
  /\ WithinACentPerTrade

\* One more charge, near to its settlement, keeps the day's fees near to theirs.
LEMMA ChargeKeepsNear ==
  ASSUME FeesNear, NEW charge, Near(charge), NEW undated, ChargedWith(charge, undated)
  PROVE  FeesNear'
<1>1. /\ day'.fee = day.fee + charge.fee
      /\ day'.atSettle = day.atSettle + charge.atSettle
      /\ day'.trades = day.trades + 1
  BY DEF ChargedWith
<1>2. /\ Cent \in Nat
      /\ day.fee \in Int /\ day.atSettle \in Int /\ day.trades \in Nat
      /\ charge.fee \in Int /\ charge.atSettle \in Int
  BY CentPositive DEF FeesNear, Near
<1>3. /\ -Cent * day.trades <= day.atSettle - day.fee
      /\ day.atSettle - day.fee <= Cent * day.trades
  BY <1>2 DEF FeesNear, WithinACentPerTrade
<1>4. -Cent <= charge.atSettle - charge.fee /\ charge.atSettle - charge.fee <= Cent
  BY <1>2 DEF Near
<1>5. /\ Cent * (day.trades + 1) = Cent * day.trades + Cent
      /\ -Cent * (day.trades + 1) = -Cent * day.trades - Cent
      /\ Cent * day.trades \in Int /\ -Cent * day.trades \in Int
  BY <1>2
<1>6. day'.atSettle - day'.fee \in (-Cent * day'.trades) .. (Cent * day'.trades)
  BY <1>1, <1>2, <1>3, <1>4, <1>5
<1> QED
  BY <1>1, <1>2, <1>6 DEF FeesNear, WithinACentPerTrade

LEMMA RatesAreWhole ==
  ASSUME WholeCents, tariff \in Tariffs
  PROVE  Whole(tariff.open) /\ Whole(tariff.close) /\ Whole(tariff.closeToday)
BY RatesTyped DEF WholeCents, Whole

\* An accepted undated close, whichever rates it is charged over.
LEMMA UndatedChargeIsNear ==
  ASSUME WholeCents, QInv, NEW price \in Nat, NEW volume \in Nat, CanClose(price, volume)
  PROVE  Near(UndatedCharge(tariff.close, tariff.closeToday, price, volume,
                            UndatedLots(volume)))
<1> DEFINE close      == tariff.close
           closeToday == tariff.closeToday
           lots       == IF close = closeToday THEN 0 ELSE UndatedLots(volume)
<1>1. Whole(close) /\ Whole(closeToday)
  BY RatesAreWhole DEF QInv
<1>2. lots \in Nat /\ volume - lots \in Nat
  <2>1. CASE close = closeToday
    BY <2>1
  <2>2. CASE close # closeToday
    <3>1. Fit(quota)
      BY DEF QInv, Fit
    <3>2. UndatedLots(volume) \in 0 .. volume
      BY <2>2, <3>1, UndatedLotsFit DEF CanClose, UndatedLots
    <3> QED
      BY <2>2, <3>2
  <2> QED
    BY <2>1, <2>2
<1>3. SameAsWhole(close, closeToday, price, lots, volume - lots)
  <2>1. CASE close = closeToday
    BY <2>1 DEF SameAsWhole
  <2>2. CASE close # closeToday
    BY <2>2 DEF CanClose, UndatedKnown
  <2> QED
    BY <2>1, <2>2
<1>4. Near(Split(close, closeToday, price, lots, volume - lots))
  BY <1>1, <1>2, <1>3, AcceptedSplitIsNear
<1> QED
  BY <1>4 DEF UndatedCharge

(***************************************************************************)
(* For any tariff whose per-lot parts are whole cents, any roundings, any  *)
(* prices and any number of trades: the fees of a day as settled differ    *)
(* from those charged intraday by a cent per trade at most.                *)
(***************************************************************************)
THEOREM FeesStayNear == ASSUME WholeCents PROVE Spec => []WithinACentPerTrade
<1>1. Init => FeesNear
  BY CentPositive DEF Init, FeesNear, WithinACentPerTrade, NewDay
<1>2. QInv /\ FeesNear /\ [Next]_vars => FeesNear'
  <2> SUFFICES ASSUME QInv, FeesNear, [Next]_vars
               PROVE  FeesNear'
    OBVIOUS
  <2>1. Whole(tariff.open) /\ Whole(tariff.close) /\ Whole(tariff.closeToday)
    BY RatesAreWhole DEF QInv
  <2>2. ASSUME NEW price \in TradePrices, NEW volume \in Volumes,
               \/ Open(price, volume)
               \/ CloseToday(price, volume)
               \/ CloseYesterday(price, volume)
               \/ Close(price, volume)
        PROVE  FeesNear'
    <3>1. price \in Nat /\ volume \in Nat
      BY InputsPositive
    <3>2. CASE Open(price, volume)
      BY <2>1, <3>1, <3>2, SegmentIsNear, ChargeKeepsNear DEF Open
    <3>3. CASE CloseToday(price, volume)
      BY <2>1, <3>1, <3>3, SegmentIsNear, ChargeKeepsNear DEF CloseToday
    <3>4. CASE CloseYesterday(price, volume)
      BY <2>1, <3>1, <3>4, SegmentIsNear, ChargeKeepsNear DEF CloseYesterday
    <3>5. CASE Close(price, volume)
      <4> DEFINE charge == UndatedCharge(tariff.close, tariff.closeToday, price, volume,
                                         UndatedLots(volume))
      <4>1. CanClose(price, volume) /\ ChargedWith(charge, charge.todayLots)
        BY <3>5 DEF Close
      <4>2. Near(charge)
        BY <3>1, <4>1, UndatedChargeIsNear
      <4> HIDE DEF charge
      <4> QED
        BY <4>1, <4>2, ChargeKeepsNear
    <3> QED
      BY <2>2, <3>2, <3>3, <3>4, <3>5
  <2>3. CASE Evening
    BY <2>3, CentPositive DEF FeesNear, WithinACentPerTrade, Evening, NewDay
  <2>4. CASE UNCHANGED vars
    BY <2>4 DEF FeesNear, WithinACentPerTrade, vars
  <2> QED
    BY <2>2, <2>3, <2>4 DEF Next
<1>3. FeesNear => WithinACentPerTrade
  BY DEF FeesNear
<1> QED
  BY <1>1, <1>2, <1>3, QuotaSound, PTL DEF Spec
=============================================================================
