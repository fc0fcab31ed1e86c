------------------------------- MODULE Quota -------------------------------
(***************************************************************************)
(* The fees of one side of one instrument over its trading days: how much  *)
(* of an undated close is charged at the close-today rate, and how the     *)
(* fees charged intraday compare with those of the settlement (quota.go;   *)
(* trade.go commission, chargeUndated, sameAsWholeTrade, bookQuota).       *)
(***************************************************************************)
EXTENDS Fee

CONSTANTS
  Tariffs,      \* rates of the instrument: [open, close, closeToday]
  TradePrices,  \* prices that trade
  Volumes,      \* volumes of one trade
  MaxHeld,      \* bound: lots held
  MaxOpened     \* bound: lots opened in a day

ASSUME RatesTyped ==
  LET Rate == [byMoney : Nat, byVolume : Nat] IN
  Tariffs \subseteq [open : Rate, close : Rate, closeToday : Rate]
ASSUME BoundsTyped == MaxHeld \in Nat /\ MaxOpened \in Nat
ASSUME InputsPositive == TradePrices \subseteq Nat \ {0} /\ Volumes \subseteq Nat \ {0}

VARIABLES
  tariff,   \* the rates, fixed
  held,     \* lots held: [today, history]
  quota,    \* today's counters
  day       \* history: today's [fee, atSettle, trades] and lots of undated closes at the today rate

vars == <<tariff, held, quota, day>>

NewDay == [fee |-> 0, atSettle |-> 0, trades |-> 0, undated |-> 0]

Init ==
  /\ tariff \in Tariffs
  /\ held \in [today : {0}, history : 0 .. MaxHeld]
  /\ quota = NoQuota
  /\ day = NewDay

\* A trade is charged; undated counts its lots charged at the today rate by quota.
ChargedWith(charge, undated) ==
  /\ day' = [fee |-> day.fee + charge.fee, atSettle |-> day.atSettle + charge.atSettle,
             trades |-> day.trades + 1, undated |-> day.undated + undated]
  /\ UNCHANGED tariff

QuotaOpened(q, volume) == [q EXCEPT !.opened = @ + volume]

\* Faulty variant: a close that is charged over both rates books one lot.
QuotaChargedOnce(q, lots, explicit) ==
  [q EXCEPT !.charged = IF lots > 0 THEN @ + 1 ELSE @, !.explicit = @ + explicit]

QuotaCharged(q, lots, explicit) ==
  [opened |-> q.opened, charged |-> q.charged + lots, explicit |-> q.explicit + explicit]

Open(price, volume) ==
  /\ held.today + held.history + volume <= MaxHeld
  /\ quota.opened + volume <= MaxOpened
  /\ held' = [held EXCEPT !.today = @ + volume]
  /\ quota' = QuotaOpened(quota, volume)
  /\ ChargedWith(Segment(tariff.open, price, volume), 0)

\* A trade reported as a close-today is charged as one, whatever the quota says.
CloseToday(price, volume) ==
  /\ volume <= held.today
  /\ held' = [held EXCEPT !.today = @ - volume]
  /\ quota' = QuotaCharged(quota, volume, volume)
  /\ ChargedWith(Segment(tariff.closeToday, price, volume), 0)

CloseYesterday(price, volume) ==
  /\ volume <= held.history
  /\ held' = [held EXCEPT !.history = @ - volume]
  /\ UNCHANGED quota
  /\ ChargedWith(Segment(tariff.close, price, volume), 0)

\* An undated close takes history lots first; which lots it takes does not decide its rate.
UndatedLots(volume) == TodayTierLots(quota, volume)

CanClose(price, volume) ==
  /\ tariff.close # tariff.closeToday => TodayTierKnown(quota, volume)
  /\ UndatedKnown(tariff.close, tariff.closeToday, TRUE, price, volume, UndatedLots(volume))

Close(price, volume) ==
  LET charge  == UndatedCharge(tariff.close, tariff.closeToday, price, volume, UndatedLots(volume))
      history == Min({volume, held.history})
  IN  /\ volume <= held.today + held.history
      /\ CanClose(price, volume)
      /\ held' = [today |-> held.today - (volume - history), history |-> held.history - history]
      /\ quota' = QuotaCharged(quota, charge.todayLots, 0)
      /\ ChargedWith(charge, charge.todayLots)

Evening ==
  /\ held' = [today |-> 0, history |-> held.today + held.history]
  /\ quota' = NoQuota
  /\ day' = NewDay
  /\ UNCHANGED tariff

Next ==
  \/ \E price \in TradePrices, volume \in Volumes :
       \/ Open(price, volume)
       \/ CloseToday(price, volume)
       \/ CloseYesterday(price, volume)
       \/ Close(price, volume)
  \/ Evening

Spec == Init /\ [][Next]_vars

-----------------------------------------------------------------------------
\* The counters are those of the Go struct.
TypeOK ==
  /\ tariff \in Tariffs
  /\ held \in [today : Nat, history : Nat]
  /\ quota \in QuotaType
  /\ day \in [fee : Nat, atSettle : Nat, trades : Nat, undated : Nat]

(***************************************************************************)
(* While a lot's fee is a whole number of cents, a day's fees as settled   *)
(* differ from those charged intraday by a cent per trade at most, trades  *)
(* charged over two rates included.  This is what AddCommission demands of *)
(* every trade; a trade beyond it breaks the simulator after the positions *)
(* have changed (account/account.go, SettleCommissionTolerance).           *)
(***************************************************************************)
WithinACentPerTrade ==
  day.atSettle - day.fee \in (-Cent * day.trades) .. (Cent * day.trades)

(***************************************************************************)
(* Undated closes never pay the today rate for more lots than their side   *)
(* opened today, in whatever order they and explicit closes come.          *)
(***************************************************************************)
TodayRateOnlyForTodaysLots == day.undated <= quota.opened

(***************************************************************************)
(* Closing in two trades or in one is the same to the quota: both are      *)
(* accepted or neither is, and the same number of lots pays the today      *)
(* rate (quota.go todayTierLots, the multi-lot rule).                      *)
(***************************************************************************)
SplittingAClose ==
  \A x, y \in 1 .. MaxHeld :
    LET first == TodayTierLots(quota, x)
        then  == QuotaCharged(quota, first, 0)
    IN  /\ TodayTierKnown(quota, x + y)
             <=> TodayTierKnown(quota, x) /\ TodayTierKnown(then, y)
        /\ TodayTierKnown(quota, x + y)
             => TodayTierLots(quota, x + y) = first + TodayTierLots(then, y)
=============================================================================
