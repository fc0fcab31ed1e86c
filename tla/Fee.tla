-------------------------------- MODULE Fee --------------------------------
(***************************************************************************)
(* The fee of one trade (fee/fee.go, fee/basis.go, internal/decimalx) and  *)
(* how the facade chooses the rate of a close (trade.go commission,        *)
(* chargeUndated; quota.go).                                               *)
(*                                                                         *)
(* Amounts are integers in a unit of which Cent make one cent, so that the *)
(* proportional part of a fee can be worth less than a cent.  A rate is    *)
(* [byMoney, byVolume]; the contract multiplier is part of byMoney.        *)
(***************************************************************************)
EXTENDS Integers, FiniteSetsExt

CONSTANTS
  Cent,           \* units in one cent
  FeeRounding,    \* rounding of the intraday fee
  FeeBasis        \* price a proportional fee is worked out on

ASSUME CentPositive == Cent \in Nat \ {0}
ASSUME FeeChoices ==
  /\ FeeRounding \in {"NoRounding", "TruncateToCent", "HalfUpToCent"}
  /\ FeeBasis \in {"TradePrice", "PreSettlement"}

HalfUpToCent(x) == Cent * ((2 * x + Cent) \div (2 * Cent))

\* No fee is negative, so cutting off is rounding down.
TruncateToCent(x) == Cent * (x \div Cent)

Rounded(x) ==
  CASE FeeRounding = "NoRounding"     -> x
    [] FeeRounding = "TruncateToCent" -> TruncateToCent(x)
    [] FeeRounding = "HalfUpToCent"   -> HalfUpToCent(x)

\* The price a fee is worked out on; 0 where there is none.
BasisPrice(price, pre) == IF FeeBasis = "TradePrice" THEN price ELSE pre

Money(rate, price, volume)  == volume * price * rate.byMoney
PerLot(rate, volume)        == volume * rate.byVolume

(***************************************************************************)
(* One segment of a fee: what is charged intraday, and what the settlement *)
(* will charge for the same lots, which rounds the proportional part only. *)
(***************************************************************************)
Segment(rate, price, volume) ==
  [fee      |-> Rounded(Money(rate, price, volume) + PerLot(rate, volume)),
   atSettle |-> HalfUpToCent(Money(rate, price, volume)) + PerLot(rate, volume)]

-----------------------------------------------------------------------------
(***************************************************************************)
(* An undated close is charged at the close-today rate for as many lots as *)
(* were opened today on its side and not yet charged that way.  A quota is *)
(* [opened, charged, explicit]: lots opened, lots charged at the today     *)
(* rate, and how many of those were explicit close-todays.                 *)
(***************************************************************************)
QuotaType == [opened : Nat, charged : Nat, explicit : Nat]
NoQuota   == [opened |-> 0, charged |-> 0, explicit |-> 0]

LotsAtToday(volume, left) == Min({volume, Max({left, 0})})

TodayTierLots(quota, volume) == LotsAtToday(volume, quota.opened - quota.charged)

\* Whether explicit close-todays use up the quota was never observed; where the
\* two readings differ the code refuses.
TodayTierKnown(quota, volume) ==
  TodayTierLots(quota, volume)
    = LotsAtToday(volume, quota.opened - (quota.charged - quota.explicit))

\* A close charged over both rates, and how many of its lots paid the today rate.
BothSegments(a, b, today) ==
  [fee |-> a.fee + b.fee, atSettle |-> a.atSettle + b.atSettle, todayLots |-> today]

Split(close, closeToday, price, today, rest) ==
  BothSegments(Segment(closeToday, price, today), Segment(close, price, rest), today)

\* Faulty variant: rounding every segment and rounding the trade may differ.
SameAsWholeUnchecked(close, closeToday, price, today, rest) == TRUE

(***************************************************************************)
(* A close split over both rates is accepted only where rounding the       *)
(* segments and rounding the whole trade come to the same two numbers.     *)
(***************************************************************************)
SameAsWhole(close, closeToday, price, today, rest) ==
  LET money == Money(closeToday, price, today) + Money(close, price, rest)
      lots  == PerLot(closeToday, today) + PerLot(close, rest)
      split == Split(close, closeToday, price, today, rest)
  IN  today > 0 /\ rest > 0 =>
        split.fee = Rounded(money + lots) /\ split.atSettle = HalfUpToCent(money) + lots

(***************************************************************************)
(* The undated close as a whole.  Where the two rates are equal the quota  *)
(* is not asked and no lot counts as charged at the today rate; elsewhere  *)
(* the rule is known on the measured exchanges only.                       *)
(***************************************************************************)
UndatedKnown(close, closeToday, measured, price, volume, today) ==
  close # closeToday =>
    measured /\ SameAsWhole(close, closeToday, price, today, volume - today)

UndatedCharge(close, closeToday, price, volume, today) ==
  LET lots == IF close = closeToday THEN 0 ELSE today IN
  Split(close, closeToday, price, lots, volume - lots)
=============================================================================
