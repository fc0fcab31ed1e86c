------------------------------- MODULE Margin -------------------------------
(***************************************************************************)
(* Margin of a set of held lots (margin/margin.go Compute).  The lots of a *)
(* group - one product, or one instrument - are added up per direction,    *)
(* and a group with the larger-side rule pays for its larger side only.    *)
(*                                                                         *)
(* A rate is [byMoney, byVolume], the company adds addOn to byMoney.  The  *)
(* contract multiplier is part of byMoney and addOn.                       *)
(***************************************************************************)
EXTENDS Lots

CONSTANTS
  MarginBasis,    \* price margin is worked out on
  SideScope       \* what the larger-side rule groups

ASSUME MarginChoices ==
  /\ MarginBasis \in {"OpenTodayPreSettleHistory", "PreSettleAll", "LastAll"}
  /\ SideScope \in {"ByProduct", "ByInstrument", "NoNetting"}

LotPrice(lot, last, pre) ==
  CASE MarginBasis = "OpenTodayPreSettleHistory" -> IF lot.settled THEN pre ELSE lot.openPrice
    [] MarginBasis = "PreSettleAll"              -> pre
    [] MarginBasis = "LastAll"                   -> last

Exchange(rate, price, volume) == volume * price * rate.byMoney + volume * rate.byVolume
Company(rate, addOn, price, volume) ==
  Exchange(rate, price, volume) + volume * price * addOn

\* Both margins of one side of one instrument.
SideMargin(rate, addOn, lots, last, pre) ==
  [exchange |-> Total([i \in DOMAIN lots |->
                         Exchange(rate, LotPrice(lots[i], last, pre), lots[i].volume)]),
   company  |-> Total([i \in DOMAIN lots |->
                         Company(rate, addOn, LotPrice(lots[i], last, pre), lots[i].volume)])]

\* Faulty variant: the larger side is picked by the exchange's margin for both.
LargerByExchange(long, short) ==
  IF long.exchange >= short.exchange THEN long ELSE short

LargerSide(long, short) ==
  [exchange |-> Max({long.exchange, short.exchange}),
   company  |-> Max({long.company, short.company})]

BothSides(long, short) ==
  [exchange |-> long.exchange + short.exchange,
   company  |-> long.company + short.company]

GroupMargin(long, short, maxMarginSide) ==
  IF maxMarginSide /\ SideScope # "NoNetting" THEN LargerSide(long, short)
                                              ELSE BothSides(long, short)

GroupKey(product, instrument) == IF SideScope = "ByProduct" THEN product ELSE instrument

\* The margins of the members of a set added up.
SumMargins(margins) ==
  [exchange |-> SumFunction([x \in DOMAIN margins |-> margins[x].exchange]),
   company  |-> SumFunction([x \in DOMAIN margins |-> margins[x].company])]
=============================================================================
