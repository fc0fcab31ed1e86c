----------------------------- MODULE Validation -----------------------------
(***************************************************************************)
(* The eight checks of an order request (order/order.go Validate), and the *)
(* day's price limits they use (refdata/refdata.go PriceLimits).           *)
(*                                                                         *)
(* What a check needs to know may be Missing.  A check that cannot be made *)
(* is reported, never taken as passed.  Facts are                          *)
(*   rule       [isTrading, tick, ratio, minVolume, maxVolume],            *)
(*              ratio in percent of the previous settlement price; 0 for a *)
(*              tick or a volume the rules do not have                     *)
(*   pre        previous settlement price                                  *)
(*   rounding   how a limit is moved to a multiple of the tick             *)
(*   position   [dateType, Buy, Sell], lots held per direction as           *)
(*              [today, history]                                           *)
(*   frozen     [today, history], lots of the side to close that other     *)
(*              orders have frozen                                         *)
(*   available, need, limit, session (BOOLEAN)                             *)
(***************************************************************************)
EXTENDS Integers, FiniteSets

CONSTANT Missing

Checks == {"Tradable", "Closable", "Session", "PriceTick", "PriceLimit",
           "VolumeRange", "Funds", "PositionLimit"}

\* The order in which the counter refuses: only the first refusal is reported.
Rank == [Tradable |-> 1, Closable |-> 2, Session |-> 3, PriceTick |-> 4, PriceLimit |-> 5,
         VolumeRange |-> 6, Funds |-> 7, PositionLimit |-> 8]

\* A price in hundredths, moved to a multiple of the tick.
SnapDown(hundredths, tick) == ((hundredths \div (100 * tick)) * tick) * 100
SnapUp(hundredths, tick)   == (-((-hundredths) \div (100 * tick)) * tick) * 100
SnapNear(hundredths, tick) == (((2 * hundredths + 100 * tick) \div (200 * tick)) * tick) * 100

\* Limits can be derived; when they cannot, that is not "no limits".
LimitsKnown(rule, pre, rounding) ==
  /\ rule # Missing /\ pre # Missing /\ rounding # Missing
  /\ rule.ratio # Missing /\ pre > 0
  /\ rounding # "None" => rule.tick > 0

UpperLimit(rule, pre, rounding) ==
  LET raw == pre * (100 + rule.ratio) IN
  CASE rounding = "None"                -> raw
    [] rounding \in {"Floor", "Inward"} -> SnapDown(raw, rule.tick)
    [] rounding = "Ceil"                -> SnapUp(raw, rule.tick)
    [] rounding = "HalfUp"              -> SnapNear(raw, rule.tick)

LowerLimit(rule, pre, rounding) ==
  LET raw == pre * (100 - rule.ratio) IN
  CASE rounding = "None"              -> raw
    [] rounding = "Floor"             -> SnapDown(raw, rule.tick)
    [] rounding \in {"Ceil", "Inward"} -> SnapUp(raw, rule.tick)
    [] rounding = "HalfUp"            -> SnapNear(raw, rule.tick)

WithinLimits(price, rule, pre, rounding) ==
  /\ price * 100 <= UpperLimit(rule, pre, rounding)
  /\ price * 100 >= LowerLimit(rule, pre, rounding)

-----------------------------------------------------------------------------
Against(dir) == IF dir = "Buy" THEN "Sell" ELSE "Buy"

\* Faulty variant: today and history lots are checked together.
ClosableTogether(req, held, frozen, dateType) ==
  req.volume <= (held.today - frozen.today) + (held.history - frozen.history)

(***************************************************************************)
(* The lots held and not frozen cover the close, today and history apart;  *)
(* an undated close is refused unless the instrument keeps no history.     *)
(***************************************************************************)
ClosableLots(req, held, frozen, dateType) ==
  LET today   == held.today - frozen.today
      history == held.history - frozen.history
  IN  /\ today >= 0 /\ history >= 0
      /\ CASE req.offset = "CloseToday"     -> req.volume <= today
           [] req.offset = "CloseYesterday" -> req.volume <= history
           [] OTHER -> dateType = "NoUseHistory" /\ req.volume <= today + history

\* Which checks the facts allow.
Checkable(req, f) ==
  [Tradable      |-> f.rule # Missing,
   Closable      |-> req.offset # "Open" => f.position # Missing,
   Session       |-> f.session # Missing,
   PriceTick     |-> f.rule # Missing /\ f.rule.tick > 0,
   PriceLimit    |-> LimitsKnown(f.rule, f.pre, f.rounding),
   VolumeRange   |-> f.rule # Missing /\ f.rule.maxVolume > 0,
   Funds         |-> f.available # Missing /\ f.need # Missing,
   PositionLimit |-> f.limit # Missing /\ f.position # Missing]

\* A check passes, or cannot be made.
Passes(req, f) ==
  LET made == Checkable(req, f) IN
  [Tradable      |-> made.Tradable => f.rule.isTrading,
   Closable      |-> made.Closable /\ req.offset # "Open" =>
                       ClosableLots(req, f.position[Against(req.dir)], f.frozen, f.position.dateType),
   Session       |-> made.Session => f.session,
   PriceTick     |-> made.PriceTick => req.price % f.rule.tick = 0,
   PriceLimit    |-> made.PriceLimit => WithinLimits(req.price, f.rule, f.pre, f.rounding),
   VolumeRange   |-> made.VolumeRange =>
                       /\ req.volume <= f.rule.maxVolume
                       /\ f.rule.minVolume > 0 => req.volume >= f.rule.minVolume,
   Funds         |-> made.Funds => f.need <= f.available,
   PositionLimit |-> made.PositionLimit /\ req.offset = "Open" =>
                       f.position[req.dir].today + f.position[req.dir].history + req.volume
                         <= f.limit]

Rejecting(req, f) == LET passes == Passes(req, f) IN {c \in Checks : ~passes[c]}

\* A request without a volume is refused before the checks, as a volume out of range.
Unchecked(req, f) == 
  LET made == Checkable(req, f) IN IF req.volume <= 0 THEN {} ELSE {c \in Checks : ~made[c]}

First(rejecting) == CHOOSE c \in rejecting : \A d \in rejecting : Rank[c] <= Rank[d]

\* The check the request is refused by, or "None".
Rejected(req, f) ==
  IF req.volume <= 0 THEN "VolumeRange"
  ELSE LET rejecting == Rejecting(req, f) IN IF rejecting = {} THEN "None" ELSE First(rejecting)

\* Faulty variant: a request not refused is let through.
OKUnlessRejected(req, f) == Rejected(req, f) = "None"

OK(req, f) == Rejected(req, f) = "None" /\ Unchecked(req, f) = {}
=============================================================================
