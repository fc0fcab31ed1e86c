----------------------------- MODULE AccountOps -----------------------------
(***************************************************************************)
(* The fund account of one client as a value (account/account.go,          *)
(* algorithm.go, state.go): for every method that changes the account, the *)
(* condition under which the code does not refuse, and the account after   *)
(* it.  The trading day is not part of the value: every method names the   *)
(* day it believes in and is refused on any other, so the modules that own *)
(* the day leave the refused calls out.                                    *)
(*                                                                         *)
(* Amounts are integers in a unit of which Tolerance make one cent.        *)
(***************************************************************************)
EXTENDS Integers

CONSTANT Tolerance      \* largest |fee at settlement - fee intraday| of a trade
ASSUME ToleranceNat == Tolerance \in Nat

Algorithms == {"All", "OnlyLost"}

\* An account whose day totals, margins and freezes are drawn from Amount.
AccountOf(Amount) ==
  [algorithm        : Algorithms,
   preBalance       : Int,      \* balance after the previous settlement
   deposit          : Amount,   \* today's totals, cleared by the settlement
   withdraw         : Amount,
   closeProfit      : Int,
   commission       : Amount,   \* fees as charged intraday
   settleCommission : Amount,   \* the same fees as the settlement will charge them
   commissionTrades : Amount,
   positionProfit   : Int,      \* told by the facade
   currMargin       : Amount,
   exchangeMargin   : Amount,
   frozenMargin     : Amount,
   frozenCommission : Amount,
   frozenCash       : Amount]

AccountType == AccountOf(Nat)
ArchiveType == AccountOf(Int)   \* an archive is a file that can be edited by hand

NewAccount(preBalance, algorithm) ==
  [algorithm |-> algorithm, preBalance |-> preBalance, deposit |-> 0, withdraw |-> 0,
   closeProfit |-> 0, commission |-> 0, settleCommission |-> 0, commissionTrades |-> 0,
   positionProfit |-> 0, currMargin |-> 0, exchangeMargin |-> 0,
   frozenMargin |-> 0, frozenCommission |-> 0, frozenCash |-> 0]

StaticBalance(a) == a.preBalance + a.deposit - a.withdraw

Balance(a) == StaticBalance(a) + a.closeProfit + a.positionProfit - a.commission

\* The part of the floating profit that cannot be spent.
Excluded(a) == IF a.algorithm = "OnlyLost" /\ a.positionProfit > 0
               THEN a.positionProfit ELSE 0

Available(a) ==
  Balance(a) - a.currMargin - a.frozenMargin - a.frozenCash - a.frozenCommission - Excluded(a)

-----------------------------------------------------------------------------
CanDeposit(amount) == amount > 0
Deposited(a, amount) == [a EXCEPT !.deposit = @ + amount]

CanWithdraw(a, amount) == amount > 0 /\ amount <= Available(a)
Withdrawn(a, amount) == [a EXCEPT !.withdraw = @ + amount]

WithCloseProfit(a, profit) == [a EXCEPT !.closeProfit = @ + profit]

Distance(x, y) == IF x >= y THEN x - y ELSE y - x

CanCharge(fee, atSettle) ==
  fee >= 0 /\ atSettle >= 0 /\ Distance(atSettle, fee) <= Tolerance

\* A charge of nothing is not counted as a trade: revaluation comes this way too.
Charged(a, fee, atSettle) ==
  [a EXCEPT !.commission = @ + fee, !.settleCommission = @ + atSettle,
            !.commissionTrades = IF fee = 0 /\ atSettle = 0 THEN @ ELSE @ + 1]

WithPositionProfit(a, profit) == [a EXCEPT !.positionProfit = profit]

\* Faulty variant: the two margins are not compared.
CanSetMarginApart(company, exchange) == exchange >= 0 /\ company >= 0

CanSetMargin(company, exchange) == exchange >= 0 /\ company >= exchange
WithMargin(a, company, exchange) ==
  [a EXCEPT !.currMargin = company, !.exchangeMargin = exchange]

CanFreeze(a, margin, commission) ==
  margin >= 0 /\ commission >= 0 /\ margin + commission <= Available(a)
WithFrozen(a, margin, commission) ==
  [a EXCEPT !.frozenMargin = @ + margin, !.frozenCommission = @ + commission]

CanUnfreeze(a, margin, commission) ==
  /\ margin \in 0 .. a.frozenMargin
  /\ commission \in 0 .. a.frozenCommission
WithoutFrozen(a, margin, commission) ==
  [a EXCEPT !.frozenMargin = @ - margin, !.frozenCommission = @ - commission]

CanSettleAccount(a) == a.frozenMargin = 0 /\ a.frozenCommission = 0 /\ a.frozenCash = 0

\* Faulty variant: the intraday fees stay charged instead of the settlement's.
SettledAtIntradayFee(a) ==
  [NewAccount(Balance(a), a.algorithm) EXCEPT
     !.currMargin = a.currMargin, !.exchangeMargin = a.exchangeMargin]

\* Faulty variant: the settlement's fees are taken off on top of the intraday ones.
SettledChargingTwice(a) ==
  [NewAccount(Balance(a) - a.settleCommission, a.algorithm) EXCEPT
     !.currMargin = a.currMargin, !.exchangeMargin = a.exchangeMargin]

\* Faulty variant: the fees the settlement charged are still counted in the morning.
SettledKeepingFees(a) ==
  [NewAccount(Balance(a) + a.commission - a.settleCommission, a.algorithm) EXCEPT
     !.settleCommission = a.settleCommission,
     !.currMargin = a.currMargin, !.exchangeMargin = a.exchangeMargin]

(***************************************************************************)
(* The evening: the balance, with the settlement's fees in place of the    *)
(* intraday ones, becomes the new base, and everything counted by the day  *)
(* starts at zero, the floating profit with it.  The margin stays until    *)
(* the facade tells the next one.                                          *)
(***************************************************************************)
SettledAccount(a) ==
  [NewAccount(Balance(a) + a.commission - a.settleCommission, a.algorithm) EXCEPT
     !.currMargin = a.currMargin, !.exchangeMargin = a.exchangeMargin]

-----------------------------------------------------------------------------
(***************************************************************************)
(* Check, run by the facade after every change and by Restore.  Its first  *)
(* line compares Available with its own formula and is left out.           *)
(***************************************************************************)
Check(a) ==
  /\ a.frozenMargin >= 0 /\ a.frozenCommission >= 0 /\ a.frozenCash >= 0
  /\ a.commission >= 0 /\ a.commissionTrades >= 0 /\ a.settleCommission >= 0
  /\ Distance(a.settleCommission, a.commission) <= Tolerance * a.commissionTrades

\* Restore's conditions other than that the previous balance is not negative.
RestorableParts(a) ==
  /\ a.deposit >= 0 /\ a.withdraw >= 0
  /\ a.exchangeMargin >= 0 /\ a.currMargin >= a.exchangeMargin
  /\ Check(a)

\* Restore goes through New, which refuses a negative previous balance.
RestorableAccount(a) == a.preBalance >= 0 /\ RestorableParts(a)
=============================================================================
