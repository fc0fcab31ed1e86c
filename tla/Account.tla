------------------------------ MODULE Account ------------------------------
(***************************************************************************)
(* One account over several trading days, driven through its exported      *)
(* methods in any order (account/account.go).  The account itself neither  *)
(* knows the positions nor the orders: margins, profits and freezes are    *)
(* whatever its caller says, which is how the package is tested and how    *)
(* the facade uses it.                                                     *)
(***************************************************************************)
EXTENDS AccountOps

CONSTANTS
  Amounts,     \* deposits, withdrawals, and the parts of a freeze
  Profits,     \* profits told by the facade, losses included
  Fees,        \* fees, intraday and as settled
  Archives,    \* accounts a test or a user restores from
  Ceiling,     \* bound: no amount of the account grows beyond it
  MaxTrades,   \* bound: charges counted in a day
  LastDay      \* bound: settlements

ASSUME AmountsInt == /\ Amounts \subseteq Int
                     /\ Profits \subseteq Int
                     /\ Fees \subseteq Int
                     /\ Archives \subseteq ArchiveType
ASSUME BoundsNat == Ceiling \in Nat /\ MaxTrades \in Nat /\ LastDay \in Nat

VARIABLES
  day,      \* trading day the account stands on
  acc,      \* the account
  ledger    \* history: all money that came in, less what went out, as settled

vars == <<day, acc, ledger>>

\* What the account is worth leaving the floating profit out, fees as settled.
Booked(a) == StaticBalance(a) + a.closeProfit - a.settleCommission

Within(a) ==
  /\ Balance(a) \in (-Ceiling) .. Ceiling
  /\ a.deposit <= Ceiling /\ a.withdraw <= Ceiling
  /\ a.closeProfit \in (-Ceiling) .. Ceiling
  /\ a.commissionTrades <= MaxTrades
  /\ a.frozenMargin <= Ceiling /\ a.frozenCommission <= Ceiling

Init ==
  /\ day = 0
  /\ acc \in {a \in Archives : RestorableAccount(a)}
  /\ ledger = Booked(acc)

\* The account changes by f, the outside world's money by amount.
Becomes(a, amount) ==
  /\ Within(a)
  /\ acc' = a
  /\ ledger' = ledger + amount
  /\ day' = day

Deposit(amount) == CanDeposit(amount) /\ Becomes(Deposited(acc, amount), amount)

Withdraw(amount) == CanWithdraw(acc, amount) /\ Becomes(Withdrawn(acc, amount), -amount)

AddCloseProfit(profit) == Becomes(WithCloseProfit(acc, profit), profit)

AddCommission(fee, atSettle) ==
  CanCharge(fee, atSettle) /\ Becomes(Charged(acc, fee, atSettle), -atSettle)

SetPositionProfit(profit) == Becomes(WithPositionProfit(acc, profit), 0)

SetMargin(company, exchange) ==
  CanSetMargin(company, exchange) /\ Becomes(WithMargin(acc, company, exchange), 0)

Freeze(margin, commission) ==
  CanFreeze(acc, margin, commission) /\ Becomes(WithFrozen(acc, margin, commission), 0)

Unfreeze(margin, commission) ==
  CanUnfreeze(acc, margin, commission) /\ Becomes(WithoutFrozen(acc, margin, commission), 0)

\* The settlement turns the floating profit into money.
Settle ==
  /\ day < LastDay
  /\ CanSettleAccount(acc)
  /\ day' = day + 1
  /\ acc' = SettledAccount(acc)
  /\ ledger' = ledger + acc.positionProfit

Next ==
  \/ \E amount \in Amounts : Deposit(amount) \/ Withdraw(amount)
  \/ \E profit \in Profits : AddCloseProfit(profit) \/ SetPositionProfit(profit)
  \/ \E fee, atSettle \in Fees : AddCommission(fee, atSettle)
  \/ \E x, y \in Amounts : SetMargin(x, y) \/ Freeze(x, y) \/ Unfreeze(x, y)
  \/ Settle

Spec == Init /\ [][Next]_vars

-----------------------------------------------------------------------------
\* The account has the shape of the Go struct.
TypeOK == day \in Nat /\ acc \in AccountType /\ ledger \in Int

(***************************************************************************)
(* No sequence of accepted calls makes Check fail, so the facade's Check   *)
(* after a commit can only fail for an account that was broken before it   *)
(* (account/account.go Check, trade.go commit).                            *)
(***************************************************************************)
CheckHolds == Check(acc)

(***************************************************************************)
(* Money is neither made nor lost: whatever was deposited, withdrawn,      *)
(* realised and charged since the account was opened, over all the days,   *)
(* is what the account has booked, with every floating profit counted once,*)
(* on the evening that settled it, and every fee once, as settled.         *)
(***************************************************************************)
MoneyConserved == Booked(acc) = ledger

(***************************************************************************)
(* An account that is not overdrawn when its day begins can always be      *)
(* saved and restored (account/state.go): the negative previous balance is *)
(* the only thing Restore can hold against an account this code wrote.     *)
(***************************************************************************)
OnlyOverdrawnIsRefused == acc.preBalance >= 0 => RestorableAccount(acc)

(***************************************************************************)
(* What the settlement may do to what a client sees.  The balance moves by *)
(* no more than a cent per trade of the day, and the spendable part moves  *)
(* by exactly that correction plus the floating profit that could not be   *)
(* spent before and can now (account/account.go Settle).                   *)
(***************************************************************************)
SettleIsHarmless ==
  [][day' # day =>
       /\ Distance(Balance(acc'), Balance(acc)) <= Tolerance * acc.commissionTrades
       /\ Available(acc') - Available(acc) - Excluded(acc) = Balance(acc') - Balance(acc)]_vars

(***************************************************************************)
(* The account package's claim for its own State: "as it is, it can be     *)
(* stored and taken back" (account/state.go, the comment on State).        *)
(***************************************************************************)
StateTakenBack == RestorableAccount(acc)
=============================================================================
