--------------------------- MODULE AccountProofs ---------------------------
(***************************************************************************)
(* What Account promises, for every tolerance, every set of amounts and    *)
(* every bound.  An account is Sound when it has its type, passes Check    *)
(* and orders its two margins.  The three need each other: a charge keeps  *)
(* the two fee totals together only because they are not negative, and an  *)
(* Unfreeze keeps the freezes natural only because they were.  The first   *)
(* group of lemmas shows that every method keeps an account Sound and says *)
(* what it books; the second lifts them to the steps of Account.           *)
(***************************************************************************)
EXTENDS Account, TLAPS

Sound(a) == a \in AccountType /\ Check(a) /\ a.currMargin >= a.exchangeMargin

-----------------------------------------------------------------------------
LEMMA DepositedSound ==
  ASSUME NEW a, Sound(a), NEW amount \in Int, CanDeposit(amount)
  PROVE  Sound(Deposited(a, amount)) /\ Booked(Deposited(a, amount)) = Booked(a) + amount
BY DEF Sound, AccountType, AccountOf, Check, CanDeposit, Deposited, Booked, StaticBalance

LEMMA WithdrawnSound ==
  ASSUME NEW a, Sound(a), NEW amount \in Int, CanWithdraw(a, amount)
  PROVE  Sound(Withdrawn(a, amount)) /\ Booked(Withdrawn(a, amount)) = Booked(a) - amount
BY DEF Sound, AccountType, AccountOf, Check, CanWithdraw, Withdrawn, Booked, StaticBalance

LEMMA WithCloseProfitSound ==
  ASSUME NEW a, Sound(a), NEW profit \in Int
  PROVE  /\ Sound(WithCloseProfit(a, profit))
         /\ Booked(WithCloseProfit(a, profit)) = Booked(a) + profit
BY DEF Sound, AccountType, AccountOf, Check, WithCloseProfit, Booked, StaticBalance

LEMMA WithPositionProfitSound ==
  ASSUME NEW a, Sound(a), NEW profit \in Int
  PROVE  /\ Sound(WithPositionProfit(a, profit))
         /\ Booked(WithPositionProfit(a, profit)) = Booked(a)
BY DEF Sound, AccountType, AccountOf, Check, WithPositionProfit, Booked, StaticBalance

LEMMA WithMarginSound ==
  ASSUME NEW a, Sound(a), NEW company \in Int, NEW exchange \in Int,
         CanSetMargin(company, exchange)
  PROVE  /\ Sound(WithMargin(a, company, exchange))
         /\ Booked(WithMargin(a, company, exchange)) = Booked(a)
<1> DEFINE b == WithMargin(a, company, exchange)
<1>1. company \in Nat /\ exchange \in Nat
  BY DEF CanSetMargin
<1>2. b \in AccountType
  BY <1>1 DEF Sound, AccountType, AccountOf, WithMargin
<1>3. Check(b) /\ b.currMargin >= b.exchangeMargin
  BY <1>1 DEF Sound, AccountType, AccountOf, Check, CanSetMargin, WithMargin
<1>4. Booked(b) = Booked(a)
  BY DEF Sound, AccountType, AccountOf, WithMargin, Booked, StaticBalance
<1> QED
  BY <1>2, <1>3, <1>4 DEF Sound

LEMMA WithFrozenSound ==
  ASSUME NEW a, Sound(a), NEW margin \in Int, NEW commission \in Int,
         CanFreeze(a, margin, commission)
  PROVE  /\ Sound(WithFrozen(a, margin, commission))
         /\ Booked(WithFrozen(a, margin, commission)) = Booked(a)
<1> DEFINE b == WithFrozen(a, margin, commission)
<1>1. /\ a.frozenMargin + margin \in Nat
      /\ a.frozenCommission + commission \in Nat
  BY DEF CanFreeze, Sound, AccountType, AccountOf
<1>2. b \in AccountType
  BY <1>1 DEF Sound, AccountType, AccountOf, WithFrozen
<1>3. Check(b) /\ b.currMargin >= b.exchangeMargin
  BY <1>1 DEF Sound, AccountType, AccountOf, Check, CanFreeze, WithFrozen
<1>4. Booked(b) = Booked(a)
  BY DEF Sound, AccountType, AccountOf, WithFrozen, Booked, StaticBalance
<1> QED
  BY <1>2, <1>3, <1>4 DEF Sound

LEMMA WithoutFrozenSound ==
  ASSUME NEW a, Sound(a), NEW margin \in Int, NEW commission \in Int,
         CanUnfreeze(a, margin, commission)
  PROVE  /\ Sound(WithoutFrozen(a, margin, commission))
         /\ Booked(WithoutFrozen(a, margin, commission)) = Booked(a)
<1> DEFINE b == WithoutFrozen(a, margin, commission)
<1>1. /\ a.frozenMargin - margin \in Nat
      /\ a.frozenCommission - commission \in Nat
  BY DEF CanUnfreeze, Sound, AccountType, AccountOf
<1>2. b \in AccountType
  BY <1>1 DEF Sound, AccountType, AccountOf, WithoutFrozen
<1>3. Check(b) /\ b.currMargin >= b.exchangeMargin
  BY <1>1 DEF Sound, AccountType, AccountOf, Check, CanUnfreeze, WithoutFrozen
<1>4. Booked(b) = Booked(a)
  BY DEF Sound, AccountType, AccountOf, WithoutFrozen, Booked, StaticBalance
<1> QED
  BY <1>2, <1>3, <1>4 DEF Sound

\* One more counted trade widens what the fee totals may differ by one tolerance.
LEMMA ToleranceStep ==
  ASSUME NEW n \in Nat
  PROVE  /\ Tolerance * n \in Nat
         /\ Tolerance * (n + 1) = Tolerance * n + Tolerance
BY ToleranceNat

LEMMA ChargedSound ==
  ASSUME NEW a, Sound(a), NEW fee \in Int, NEW atSettle \in Int, CanCharge(fee, atSettle)
  PROVE  /\ Sound(Charged(a, fee, atSettle))
         /\ Booked(Charged(a, fee, atSettle)) = Booked(a) - atSettle
<1> DEFINE c == Charged(a, fee, atSettle)
<1>1. a.commissionTrades \in Nat /\ Tolerance * a.commissionTrades \in Nat
  BY ToleranceStep DEF Sound, AccountType, AccountOf
<1>2. c \in AccountType /\ c.currMargin >= c.exchangeMargin
  <2>1. fee \in Nat /\ atSettle \in Nat
    BY DEF CanCharge
  <2> DEFINE trades == IF fee = 0 /\ atSettle = 0 THEN a.commissionTrades
                                                 ELSE a.commissionTrades + 1
  <2>2. /\ trades \in Nat
        /\ a.commission + fee \in Nat
        /\ a.settleCommission + atSettle \in Nat
    BY <2>1 DEF Sound, AccountType, AccountOf
  <2>3. c = [a EXCEPT !.commission = a.commission + fee,
                      !.settleCommission = a.settleCommission + atSettle,
                      !.commissionTrades = trades]
    BY DEF Charged, Sound, AccountType, AccountOf
  <2> HIDE DEF c, trades
  <2> QED
    BY <2>2, <2>3 DEF Sound, AccountType, AccountOf
<1>3. Booked(c) = Booked(a) - atSettle
  BY DEF Sound, AccountType, AccountOf, Charged, Booked, StaticBalance
<1>4. Check(c)
  <2>1. CASE fee = 0 /\ atSettle = 0
    BY <2>1, <1>1, ToleranceNat DEF Sound, AccountType, AccountOf, Check, Charged, Distance
  <2>2. CASE ~(fee = 0 /\ atSettle = 0)
    <3>1. c.commissionTrades = a.commissionTrades + 1
      BY <2>2 DEF Sound, AccountType, AccountOf, Charged
    <3>2. Tolerance * c.commissionTrades = Tolerance * a.commissionTrades + Tolerance
      BY <3>1, <1>1, ToleranceStep
    <3> QED
      BY <3>1, <3>2, <1>1, ToleranceNat
      DEF Sound, AccountType, AccountOf, Check, Charged, CanCharge, Distance
  <2> QED
    BY <2>1, <2>2
<1> QED
  BY <1>2, <1>3, <1>4 DEF Sound

LEMMA SettledSound ==
  ASSUME NEW a, Sound(a)
  PROVE  /\ Sound(SettledAccount(a))
         /\ Booked(SettledAccount(a)) = Booked(a) + a.positionProfit
<1> DEFINE base == Balance(a) + a.commission - a.settleCommission
<1> DEFINE b == SettledAccount(a)
<1>1. base \in Int
  BY DEF Sound, AccountType, AccountOf, Balance, StaticBalance
<1>2. NewAccount(base, a.algorithm) \in AccountType
  BY <1>1 DEF Sound, AccountType, AccountOf, NewAccount
<1>3. b \in AccountType
  BY <1>2 DEF Sound, AccountType, AccountOf, SettledAccount
<1>4. Check(b) /\ b.currMargin >= b.exchangeMargin
  <2>1. Tolerance * 0 = 0
    BY ToleranceNat
  <2> QED
    BY <2>1 DEF Sound, AccountType, AccountOf, Check, Distance, SettledAccount, NewAccount
<1>5. Booked(b) = Booked(a) + a.positionProfit
  BY DEF Sound, AccountType, AccountOf, SettledAccount, NewAccount, Booked, Balance, StaticBalance
<1> QED
  BY <1>3, <1>4, <1>5 DEF Sound

(***************************************************************************)
(* What a settlement does to the balance and to the spendable part of an   *)
(* account with nothing frozen.                                            *)
(***************************************************************************)
LEMMA SettledHarmless ==
  ASSUME NEW a, Sound(a), CanSettleAccount(a)
  PROVE  /\ Distance(Balance(SettledAccount(a)), Balance(a)) <= Tolerance * a.commissionTrades
         /\ Available(SettledAccount(a)) - Available(a) - Excluded(a)
              = Balance(SettledAccount(a)) - Balance(a)
<1> DEFINE b == SettledAccount(a)
<1>1. Balance(b) - Balance(a) = a.commission - a.settleCommission
  BY DEF Sound, AccountType, AccountOf, SettledAccount, NewAccount, Balance, StaticBalance
<1>2. Balance(a) \in Int /\ Balance(b) \in Int
  BY DEF Sound, AccountType, AccountOf, SettledAccount, NewAccount, Balance, StaticBalance
<1>3. Distance(Balance(b), Balance(a)) <= Tolerance * a.commissionTrades
  <2>1. Distance(a.settleCommission, a.commission) <= Tolerance * a.commissionTrades
    BY DEF Sound, Check
  <2>2. a.commission \in Int /\ a.settleCommission \in Int
    BY DEF Sound, AccountType, AccountOf
  <2>3. Distance(Balance(b), Balance(a)) = Distance(a.settleCommission, a.commission)
    BY <1>1, <1>2, <2>2 DEF Distance
  <2> QED
    BY <2>1, <2>3
<1>4. Available(a) = Balance(a) - a.currMargin - Excluded(a)
  BY <1>2 DEF Available, CanSettleAccount, Sound, AccountType, AccountOf, Excluded
<1>5. Available(b) = Balance(b) - a.currMargin
  BY <1>2 DEF Available, Sound, AccountType, AccountOf, Excluded, SettledAccount, NewAccount
<1>6. Excluded(a) \in Int /\ a.currMargin \in Int
  BY DEF Excluded, Sound, AccountType, AccountOf
<1> QED
  BY <1>2, <1>3, <1>4, <1>5, <1>6

-----------------------------------------------------------------------------
IInv == day \in Nat /\ Sound(acc) /\ MoneyConserved /\ ledger \in Int

\* The types of the values the actions are given.
LEMMA InputTypes ==
  /\ \A amount \in Amounts : amount \in Int
  /\ \A profit \in Profits : profit \in Int
  /\ \A fee \in Fees : fee \in Int
BY AmountsInt

\* An archive Restore accepts satisfies the invariant.
LEMMA InitIInv == Init => IInv
<1> SUFFICES ASSUME Init PROVE IInv
  OBVIOUS
<1>1. acc \in ArchiveType /\ RestorableAccount(acc)
  BY AmountsInt DEF Init
<1>2. Sound(acc)
  BY <1>1 DEF Sound, ArchiveType, AccountType, AccountOf, RestorableAccount, RestorableParts,
              Check
<1>3. ledger \in Int /\ MoneyConserved
  BY <1>2 DEF Init, MoneyConserved, Booked, StaticBalance, Sound, AccountType, AccountOf
<1> QED
  BY <1>2, <1>3 DEF IInv, Init

\* A call within a day keeps the invariant if the account it makes is Sound and
\* has booked the amount that came in.
LEMMA BecomesIInv ==
  ASSUME IInv, NEW a, NEW amount \in Int, Becomes(a, amount),
         Sound(a), Booked(a) = Booked(acc) + amount
  PROVE  IInv'
BY DEF IInv, MoneyConserved, Becomes, Sound, Check, Booked, StaticBalance

\* Every step keeps the invariant: one step of the proof for every method.
LEMMA NextIInv == IInv /\ [Next]_vars => IInv'
<1> SUFFICES ASSUME IInv, [Next]_vars PROVE IInv'
  OBVIOUS
<1> USE InputTypes
<1>0. Sound(acc)
  BY DEF IInv
<1>1. ASSUME NEW amount \in Amounts, Deposit(amount) PROVE IInv'
  BY <1>0, <1>1, DepositedSound, BecomesIInv DEF Deposit
<1>2. ASSUME NEW amount \in Amounts, Withdraw(amount) PROVE IInv'
  <2>1. /\ Sound(Withdrawn(acc, amount))
        /\ Booked(Withdrawn(acc, amount)) = Booked(acc) + (-amount)
    BY <1>0, <1>2, WithdrawnSound DEF Withdraw, Sound, AccountType, AccountOf, Booked, StaticBalance
  <2> QED
    BY <1>2, <2>1, BecomesIInv DEF Withdraw
<1>3. ASSUME NEW profit \in Profits, AddCloseProfit(profit) PROVE IInv'
  BY <1>0, <1>3, WithCloseProfitSound, BecomesIInv DEF AddCloseProfit
<1>4. ASSUME NEW profit \in Profits, SetPositionProfit(profit) PROVE IInv'
  <2>1. Booked(WithPositionProfit(acc, profit)) = Booked(acc) + 0
    BY <1>0, WithPositionProfitSound DEF Sound, AccountType, AccountOf, Booked, StaticBalance
  <2> QED
    BY <1>0, <1>4, <2>1, WithPositionProfitSound, BecomesIInv DEF SetPositionProfit
<1>5. ASSUME NEW fee \in Fees, NEW atSettle \in Fees, AddCommission(fee, atSettle) PROVE IInv'
  <2>1. Booked(Charged(acc, fee, atSettle)) = Booked(acc) + (-atSettle)
    BY <1>0, <1>5, ChargedSound DEF AddCommission, Sound, AccountType, AccountOf, Booked,
                                    StaticBalance
  <2> QED
    BY <1>0, <1>5, <2>1, ChargedSound, BecomesIInv DEF AddCommission
<1>6. ASSUME NEW x \in Amounts, NEW y \in Amounts, SetMargin(x, y) PROVE IInv'
  <2>1. Booked(WithMargin(acc, x, y)) = Booked(acc) + 0
    BY <1>0, <1>6, WithMarginSound DEF SetMargin, Sound, AccountType, AccountOf, Booked,
                                       StaticBalance
  <2> QED
    BY <1>0, <1>6, <2>1, WithMarginSound, BecomesIInv DEF SetMargin
<1>7. ASSUME NEW x \in Amounts, NEW y \in Amounts, Freeze(x, y) PROVE IInv'
  <2>1. Booked(WithFrozen(acc, x, y)) = Booked(acc) + 0
    BY <1>0, <1>7, WithFrozenSound DEF Freeze, Sound, AccountType, AccountOf, Booked,
                                       StaticBalance
  <2> QED
    BY <1>0, <1>7, <2>1, WithFrozenSound, BecomesIInv DEF Freeze
<1>8. ASSUME NEW x \in Amounts, NEW y \in Amounts, Unfreeze(x, y) PROVE IInv'
  <2>1. Booked(WithoutFrozen(acc, x, y)) = Booked(acc) + 0
    BY <1>0, <1>8, WithoutFrozenSound DEF Unfreeze, Sound, AccountType, AccountOf, Booked,
                                          StaticBalance
  <2> QED
    BY <1>0, <1>8, <2>1, WithoutFrozenSound, BecomesIInv DEF Unfreeze
<1>9. CASE Settle
  BY <1>0, <1>9, SettledSound DEF Settle, IInv, MoneyConserved, Sound, AccountType, AccountOf
<1>10. CASE UNCHANGED vars
  BY <1>10 DEF vars, IInv, MoneyConserved, Sound, Check, Booked, StaticBalance
<1> QED
  BY <1>1, <1>2, <1>3, <1>4, <1>5, <1>6, <1>7, <1>8, <1>9, <1>10 DEF Next

LEMMA Invariance == Spec => []IInv
BY InitIInv, NextIInv, PTL DEF Spec

(***************************************************************************)
(* The account always has the shape of the Go struct, no amount that       *)
(* cannot be negative ever negative.                                       *)
(***************************************************************************)
THEOREM TypeCorrect == Spec => []TypeOK
<1>1. IInv => TypeOK
  BY DEF IInv, TypeOK, Sound
<1> QED
  BY <1>1, Invariance, PTL

(***************************************************************************)
(* The facade's Check after a commit never fails on an account that passed *)
(* it when it was built.                                                   *)
(***************************************************************************)
THEOREM CheckNeverFails == Spec => []CheckHolds
<1>1. IInv => CheckHolds
  BY DEF IInv, CheckHolds, Sound
<1> QED
  BY <1>1, Invariance, PTL

(***************************************************************************)
(* Money is conserved over any number of days.                             *)
(***************************************************************************)
THEOREM Conservation == Spec => []MoneyConserved
<1>1. IInv => MoneyConserved
  BY DEF IInv
<1> QED
  BY <1>1, Invariance, PTL

(***************************************************************************)
(* Restore takes back every account whose previous balance is not negative.*)
(***************************************************************************)
THEOREM RoundTripUnlessOverdrawn == Spec => []OnlyOverdrawnIsRefused
<1>1. IInv => OnlyOverdrawnIsRefused
  BY DEF IInv, OnlyOverdrawnIsRefused, Sound, AccountType, AccountOf,
         RestorableAccount, RestorableParts
<1> QED
  BY <1>1, Invariance, PTL

(***************************************************************************)
(* No settlement moves the balance by more than the tolerance of the day's *)
(* trades, nor the spendable part by anything but that and the floating    *)
(* profit it releases.                                                     *)
(***************************************************************************)
THEOREM SettlementIsHarmless == Spec => SettleIsHarmless
<1> DEFINE Harmless ==
      day' # day =>
        /\ Distance(Balance(acc'), Balance(acc)) <= Tolerance * acc.commissionTrades
        /\ Available(acc') - Available(acc) - Excluded(acc) = Balance(acc') - Balance(acc)
<1>1. IInv /\ [Next]_vars => [Harmless]_vars
  <2> SUFFICES ASSUME IInv, Next, day' # day PROVE Harmless
    BY DEF vars
  <2>1. Settle
    BY DEF Next, Deposit, Withdraw, AddCloseProfit, SetPositionProfit, AddCommission,
           SetMargin, Freeze, Unfreeze, Becomes
  <2> QED
    BY <2>1, SettledHarmless DEF IInv, Settle
<1> QED
  BY <1>1, Invariance, PTL DEF Spec, SettleIsHarmless
=============================================================================
