-------------------------------- MODULE Risk --------------------------------
(***************************************************************************)
(* The risk policy of a caller (risk/policy.go): three thresholds, which   *)
(* of them an account is beyond, and the deposit that would bring it back. *)
(* A policy is [ratio, equity, available]; the ratio of margin to balance  *)
(* is in percent.  Numbers beyond the bounded precision are left out.      *)
(***************************************************************************)
EXTENDS Integers, FiniteSetsExt

CONSTANT Cent

A == INSTANCE AccountOps WITH Tolerance <- Cent

PolicyValid(policy) == policy.ratio > 0 /\ policy.equity > 0 /\ policy.available >= 0

\* A hundred times the margin beyond the ratio; compared without dividing.
Gap(acc, policy) == acc.currMargin * 100 - A!Balance(acc) * policy.ratio

\* Without a positive balance there is no ratio.
HasRiskRatio(acc) == A!Balance(acc) > 0

\* The thresholds the account is beyond.
Beyond(acc, policy) ==
  {x \in {"Ratio", "Equity", "Available"} :
     CASE x = "Ratio"  -> HasRiskRatio(acc) /\ Gap(acc, policy) > 0
       [] x = "Equity" -> A!Balance(acc) < policy.equity
       [] OTHER        -> A!Available(acc) < policy.available}

DivUp(a, b) == (a + b - 1) \div b

\* Faulty variant: the remainder of the division is dropped.
GapDepositDown(acc, policy) == (Gap(acc, policy) \div (policy.ratio * Cent)) * Cent

\* The gap over the ratio, up to the cent.
GapDeposit(acc, policy) == DivUp(Gap(acc, policy), policy.ratio * Cent) * Cent

RequiredDeposit(acc, policy) ==
  LET needed == Max({0, policy.equity - A!Balance(acc), policy.available - A!Available(acc)}
                      \cup IF Gap(acc, policy) > 0 THEN {GapDeposit(acc, policy)} ELSE {})
  IN  DivUp(needed, Cent) * Cent

Assess(acc, policy) ==
  [account |-> acc, policy |-> policy, beyond |-> Beyond(acc, policy),
   deposit |-> RequiredDeposit(acc, policy)]

CanAssess(acc, policy) == PolicyValid(policy) /\ A!RestorableAccount(acc)
=============================================================================
