----------------------------- MODULE Lifecycle -----------------------------
(***************************************************************************)
(* The rules of one day, derived from a base and a declared schedule       *)
(* (lifecycle/rules.go): which margin is in force, which contracts still   *)
(* trade, which may only be closed, and which holdings may not be carried  *)
(* into the day.  A schedule is [first, last, investor, contracts], its    *)
(* contracts [lastTrading, lastHolding, steps], a step [from, margin,      *)
(* addOn].                                                                 *)
(***************************************************************************)
EXTENDS Integers, Sequences, FiniteSetsExt

\* The steps begin with the schedule and follow each other within it.
StepsValid(schedule, steps) ==
  /\ steps # <<>> /\ steps[1].from = schedule.first
  /\ \A n \in DOMAIN steps : steps[n].from \in schedule.first .. schedule.last
  /\ \A n \in 2 .. Len(steps) : steps[n].from > steps[n - 1].from

\* NewDailyRules; the base's expiry of a contract is its last trading day.
CanBind(base, schedule, day, version) ==
  /\ version > 0 /\ version # base.version
  /\ schedule.first <= schedule.last /\ day \in schedule.first .. schedule.last
  /\ schedule.investor \in {"Individual", "Institution"}
  /\ DOMAIN base.contracts # {} /\ DOMAIN schedule.contracts = DOMAIN base.contracts
  /\ \A i \in DOMAIN base.contracts :
       LET terms == schedule.contracts[i] IN
       /\ terms.lastHolding <= terms.lastTrading
       /\ terms.lastTrading = base.contracts[i].expires
       /\ StepsValid(schedule, terms.steps)

\* The latest step that has begun.
StepInForce(steps, day) == steps[Max({1} \cup {n \in DOMAIN steps : steps[n].from <= day})]

ContractOn(contract, terms, day) ==
  LET step == StepInForce(terms.steps, day) IN
  [contract EXCEPT !.isTrading = @ /\ day <= terms.lastTrading,
                   !.margin = step.margin, !.addOn = step.addOn]

DailyRules(base, schedule, day, version) ==
  [day |-> day, version |-> version, investor |-> schedule.investor,
   terms |-> schedule.contracts,
   contracts |-> [i \in DOMAIN base.contracts |->
                    ContractOn(base.contracts[i], schedule.contracts[i], day)]]

\* Rules that carry no schedule.
PlainRules(base) == [version |-> base.version, contracts |-> base.contracts]

Daily(rules) == "terms" \in DOMAIN rules

-----------------------------------------------------------------------------
Expired(rules, i)   == rules.day > rules.terms[i].lastTrading
CloseOnly(rules, i) == rules.day > rules.terms[i].lastHolding

\* Lots may still be opened.
CheckOpening(rules, i) ==
  /\ i \in DOMAIN rules.contracts
  /\ ~Expired(rules, i) /\ ~CloseOnly(rules, i) /\ rules.contracts[i].isTrading

\* Faulty variant: only contracts that have expired block.
BlockingExpiredOnly(rules, held) == {i \in held : Expired(rules, i)}

\* Holdings that may not be carried into the day (Assess).
Blocking(rules, held) == {i \in held : Expired(rules, i) \/ CloseOnly(rules, i)}

\* Holdings that have to be closed by the end of the day.
ExitByClose(rules, held) == {i \in held : rules.day = rules.terms[i].lastHolding}

Assessable(rules, held) == held \subseteq DOMAIN rules.contracts

\* What may not change under a position from one day to the next.
SameContract(old, new) ==
  /\ new.multiplier = old.multiplier
  /\ new.tick = old.tick
  /\ new.dateType = old.dateType
=============================================================================
