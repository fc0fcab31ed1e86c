---------------------------- MODULE Experiments ----------------------------
(***************************************************************************)
(* Any script of the oracle against any counter.                            *)
(***************************************************************************)
EXTENDS Commands

CONSTANTS
  Names,      \* the scripts that are run
  Worlds(_)   \* what a script may find: the lots by leg, and whether a plain close means history

Script(n) == IF n \in DOMAIN ProbeScripts THEN ProbeScripts[n] ELSE CommandScripts[n]

\* ctp-cancel is for the orders that another session, now dead, left standing.
Leftovers(n) ==
  LET one == [NewOrder(Long, "Open", 1) EXCEPT !.st = "alive"]
  IN  IF n = "ctpCancel" THEN {<<>>, <<one>>, <<one, one>>} ELSE {<<>>}

Init ==
  \E n \in Names : \E world \in Worlds(n), orders \in Leftovers(n) :
    /\ name = n
    /\ counter = [pos |-> world.pos, history |-> world.history, orders |-> orders]
    /\ view = [pos |-> world.pos, status |-> "none"]
    /\ todo = Script(n) /\ later = <<>>
    /\ at = [ph |-> "next", id |-> 0, p |-> NoLots, n |-> 0, empty |-> 0]
    /\ out = [stage |-> "main", failed |-> FALSE, told |-> {}]

RunnerStep == (ProbeStep \/ CommandStep) /\ UNCHANGED name
\* The commands keep no picture of the lots: they ask the counter each time.
Pictured == name \in DOMAIN ProbeScripts /\ LotsArrive
Next == RunnerStep \/ CounterActs \/ Pictured \/ OrderArrives
Spec == Init /\ [][Next]_vars /\ WF_vars(RunnerStep)

-----------------------------------------------------------------------------
ClosesHistory ==
  {"closeOrder", "feeCloseHistory", "positionFrozen", "positionDateType", "flatten",
   "ctpCloseOrder", "ctpCloseFeeBare", "ctpCloseFeeYd", "ctpQuota", "ctpExtExplicit", "ctpExtOpposite",
   "ctpExtMulti", "ctpExtRounding", "ctpOrderCloseYd", "ctpFlatten"}

\* Scripts that send a close of history and count on there being none
\* (reject.go:82), which they do not look for.
CountOnNoHistory == {"ctpReject", "ctpPairs", "ctpPriority"}

\* Lots carried over from earlier days cost days to replace: no script touches
\* them but those whose subject is closing them (experiments.go:300-318).
HistoryIsSafe ==
  [][name \notin ClosesHistory \cup CountOnNoHistory => \A leg \in Legs : counter'.pos[leg].his >= counter.pos[leg].his]_vars

\* At the end no order stands that nobody is told of and nobody takes back.
\* expFrozen leaves one when its dump fails (exp_frozen.go:99).
NothingLeftStanding ==
  out.stage = "ended" /\ name # "frozen" =>
    \A i \in DOMAIN counter.orders :
      \/ Over(counter.orders[i].st)
      \/ counter.orders[i].cancel
      \/ i \in out.told
      \/ name = "ctpCancel" /\ out.failed

EndFlat == {"marginPrice", "feeRates", "feeForm", "feeBase", "maxMarginSide", "maxMarginLock", "closeProfitSign"}

\* A script that must leave no lots of today behind and reports no failure left none.
EndsFlat ==
  out.stage = "ended" /\ ~out.failed =>
    /\ name \in EndFlat => \A leg \in Legs : counter.pos[leg].today = 0
    /\ name \in {"flatten", "ctpRestingPrice"} => \A leg \in Legs : AllLots(counter.pos[leg]) = 0
    /\ name = "ctpFlatten" => \A leg \in Legs : AllLots(counter.pos[leg]) <= ProtectedLots[leg]

\* Every script ends, whatever the counter does.
EveryScriptEnds == <>(out.stage = "ended")

=============================================================================
