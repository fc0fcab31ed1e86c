------------------------------ MODULE Counter ------------------------------
(***************************************************************************)
(* A futures counter as an experiment of the oracle sees it: the lots of a   *)
(* leg, opened today or before, and the orders of this experiment.  Orders   *)
(* are small and trade whole.                                                *)
(***************************************************************************)
EXTENDS Integers, Sequences, FiniteSetsExt

NoLots == [today |-> 0, his |-> 0]

AllLots(p) == p.today + p.his

ClosingOffsets == {"Close", "CloseToday", "CloseYesterday"}

\* Offsets that take history only: a plain close does where the exchange tells
\* history from today's lots.
HistoryOffsets(history) == {"CloseYesterday"} \cup (IF history THEN {"Close"} ELSE {})

\* Lots withheld by standing orders with one of the offsets.
Withheld(c, leg, offs) ==
  MapThenSumSet(LAMBDA i : c.orders[i].n,
    {i \in DOMAIN c.orders : c.orders[i].leg = leg /\ c.orders[i].st = "alive" /\ c.orders[i].off \in offs})

Room(c, o) ==
  LET p == c.pos[o.leg]
      his == HistoryOffsets(c.history)
  IN  CASE o.off = "Open"       -> TRUE
        [] o.off = "CloseToday" -> o.n <= p.today - Withheld(c, o.leg, {"CloseToday"})
        [] o.off \in his        -> o.n <= p.his - Withheld(c, o.leg, his)
        [] OTHER                -> o.n <= AllLots(p) - Withheld(c, o.leg, ClosingOffsets)

\* A close that may take either takes any mixture: the counter chooses.
Traded(p, o, history) ==
  IF o.off = "Open" THEN {[p EXCEPT !.today = @ + o.n]}
  ELSE LET mixtures == {t \in 0 .. o.n : /\ t <= p.today /\ o.n - t <= p.his
                                         /\ o.off = "CloseToday" => t = o.n
                                         /\ o.off \in HistoryOffsets(history) => t = 0}
       IN  {[today |-> p.today - t, his |-> p.his - (o.n - t)] : t \in mixtures}

NewOrder(leg, off, n) == [leg |-> leg, off |-> off, n |-> n, st |-> "sent", cancel |-> FALSE]

\* What may become of the counter by the acceptance, refusal, trade or end of an order.
Outcomes(c, i) ==
  LET o == c.orders[i]
      becomes(st) == [c EXCEPT !.orders[i].st = st]
  IN  CASE o.st = "sent"  -> {becomes("refused")} \cup (IF Room(c, o) THEN {becomes("alive")} ELSE {})
        [] o.st = "alive" -> (IF o.cancel THEN {becomes("cancelled")} ELSE {}) \cup
                             {[becomes("filled") EXCEPT !.pos[o.leg] = p] : p \in Traded(c.pos[o.leg], o, c.history)}
        [] OTHER          -> {}

Cancelling(c, ids) ==
  [c EXCEPT !.orders = [i \in DOMAIN @ |-> IF i \in ids THEN [@[i] EXCEPT !.cancel = TRUE] ELSE @[i]]]

AliveOrders(c) == {i \in DOMAIN c.orders : c.orders[i].st = "alive"}

\* What a report says of an order: nothing before the counter has looked at it.
Reported(c, i) == IF c.orders[i].st = "sent" THEN "none" ELSE c.orders[i].st

Over(status) == status \in {"filled", "refused", "cancelled"}

=============================================================================
