------------------------------- MODULE Valve -------------------------------
(***************************************************************************)
(* The valve every order of the oracle passes                               *)
(* (src/cmd/oracle/safety/safety.go), with the two translations of an order *)
(* of a protocol into an intent, which differ in their words only.          *)
(***************************************************************************)
EXTENDS Integers

CONSTANT NoDay      \* the counter has not said its trading day yet

ClosingOffsets == {"Close", "CloseToday", "CloseYesterday"}

\* A buy closes a short position and a sell a long one.
ClosesSide(o) == IF o.dir = "Buy" THEN "Short" ELSE "Long"

Intent(o) ==
  LET closing == o.offset \in ClosingOffsets
  IN  [symbol |-> o.symbol, closing |-> closing, closes |-> IF closing THEN ClosesSide(o) ELSE "Unknown",
       volume |-> o.volume, price |-> o.price]

\* An unknown day protects as the protected day does.
Blocks(leg, in, day) ==
  /\ leg.symbol = in.symbol /\ in.closing
  /\ day \in {NoDay, leg.day}
  /\ leg.side = in.closes

\* The first thing wrong with an intent; a valve has allow, max, legs and day.
Refusal(v, in) ==
  CASE ~v.allow -> "not-allowed"
    [] v.allow /\ \E leg \in v.legs : Blocks(leg, in, v.day) -> "protected"
    [] OTHER -> IF in.volume <= 0 THEN "volume"
                ELSE IF v.max > 0 /\ ~in.closing /\ in.volume > v.max THEN "max-volume"
                ELSE IF in.price <= 0 THEN "price" ELSE "none"

Admits(v, o) == Refusal(v, Intent(o)) = "none"

=============================================================================
