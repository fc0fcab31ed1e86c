----------------------------- MODULE MCSession -----------------------------
EXTENDS Session

MCOrders ==
  {[symbol |-> "i", dir |-> "Buy", offset |-> "Open", volume |-> 1, price |-> 1],
   [symbol |-> "i", dir |-> "Sell", offset |-> "Close", volume |-> 1, price |-> 1]}

MCValve == [allow |-> TRUE, max |-> 1, legs |-> {[symbol |-> "i", side |-> "Long", day |-> "monday"]}]

=============================================================================
