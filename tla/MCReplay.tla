------------------------------ MODULE MCReplay ------------------------------
(***************************************************************************)
(* Scripts of up to three events for the account of MCTrading whose        *)
(* contract keeps today and history lots apart.  Some events share a name, *)
(* one carries two things, one names a contract the rules do not have, and *)
(* some are of the next day or settle to a day that is not the next one.   *)
(***************************************************************************)
EXTENDS MCTrading, Replay

ReplayAccounts == [name \in {"shanghai"} |-> MCAccounts[name]]

Event(id, kind, on, load) == [id |-> id, kind |-> kind, day |-> on, load |-> load]

Settle(id, on, next, version) ==
  Event(id, "settle", on,
        [settlement |-> [next |-> next, version |-> version, price |-> [i \in {m, n} |-> 6]]])

Policy(ratio, equity, available) == [policy |-> [ratio |-> ratio, equity |-> equity, available |-> available]]

MCEvents ==
  {Event("accept", "accept", 1, [order |-> [id |-> orderA, request |-> Request(n, "Sell", "Open", 4, 1)]]),
          Event("fill", "fill", 1, [ref |-> orderA]), Event("cancel", "cancel", 1, [ref |-> orderA]),
          Event("trade", "trade", 1, [trade |-> Request(n, "Buy", "Close", 4, 1)]),
          Event("trade", "trade", 1, [trade |-> Request(m, "Sell", "Close", 6, 1)]),
          Event("mark", "mark", 1, [quote |-> [inst |-> n, last |-> 6, pre |-> 0]]),
          Event("deposit", "deposit", 1, [amount |-> 4]), Event("late", "withdraw", 2, [amount |-> 4]),
          Event("withdraw", "withdraw", 1, [amount |-> 6]), Event("deposit", "withdraw", 1, [amount |-> 2]),
          Event("double", "deposit", 1, [amount |-> 4, ref |-> orderA]),
          Event("risk", "risk", 1, Policy(30, 31, 7)), Event("strict", "risk", 1, Policy(7, 20, 0)),
          Event("later", "risk", 2, Policy(30, 1, 30)),
          Settle("settle", 1, 2, 2), Settle("plain", 1, 2, 0), Settle("skip", 1, 4, 2),
          Settle("unbound", 1, 2, 3), Settle("evening", 2, 4, 1)}
=============================================================================
