----------------------------- MODULE MCAccount -----------------------------
(***************************************************************************)
(* Account on a small instance. It starts from a new account or from one   *)
(* archived in the middle of a day with an order frozen, under either      *)
(* profit algorithm; the archives over the tolerance and the one with a    *)
(* negative freeze are refused. A cent is one unit.                        *)
(***************************************************************************)
EXTENDS Account

MCArchives ==
  {NewAccount(0, algorithm) : algorithm \in Algorithms}
    \cup {[NewAccount(2, algorithm) EXCEPT
             !.frozenMargin = 1, !.frozenCommission = 1, !.settleCommission = s,
             !.commission = 1, !.commissionTrades = 1] :
             algorithm \in Algorithms, s \in {2, 3}}
    \cup {[NewAccount(1, "All") EXCEPT !.frozenMargin = -1]}

MCProfits == {-1, 1}
=============================================================================
