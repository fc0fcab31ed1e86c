----------------------------- MODULE MCPosition -----------------------------
(***************************************************************************)
(* Position on a small instance: two prices, one- and two-lot trades, and  *)
(* archived sides of up to two lots of every shape Restore has to judge,   *)
(* the out-of-order and wrong-day ones included.                           *)
(***************************************************************************)
EXTENDS Position

ArchivedLot == {Lot(d, price, 1, basis, settled) :
                  d \in {1, 2}, price \in {2}, basis \in Prices, settled \in BOOLEAN}

MCArchives == {<<a>> : a \in ArchivedLot}
                \cup {<<a, b>> : a \in ArchivedLot, b \in ArchivedLot}
=============================================================================
