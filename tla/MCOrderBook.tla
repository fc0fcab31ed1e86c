---------------------------- MODULE MCOrderBook ----------------------------
(***************************************************************************)
(* OrderBook with three ids and six sequence numbers.  Books are restored  *)
(* from archives of up to two orders with numbers from 0 to 3 under a high *)
(* water of 0 or 2: duplicate numbers, duplicate ids, numbers above the    *)
(* high water and the empty id all occur among them and are refused.       *)
(***************************************************************************)
EXTENDS OrderBook

CONSTANTS a, b, c, o1, o2

ArchivedOrders == {[id |-> id, entry |-> Entry(o1, n)] : id \in {a, b, NoID}, n \in 0 .. 3}

MCArchives == {[last |-> last, entries |-> entries] :
                 last \in {0, 2},
                 entries \in {{x, y} : x \in ArchivedOrders, y \in ArchivedOrders} \cup {{}}}
=============================================================================
