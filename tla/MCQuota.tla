------------------------------ MODULE MCQuota ------------------------------
(***************************************************************************)
(* Quota on a small instance: two units to the cent, a per-lot tariff as   *)
(* on soybean meal, a proportional one worth half cents, and one with a    *)
(* single closing rate. Per-lot parts are whole cents.                     *)
(***************************************************************************)
EXTENDS Quota

Rate(byMoney, byVolume) == [byMoney |-> byMoney, byVolume |-> byVolume]

MCTariffs ==
  {[open |-> Rate(1, 0), close |-> close, closeToday |-> closeToday] :
     close \in {Rate(0, 2), Rate(1, 2)}, closeToday \in {Rate(0, 2), Rate(0, 4), Rate(1, 0)}}
=============================================================================
