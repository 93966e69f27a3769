---------------------------- MODULE MCWarehouse ----------------------------
(* Warehouse for TLC: three bolts and one nut in stock, washers without a   *)
(* stock row; calls that compete, repeat an id across SKUs, ask for too     *)
(* much, for nothing, or for an unknown SKU.                                *)
EXTENDS Warehouse

R(id, sku, quantity) == [id |-> id, sku |-> sku, quantity |-> quantity]

MCSupply == [s \in {"bolt", "nut"} |-> IF s = "bolt" THEN 3 ELSE 1]
MCWorkload ==
    { <<R(1, "bolt", 2), R(2, "bolt", 2), R(3, "bolt", 1)>>,      \* competing for too few
      <<R(1, "bolt", 2), R(1, "bolt", 2), R(1, "nut", 1)>>,       \* repeated under one id
      <<R(1, "bolt", 2), R(1, "nut", 1), R(2, "bolt", 2)>>,
      <<R(2, "washer", 1), R(3, "bolt", 0), R(1, "bolt", 4)>> }   \* refused

=============================================================================
