---------------------------- MODULE MCDeviceTree ----------------------------
(* Four nodes in every shape, three properties with three names of which   *)
(* two share a bucket at any capacity and the third leaves it when the     *)
(* table grows; names and values around a multiple of four bytes.          *)
EXTENDS DeviceTree

MCLength == [name \in NodeNames \union PropertyNames |->
               IF name \in {"cpus", "reg"} THEN 3 ELSE 4]

MCHash == [name \in PropertyNames |-> IF name = "status" THEN 3 ELSE 1]
=============================================================================
