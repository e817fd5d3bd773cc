------------------------------ MODULE MCDelivery ------------------------------
(* Delivery on small instances.                                             *)
EXTENDS Delivery

CONSTANTS p1, r1, r2, c1, c2

AllOrGood == <<AllClasses, {"good"}>>
OnlyGood == [e \in 1 .. NumEvents |-> {"good"}]
OnePartition == [e \in 1 .. NumEvents |-> p1]
===============================================================================
