-------------------------------- MODULE MCGamivo --------------------------------
(***************************************************************************)
(* Instances of GamivoFulfilment for TLC.                                  *)
(***************************************************************************)
EXTENDS GamivoFulfilment, TLC

CONSTANTS k1, k2, k3, r1, r2, w1, w2, cron

OwnPoolOnly == [k \in Keys |-> 1]

OneKeyEach == [r \in Reservations |-> 1]
TwoKeysEach == [r \in Reservations |-> 2]

AnyCount == [r \in Reservations |-> {1, 2}]
\* only one key of r2 is ever refunded
OneOfR2 == [r \in Reservations |-> IF r = r2 THEN {1} ELSE {1, 2}]
===============================================================================
