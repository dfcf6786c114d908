------------------------------- MODULE MCMarkets -------------------------------
(***************************************************************************)
(* Instances of MarketplaceFulfilment for TLC.                             *)
(***************************************************************************)
EXTENDS MarketplaceFulfilment

CONSTANTS k1, k2, k3, kin, gtwo, digi, w1, w2, cron

OnePool == [k \in Keys |-> 1]

OneOfEach == [r \in Reservations |-> CASE r = kin -> "kinguin" [] r = gtwo -> "g2a"
                                       [] r = digi -> "digiseller"]
OneKeyEach == [r \in Reservations |-> 1]
TwoForKinguin == [r \in Reservations |-> IF r = kin THEN 2 ELSE 1]
===============================================================================
