------------------------------ MODULE MCReconcile ------------------------------
(***************************************************************************)
(* The instance of EnebaKeyReconcile for TLC: one order for two keys.      *)
(***************************************************************************)
EXTENDS EnebaKeyReconcile

CONSTANTS k1, k2, o1, w1, cron

MCRows == Orders \X {"sale", "replacement"}

OwnPoolOnly == [k \in Keys |-> 1]
TwoKeysEach == [o \in Orders |-> 2]
Unrelated == [o \in Orders |-> o]
===============================================================================
