-------------------------------- MODULE MCEneba --------------------------------
(***************************************************************************)
(* Instances of EnebaFulfilment for TLC.                                   *)
(***************************************************************************)
EXTENDS EnebaFulfilment, TLC

CONSTANTS k1, k2, k3, o1, o2, w1, w2, cron

MCRows == Orders \X {"sale", "replacement"}

OwnPoolOnly == [k \in Keys |-> 1]
\* k2 is in the stock of a source variant
SourcePool == [k \in Keys |-> IF k = k2 THEN 2 ELSE 1]

OneKeyEach == [o \in Orders |-> 1]

Unrelated == [o \in Orders |-> o]
\* o2 is what Eneba calls o1 after the buyer was substituted
Substituted == [o \in Orders |-> o1]

\* requests and orders are interchangeable
Symmetric == Permutations(Workers) \union Permutations(Orders)
===============================================================================
