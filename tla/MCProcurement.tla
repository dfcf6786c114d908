----------------------------- MODULE MCProcurement -----------------------------
(* Instances of Procurement for TLC. *)
EXTENDS Procurement, TLC

CONSTANTS jit, man, first, second, c1, c2

\* no code means more than another
CodeSymmetry == Permutations(Codes)

Offer(p, k) == [price |-> p, available |-> 2, kind |-> k]

\* one supplier cheaper than the other, both the same, one above the ceiling and
\* one without a price
FewOffers == {first :> o[1] @@ second :> o[2] : o \in
  {<<Offer(1, "bamboo"), Offer(2, "wgcards")>>, <<Offer(2, "approute"), Offer(2, "bamboo")>>,
   <<Offer(3, "wgcards"), Offer(0, "approute")>>}}
===============================================================================
