------------------------------- MODULE MCListings -------------------------------
(* Instances of Listings for TLC. *)
EXTENDS Listings, TLC

CONSTANTS one, cb1, cb2, pricing, declared, remote

Phase == (pricing :> "pricing") @@ (declared :> "declared") @@ (remote :> "remote")
OneEach == {pricing, declared, remote}

Smart(net) == [net |-> net, smart |-> TRUE, follows |-> TRUE, autoPrice |-> TRUE]
Plain == [net |-> FALSE, smart |-> FALSE, follows |-> TRUE, autoPrice |-> TRUE]
ByHand == [net |-> FALSE, smart |-> FALSE, follows |-> FALSE, autoPrice |-> FALSE]

Offered(c, ok) == [cost |-> c, credited |-> ok, available |-> 1]
InStock == [keys |-> 2, keyCost |-> 10, offers |-> {}]
Supplied == [keys |-> 0, keyCost |-> 10, offers |-> {Offered(10, TRUE), Offered(14, TRUE)}]
Dearer == [keys |-> 0, keyCost |-> 10, offers |-> {Offered(10, FALSE), Offered(14, TRUE)}]
NoCredit == [keys |-> 0, keyCost |-> 10, offers |-> {Offered(10, FALSE)}]

FewSupplies == {InStock, Supplied, Dearer, NoCredit}
\* two above the floor with a gap, two below it, and none
FewRivals == {<<20, 26>>, <<8, 9>>, << >>}

FewStarts ==
  {[mode |-> Smart(TRUE), supply |-> Supplied, rivals |-> <<20, 26>>],
   [mode |-> Smart(FALSE), supply |-> InStock, rivals |-> <<8, 9>>],
   [mode |-> Plain, supply |-> NoCredit, rivals |-> <<20, 26>>],
   [mode |-> ByHand, supply |-> Dearer, rivals |-> <<20, 26>>]}
===============================================================================
