------------------------- MODULE MarketplaceFulfilment -------------------------
(***************************************************************************)
(* Kinguin, G2A and Digiseller selling from one stock, with the sweep that *)
(* expires pending reservations of them all.  Refused calls, lost answers  *)
(* and keys that cannot be decrypted are the failures here; handlers that  *)
(* die are in the Eneba and Gamivo compositions.                           *)
(***************************************************************************)
EXTENDS KinguinFulfilment, G2AFulfilment, DigisellerDelivery

marketplaceVars == <<vars, marketVars>>

Request(t) ==
  \/ GReturnInventory(t)
  \/ \E r \in Reservations :
       \/ Market(r, "kinguin") /\ KinguinRequest(t, r)
       \/ Market(r, "g2a") /\ G2ARequest(t, r)
       \/ Market(r, "digiseller") /\ Deliver(t, r)

Serves(t, m) == Row(t) # NoRow /\ Market(Row(t), m)

WorkerStep(t) ==
  \/ ReturnItem(t)
  \/ Serves(t, "kinguin") /\ KinguinStep(t)
  \/ Serves(t, "g2a") /\ G2AStep(t)
  \/ Serves(t, "digiseller") /\ DigisellerStep(t)

Sweep == SweepStart({r \in Reservations : MayStart(r)}) \/ SweepNext \/ SweepRelease

MarketplaceInit == Init /\ MarketInit

MarketplaceNext ==
  \/ \E t \in Workers : Request(t) \/ WorkerStep(t)
  \/ Within(Sweep)

MarketplaceSpec == MarketplaceInit /\ [][MarketplaceNext]_marketplaceVars

-------------------------------------------------------------------------------
(* Properties.                                                               *)

MarketplaceTypeOK == TypeOK /\ MarketTypeOK

\* What this system records as delivered to Kinguin was uploaded to Kinguin:
\* no refused upload, retry, repeated BOUGHT or release between the upload and the
\* finalize books keys the buyer cannot get.
DeliveredWasUploaded ==
  \A r \in Reservations : Market(r, "kinguin") =>
    KeysWith(r, "delivered") \union KeysWith(r, "refunded") \subseteq given[r]

\* However often a marketplace repeats a request, and whatever fails between
\* the repetitions, it is handed no more keys than the reservation asks for.
GivenWithinQuantity ==
  \A r \in Reservations : Cardinality(given[r]) <= Quantity[r]

\* G2A and Digiseller get keys in the answer itself, so each key they were ever
\* handed has a provision that stays final.
GivenIsFinal ==
  \A r \in Reservations : ~Market(r, "kinguin") => given[r] \subseteq Final(r)

\* G2A is returning an item: the key is in stock, its provision about to follow
HandingBack(r, k) == \E t \in Tasks : pc[t] = "g_refund" /\ Row(t) = r /\ k \in job[t].keys

\* Three marketplaces sell from one stock, and no key that can be claimed still
\* has a provision that promises it or says it was delivered, also when the sweep,
\* a return and a new claim follow each other within one request.  A key that G2A
\* returns once more after it was resold is taken from its new buyer, whose
\* provision is flipped with it: the tables agree, the buyer has lost his key.
SharedStockIsFree ==
  \A k \in Keys : keyState[k] = "available" =>
    \A r \in Reservations : Holds(r, k) => HandingBack(r, k)

\* The books follow the keys of a Kinguin sale at rest: it is booked in full, and
\* the refunds are the keys taken back, whether CANCELED, RETURNED or REFUNDED came
\* first and however often.  A complaint (REFUNDED) takes no key and refunds none.
\* Nothing is refunded for a key that a return of G2A's took: those rows are out.
KinguinBooksFollowKeys ==
  \A r \in Reservations \ strayed : Market(r, "kinguin") /\ ~Working(r) =>
    /\ orders[r].credit = orders[r].total
    /\ orders[r].total = Cardinality(Final(r))
    /\ orders[r].refunded = Cardinality(KeysWith(r, "refunded"))
===============================================================================
