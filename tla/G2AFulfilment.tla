----------------------------- MODULE G2AFulfilment -----------------------------
(***************************************************************************)
(* The G2A contract: POST /reservation provisions the keys and answers     *)
(* them, PUT renews it, DELETE cancels it, POST /order books the sale, GET *)
(* and DELETE /order/:id/inventory read the keys again and return some.    *)
(* G2A learns the id of a reservation from the answer that carries its     *)
(* keys, so it can only ask about a row it was given keys of.  One product *)
(* per reservation.                                                        *)
(***************************************************************************)
EXTENDS MarketOrders

Known(r) == given[r] # {}

\* the external reservation id is a fresh UUID
GReserve(t, r) ==
  /\ resv[r] = "none" /\ ~Working(r)
  /\ Begin(t, r, "claim", [NoJob EXCEPT !.qty = Quantity[r], !.target = "failed"])

\* The order id replaces external_order_id; a second order is refused while the
\* row is provisioned, an expired row always.
GOrder(t, r) ==
  /\ Known(r)
  /\ resv[r] # "expired"
  /\ ~(r \in ordered /\ resv[r] = "provisioned")
  /\ Begin(t, r, "g_order", NoJob)

OrderMark(t) ==
  /\ pc[t] = "g_order"
  /\ ordered' = ordered \union {Row(t)}
  /\ Goto(t, "g_keys")
  /\ UNCHANGED <<dbVars, given, items, strayed>>

OrderKeys(t) ==
  /\ pc[t] = "g_keys"
  /\ Continue(t, "sale_check", [job[t] EXCEPT !.keys = KeysWith(Row(t), "delivered")])
  /\ UNCHANGED <<dbVars, marketVars>>

\* A renewal in time moves expires_at and answers the keys of the row again.
\* One past expires_at, whatever the status, marks the row expired and claims
\* anew under the same id; that claim is refused, and the keys stay provisioned
\* behind the expired row.
GRenew(t, r) ==
  /\ Known(r)
  /\ \/ /\ resv[r] # "expired"
        /\ Begin(t, r, "reply",
             [NoJob EXCEPT !.keys = KeysWith(r, "pending") \union KeysWith(r, "delivered")])
     \/ Begin(t, r, "g_expire", [NoJob EXCEPT !.qty = Quantity[r], !.target = "expired"])

GCancel(t, r) ==
  /\ Known(r)
  /\ \/ resv[r] = "provisioned" /\ Begin(t, r, "ret_read", NoJob)
     \/ resv[r] = "pending" /\ Begin(t, r, "release", [NoJob EXCEPT !.target = "cancelled"])

GGetInventory(t, r) ==
  /\ Known(r)
  /\ KeysWith(r, "delivered") # {}
  /\ Begin(t, r, "replay", NoJob)

\* The items to return are named by key alone: whichever delivered provisions
\* those keys have are taken, also those of a later buyer, be it of another
\* marketplace.  Each key is put back in stock and then its provision flipped,
\* both without another look.
Sent == UNION {given[r] : r \in {r \in Reservations : Market(r, "g2a")}}

DeliveredOf(S) == {p \in Reservations \X S : prov[p[1]][p[2]] = "delivered"}

Item(p) == [NoJob EXCEPT !.row = p[1], !.keys = {p[2]}]

GReturnInventory(t) ==
  /\ \E S \in SUBSET Sent : \E p \in DeliveredOf(S) :
       /\ \A q \in DeliveredOf(S) : MayStart(q[1])
       /\ Start(t, "g_return", Item(p))
       /\ items' = [items EXCEPT ![t] = DeliveredOf(S) \ {p}]
  /\ UNCHANGED <<dbVars, given, ordered, strayed>>

ReturnKey(t) ==
  /\ pc[t] = "g_return"
  /\ SetKeys(job[t].keys, "available")
  /\ Goto(t, "g_refund")
  /\ UNCHANGED <<keyOrder, rowVars, orders, marketVars>>

\* the next item, or the end of the return
NextItem(t) ==
  \/ items[t] = {} /\ Goto(t, "idle") /\ UNCHANGED items
  \/ \E p \in items[t] :
       /\ Continue(t, "g_return", Item(p))
       /\ items' = [items EXCEPT ![t] = @ \ {p}]

\* Mutant of RefundItem: the provision stays delivered.
RefundItemNot(t) ==
  /\ pc[t] = "g_refund"
  /\ NextItem(t)
  /\ UNCHANGED <<dbVars, given, ordered, strayed>>

RefundItem(t) ==
  /\ pc[t] = "g_refund"
  /\ SetProvisions(Row(t), job[t].keys, "refunded")
  /\ strayed' = strayed \union {r \in {Row(t)} : ~Market(r, "g2a")}
  /\ NextItem(t)
  /\ UNCHANGED <<keyVars, resv, createdAt, orders, given, ordered>>

ReturnItem(t) == ReturnKey(t) \/ RefundItem(t)

\* a provisioning that raises releases the row as failed, in a renewal nothing
GFailed(t) == IF job[t].target = "failed" THEN "release" ELSE "idle"

ExpireRow(t) ==
  /\ pc[t] = "g_expire"
  /\ SetReservation(Row(t), "expired")
  /\ Goto(t, "claim")
  /\ UNCHANGED <<keyVars, prov, createdAt, orders, marketVars>>

G2ARequest(t, r) ==
  \/ GReserve(t, r) \/ GOrder(t, r) \/ GRenew(t, r) \/ GCancel(t, r)
  \/ GGetInventory(t, r)

G2AStep(t) ==
  \/ Within(ClaimKeys(t, "prov_read", "idle"))
  \/ Within(JitPurchase(t, "idle") \/ ClaimRetry(t, "prov_read", "idle"))
  \/ Within(ProvisionRead(t, GFailed(t)) \/ ProvisionFinalize(t, GFailed(t)))
  \/ Within(ProvisionDecrypt(t, "reply", GFailed(t)))
  \/ Within(Release(t, "idle") \/ ReleaseStatus(t, "idle"))
  \/ Within(ReturnSteps(t)) \/ Within(Replay(t)) \/ Within(SaleSteps(t))
  \/ OrderMark(t) \/ OrderKeys(t) \/ ExpireRow(t)
  \/ Answer(t, "idle")
===============================================================================
