--------------------------- MODULE DigisellerDelivery ---------------------------
(***************************************************************************)
(* HandleDigisellerDeliveryUseCase: one request per paid invoice, whose    *)
(* answer is the goods.  Digiseller repeats it until it gets keys; the     *)
(* invoice id is the external reservation id, so a repetition replays the  *)
(* delivered keys.  The sale is booked after the answer has left.          *)
(***************************************************************************)
EXTENDS MarketOrders

\* A failed lookup is taken for "no reservation".
Deliver(t, r) ==
  \/ /\ resv[r] = "none" \/ CanFail("read")
     /\ Begin(t, r, "claim", [NoJob EXCEPT !.qty = Quantity[r]])
  \/ /\ resv[r] # "none"
     /\ Begin(t, r, "replay", [NoJob EXCEPT !.qty = Quantity[r]])

\* nothing to replay, or a failing decryption: a new delivery is attempted
ReplayDelivered(t) ==
  /\ pc[t] = "replay"
  /\ LET delivered == KeysWith(Row(t), "delivered") IN
       \/ /\ delivered # {}
          /\ Continue(t, "reply", [job[t] EXCEPT !.keys = delivered, !.qty = 0])
       \/ /\ delivered = {} \/ CanFail("decrypt")
          /\ Goto(t, "claim")
  /\ UNCHANGED <<dbVars, marketVars>>

\* a replay (qty 0) books no sale
AfterAnswer(t) == IF job[t].qty = 0 THEN "idle" ELSE "sale_check"

\* a provisioning that raises leaves the row to the expiry sweep
DigisellerStep(t) ==
  \/ Within(ClaimKeys(t, "prov_read", "idle"))
  \/ Within(JitPurchase(t, "idle") \/ ClaimRetry(t, "prov_read", "idle"))
  \/ Within(ProvisionRead(t, "idle") \/ ProvisionFinalize(t, "idle"))
  \/ Within(ProvisionDecrypt(t, "reply", "idle"))
  \/ ReplayDelivered(t)
  \/ Answer(t, AfterAnswer(t))
  \/ Within(SaleCheck(t, "idle") \/ SaleInsert(t, "idle") \/ SaleCredit(t) \/ SaleLink(t, "idle"))
===============================================================================
