--------------------------- MODULE KinguinFulfilment ---------------------------
(***************************************************************************)
(* HandleKinguinWebhookUseCase.  Kinguin announces each state of a sale:   *)
(* BUYING claims keys, BOUGHT (or OUT_OF_STOCK) uploads them to Kinguin    *)
(* and only then makes their provisions final; CANCELED, REVERSED,         *)
(* RETURNED and REFUNDED close the sale.  Announcements are repeated and   *)
(* come in any order.  DELIVERED only emits an event and is not a step.    *)
(***************************************************************************)
EXTENDS MarketOrders

\* "failed" is what a release sets when the fulfilment fails; a task with that
\* target goes on to the upload once it has claimed.
Fulfilling(t) == job[t].target = "failed"

\* BUYING claims for a pending row once more, and the claim is refused
Buying(t, r) ==
  /\ resv[r] \in {"none", "pending"}
  /\ Begin(t, r, "claim", [NoJob EXCEPT !.qty = Quantity[r]])

Bought(t, r) ==
  \/ /\ resv[r] = "none"
     /\ Begin(t, r, "claim", [NoJob EXCEPT !.qty = Quantity[r], !.target = "failed"])
  \/ /\ resv[r] = "pending"
     /\ Begin(t, r, "k_read", [NoJob EXCEPT !.target = "failed"])

KClaim(t) ==
  LET ok == IF Fulfilling(t) THEN "k_read" ELSE "idle" IN
    ClaimKeys(t, ok, "idle") \/ JitPurchase(t, "idle") \/ ClaimRetry(t, ok, "idle")

\* decryptPendingWithoutFinalize: whatever it raises releases the keys
DecryptPending(t) ==
  /\ pc[t] = "k_read"
  /\ LET pending == KeysWith(Row(t), "pending") IN
       \/ /\ pending # {}
          /\ Continue(t, "k_upload", [job[t] EXCEPT !.keys = pending])
       \/ /\ pending = {} \/ CanFail("decrypt")
          /\ Goto(t, "release")
  /\ UNCHANGED <<dbVars, marketVars>>

Missing(t) == job[t].keys \ given[Row(t)]

\* Mutant of UploadKeys: a refused key does not stop the fulfilment.
UploadKeysAnyway(t) ==
  /\ pc[t] = "k_upload"
  /\ \/ \E k \in Missing(t) : Give(Row(t), {k}) /\ Goto(t, "k_upload")
     \/ /\ Missing(t) = {} \/ CanFail("market")
        /\ Goto(t, "k_finalize")
        /\ UNCHANGED marketVars
  /\ UNCHANGED dbVars

\* The keys are uploaded one by one, each with its retries.  When one is given up
\* the keys are released, though those before it, and perhaps the one whose
\* answer was lost, are with Kinguin.
UploadKeys(t) ==
  /\ pc[t] = "k_upload"
  /\ \/ \E k \in Missing(t) : Give(Row(t), {k}) /\ Goto(t, "k_upload")
     \/ /\ Missing(t) = {}
        /\ Goto(t, "k_finalize")
        /\ UNCHANGED marketVars
     \/ /\ CanFail("market")
        /\ Goto(t, "release")
        /\ UNCHANGED marketVars
  /\ UNCHANGED dbVars

\* finalizeProvisions: when it raises nothing is undone.  When what follows it
\* raises (health counters, the variant), the sale is never booked: a repeated
\* BOUGHT finds the row provisioned.
FinalizeUploaded(t) ==
  /\ pc[t] = "k_finalize"
  /\ \/ /\ CanFinalize(Row(t), job[t].keys)
        /\ FinalizeProvisions(Row(t), job[t].keys)
        /\ Goto(t, "sale_check") \/ (CanFail("read") /\ Goto(t, "idle"))
     \/ /\ ~CanFinalize(Row(t), job[t].keys) \/ CanFail("rpc")
        /\ Goto(t, "idle")
        /\ UNCHANGED dbVars
  /\ UNCHANGED marketVars

\* CANCELED and REVERSED
Cancelled(t, r) ==
  \/ resv[r] = "provisioned" /\ Begin(t, r, "ret_read", NoJob)
  \/ resv[r] = "pending" /\ Begin(t, r, "release", [NoJob EXCEPT !.target = "cancelled"])
  \/ resv[r] \in Closed /\ Begin(t, r, "release_status", [NoJob EXCEPT !.target = "cancelled"])

\* RETURNED takes the keys back whatever became of the row
Returned(t, r) ==
  \/ resv[r] = "pending" /\ Begin(t, r, "release", [NoJob EXCEPT !.target = "cancelled"])
  \/ resv[r] \in Closed \union {"provisioned"} /\ Begin(t, r, "ret_read", NoJob)

\* REFUNDED is a complaint: the buyer keeps the keys
Refunded(t, r) ==
  \/ resv[r] = "pending" /\ Begin(t, r, "release", [NoJob EXCEPT !.target = "cancelled"])
  \/ /\ resv[r] \in Closed \union {"provisioned"}
     /\ Begin(t, r, "release_status", [NoJob EXCEPT !.target = "cancelled"])

KinguinRequest(t, r) ==
  Buying(t, r) \/ Bought(t, r) \/ Cancelled(t, r) \/ Returned(t, r) \/ Refunded(t, r)

KinguinStep(t) ==
  \/ Within(KClaim(t))
  \/ DecryptPending(t) \/ UploadKeys(t) \/ FinalizeUploaded(t)
  \/ Within(SaleCheck(t, "idle") \/ SaleInsert(t, "idle") \/ SaleCredit(t) \/ SaleLink(t, "idle"))
  \/ Within(Release(t, "idle") \/ ReleaseStatus(t, "idle"))
  \/ Within(ReturnSteps(t))
===============================================================================
