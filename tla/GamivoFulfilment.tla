--------------------------- MODULE GamivoFulfilment ---------------------------
(***************************************************************************)
(* The Gamivo import API - POST /reservation, /order, /refund and GET      *)
(* /keys - with the expiry cron, over SellerKeyOperations.  Gamivo names a *)
(* reservation by the id this system answered, so a repeated /reservation  *)
(* opens another row, and every other request goes straight to its row.    *)
(* Keys are delivered by /order; a refund announces the cumulative number  *)
(* of refunded keys.  A request that changes nothing is not a step.        *)
(***************************************************************************)
EXTENDS ReservationExpiry

CONSTANTS
  Quantity,      \* keys each reservation asks for
  RefundCounts,  \* bound: the refunded_keys_count values announced for each
  Overlap        \* whether requests about one reservation overlap each other and the sweep

ASSUME QuantityType == Quantity \in [Reservations -> Nat \ {0}]
ASSUME RefundCountsType == RefundCounts \in [Reservations -> SUBSET (Nat \ {0})]
ASSUME OverlapType == Overlap \in BOOLEAN

MayStart(r) == Overlap \/ ~Working(r)

Begin(t, r, l, j) ==
  /\ MayStart(r)
  /\ Start(t, l, [j EXCEPT !.row = r])
  /\ UNCHANGED dbVars

-------------------------------------------------------------------------------
(* POST /reservation: external_reservation_id is a random UUID, so the row   *)
(* is one that no other request is about to create.                          *)
Reserve(t, r) ==
  /\ resv[r] = "none"
  /\ ~Working(r)
  /\ Begin(t, r, "claim", [NoJob EXCEPT !.qty = Quantity[r]])

-------------------------------------------------------------------------------
(* POST /order: a pending row whose expires_at has passed is released and    *)
(* refused, a provisioned one is replayed, anything else is provisioned, and *)
(* when that fails released as failed.                                       *)
Order(t, r) ==
  \/ /\ resv[r] = "pending"
     /\ Begin(t, r, "release", [NoJob EXCEPT !.target = "expired"])
  \/ /\ resv[r] = "provisioned"
     /\ Begin(t, r, "replay", NoJob)
  \/ /\ resv[r] \in {"pending", "cancelled", "failed"}
     /\ Begin(t, r, "prov_read", [NoJob EXCEPT !.target = "failed"])

\* GET /orders/keys: the delivered keys, whatever the status of the row
GetKeys(t, r) ==
  /\ KeysWith(r, "delivered") # {}
  /\ Begin(t, r, "replay", NoJob)

-------------------------------------------------------------------------------
(* POST /refund: a cumulative count for a provisioned row, a cancellation    *)
(* for any other.                                                            *)
Refund(t, r) ==
  \/ /\ resv[r] = "provisioned"
     /\ \E count \in RefundCounts[r] : Begin(t, r, "refund_read", [NoJob EXCEPT !.qty = count])
  \/ /\ resv[r] = "pending"
     /\ Begin(t, r, "release", [NoJob EXCEPT !.target = "cancelled"])
  \/ /\ resv[r] \in Closed
     /\ Begin(t, r, "refund_cancel", NoJob)

\* Mutant of RefundRead: takes the cumulative count for a number of new refunds.
RefundReadAsDelta(t) ==
  /\ pc[t] = "refund_read"
  /\ Continue(t, "ret_read", [job[t] EXCEPT !.event = RefundedCount(Row(t)) + job[t].qty])
  /\ UNCHANGED dbVars

\* what the count adds to the keys refunded so far; nothing new is a replay
RefundRead(t) ==
  /\ pc[t] = "refund_read"
  /\ LET refunded == RefundedCount(Row(t))
         target == MinOf(job[t].qty, ProvisionedCount(Row(t)))
     IN IF target <= refunded
        THEN Goto(t, "idle")
        ELSE Continue(t, "ret_read", [job[t] EXCEPT !.qty = target - refunded,
                                                    !.event = target])
  /\ UNCHANGED dbVars

RefundCancel(t) ==
  /\ pc[t] = "refund_cancel"
  /\ SetReservation(Row(t), "cancelled")
  /\ Goto(t, "idle")
  /\ UNCHANGED <<keyVars, prov, createdAt, orders>>

-------------------------------------------------------------------------------
Request(t) ==
  \E r \in Reservations : Reserve(t, r) \/ Order(t, r) \/ GetKeys(t, r) \/ Refund(t, r)

ClaimSteps(t) ==
  ClaimKeys(t, "idle", "idle") \/ JitPurchase(t, "idle") \/ ClaimRetry(t, "idle", "idle")

OrderSteps(t) ==
  \/ ProvisionRead(t, "release") \/ ProvisionFinalize(t, "release")
  \/ ProvisionDecrypt(t, "sale_check", "release")
  \/ SaleSteps(t) \/ Replay(t) \/ Reply(t)

RefundSteps(t) == RefundRead(t) \/ RefundCancel(t) \/ ReturnSteps(t)

WorkerStep(t) ==
  \/ ClaimSteps(t) \/ OrderSteps(t) \/ RefundSteps(t)
  \/ Release(t, "idle") \/ ReleaseStatus(t, "idle")

CronStart == SweepStart({r \in Reservations : MayStart(r)})

Next ==
  \/ \E t \in Workers : Request(t) \/ WorkerStep(t)
  \/ CronStart \/ SweepNext \/ SweepRelease
  \/ \E t \in Tasks : Crash(t)

Spec == Init /\ [][Next]_vars

Fairness ==
  /\ \A t \in Workers : WF_vars(WorkerStep(t))
  /\ WF_vars(CronStart) /\ WF_vars(SweepNext) /\ WF_vars(SweepRelease)

FairSpec == Spec /\ Fairness

-------------------------------------------------------------------------------
(* Properties.                                                               *)

\* The ledger follows the keys: once no request is at work on a reservation,
\* its order has been debited for exactly the keys that were returned, through
\* any sequence of partial refunds, repeated counts and a final refund.
LedgerFollowsKeys ==
  \A r \in Reservations : ~Working(r) =>
    orders[r].refunded = RefundedCount(r)

\* refunded_keys_count is cumulative: however often and in whatever order the
\* counts are announced, no more keys are taken back than the largest of them.
RefundedAsAnnounced ==
  \A r \in Reservations :
    \/ RefundedCount(r) = 0
    \/ \E count \in RefundCounts[r] : RefundedCount(r) <= count

\* A reservation whose keys Gamivo was given stays provisioned as long as the
\* buyer holds one of them, so that a repeated /order gets the same keys.
DeliveredIsReplayable ==
  \A r \in Reservations : ~Working(r) /\ KeysWith(r, "delivered") # {} =>
    resv[r] = "provisioned"

\* No reservation stays pending for ever: an order, a refund or in the end the
\* expiry sweep settles it.
ReservationsSettle ==
  \A r \in Reservations : resv[r] = "pending" ~> resv[r] # "pending"
===============================================================================
