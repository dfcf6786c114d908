---------------------------- MODULE EnebaFulfilment ----------------------------
(***************************************************************************)
(* The Eneba declared-stock webhooks - RESERVE, PROVIDE, CANCEL and the    *)
(* key-replacement RESERVE - with the cron that expires reservations, all  *)
(* running over SellerKeyOperations.  Eneba repeats any request at any     *)
(* time, so every handler may start again whenever its task is free.       *)
(*                                                                         *)
(* A reservation row is named by its external_reservation_id: the order id *)
(* for a sale, the order id with "-r1" for a replacement.  That column is  *)
(* unique, as the replacement handler's comment says.  One auction per     *)
(* order.  A request that its first read rejects changes nothing and is    *)
(* not a step.                                                             *)
(***************************************************************************)
EXTENDS ReservationExpiry

CONSTANTS
  Original,      \* originalOrderId of each order id, itself when Eneba sends none
  Quantity,      \* keyCount of each order
  Overlap,       \* whether requests about one order overlap each other and the sweep
  MaxWriteOffs   \* bound: replacement write-offs an order may collect

ASSUME RowsAre == Reservations = Orders \X {"sale", "replacement"}
ASSUME OriginalType == /\ Original \in [Orders -> Orders]
                       /\ \A o \in Orders : Original[Original[o]] = Original[o]
ASSUME QuantityType == Quantity \in [Orders -> Nat \ {0}]
ASSUME OverlapType == Overlap \in BOOLEAN
ASSUME MaxWriteOffsType == MaxWriteOffs \in Nat

Sale(o) == <<o, "sale">>
Replacement(o) == <<o, "replacement">>
IsReplacement(r) == r[2] = "replacement"
OrderOf(r) == r[1]

\* buildOrderIdCandidates
Candidates(o) == {o, Original[o]}
RowsFor(o) == {r \in Existing : OrderOf(r) \in Candidates(o)}
Newest(S) == {r \in S : \A q \in S : createdAt[q] <= createdAt[r]}
NewestTwo(S) == {r \in S : Cardinality({q \in S : createdAt[q] > createdAt[r]}) < 2}

-------------------------------------------------------------------------------
(* Which tasks work for an order, directly or through its reservations.      *)
Family(o) == {p \in Orders : Original[p] = Original[o]}

Serves(t) == {job[t].order} \union {OrderOf(r) : r \in job[t].batch}
               \union (IF Row(t) = NoRow THEN {} ELSE {OrderOf(Row(t))})

MayStart(o) == Overlap \/ \A u \in Tasks : Serves(u) \intersect Family(o) = {}

Begin(t, o, l, j) == MayStart(o) /\ Start(t, l, [j EXCEPT !.order = o]) /\ UNCHANGED dbVars

-------------------------------------------------------------------------------
(* RESERVE: a live reservation of the order makes it a no-op.                *)
Reserve(t, o) ==
  /\ \A r \in RowsFor(o) : resv[r] \notin {"pending", "provisioned"}
  /\ Begin(t, o, "claim", [NoJob EXCEPT !.row = Sale(o), !.qty = Quantity[o]])

-------------------------------------------------------------------------------
(* PROVIDE: the order's own row, else a pending row of the original order.   *)
PickForProvide(o) ==
  LET exact == {r \in RowsFor(o) : OrderOf(r) = o}
      pending == {r \in RowsFor(o) : resv[r] = "pending"}
  IN Newest(IF exact # {} THEN exact ELSE pending)

Provide(t, o) ==
  \E r \in PickForProvide(o) :
    /\ resv[r] \in {"pending", "provisioned"}
    /\ Begin(t, o, IF resv[r] = "provisioned" THEN "replay" ELSE "prov_read",
             [NoJob EXCEPT !.row = r])

\* Mutant of AfterProvision: the cases are swapped.
AfterProvisionSwapped(t) == IF IsReplacement(Row(t)) THEN "sale_check" ELSE "reply"

\* a replacement's revenue was written off already: no sale is recorded
AfterProvision(t) == IF IsReplacement(Row(t)) THEN "reply" ELSE "sale_check"

-------------------------------------------------------------------------------
(* CANCEL: the order's own row among the two newest, else the newest.        *)
PickForCancel(o) ==
  LET newest == NewestTwo(RowsFor(o))
      exact == {r \in newest : OrderOf(r) = o}
  IN Newest(IF exact # {} THEN exact ELSE newest)

Cancel(t, o) ==
  \E r \in PickForCancel(o) :
    \/ /\ resv[r] = "provisioned"
       /\ Begin(t, o, "ret_read", [NoJob EXCEPT !.row = r])
    \/ /\ resv[r] = "pending"
       /\ Begin(t, o, "release", [NoJob EXCEPT !.row = r, !.target = "cancelled"])

-------------------------------------------------------------------------------
(* Key-replacement RESERVE: writes off the key of the newest provisioned or  *)
(* cancelled reservation, if it was ever provisioned, then claims a new key. *)
ReplacementReserve(t, o) ==
  LET closed == {r \in RowsFor(o) : resv[r] \in {"provisioned", "cancelled"}}
      original == {r \in Newest(closed) : resv[r] = "provisioned" \/ EverProvisioned(r)}
  IN /\ \A r \in Reservations : orders[r].writeOff < MaxWriteOffs
     /\ \/ \E r \in original : Begin(t, o, "repl_read", [NoJob EXCEPT !.row = r])
        \/ /\ original = {}
           /\ Begin(t, o, "claim", [NoJob EXCEPT !.row = Replacement(o), !.qty = 1])

ToReplacementClaim(t) ==
  Continue(t, "claim", [NoJob EXCEPT !.order = job[t].order, !.qty = 1,
                                     !.row = Replacement(job[t].order)])

\* the first delivered or refunded provision by id, and its key's order
ReplacementRead(t) ==
  /\ pc[t] = "repl_read"
  /\ LET eligible == KeysWith(Row(t), "delivered") \union KeysWith(Row(t), "refunded") IN
       IF eligible = {}
       THEN ToReplacementClaim(t)
       ELSE \/ CanFail("read") /\ ToReplacementClaim(t)
            \/ \E k \in eligible :
                 Continue(t, "repl_faulty", [job[t] EXCEPT !.keys = {k}, !.link = keyOrder[k]])
  /\ UNCHANGED dbVars

\* key_state is set whoever holds the key by now.  The write-off needs the price
\* of the reservation, which a replacement's metadata does not have.
ReplacementFaulty(t) ==
  /\ pc[t] = "repl_faulty"
  /\ \/ /\ SetKeys(job[t].keys, "faulty")
        /\ IF job[t].link = NoRow \/ IsReplacement(Row(t))
           THEN ToReplacementClaim(t) ELSE Goto(t, "repl_debit")
        /\ UNCHANGED <<keyOrder, rowVars, orders>>
     \/ /\ CanFail("write")
        /\ ToReplacementClaim(t)
        /\ UNCHANGED dbVars

ReplacementDebit(t) ==
  /\ pc[t] = "repl_debit"
  /\ \/ SetOrder(job[t].link, [orders[job[t].link] EXCEPT !.writeOff = @ + 1])
     \/ CanFail("write") /\ UNCHANGED dbVars
  /\ ToReplacementClaim(t)

-------------------------------------------------------------------------------
(* Which rows a sweep may find past their expires_at.                        *)
CronStart == SweepStart({r \in Reservations : MayStart(OrderOf(r))})

-------------------------------------------------------------------------------
Request(t) ==
  \E o \in Orders :
    Reserve(t, o) \/ Provide(t, o) \/ Cancel(t, o) \/ ReplacementReserve(t, o)

ClaimSteps(t) ==
  ClaimKeys(t, "idle", "idle") \/ JitPurchase(t, "idle") \/ ClaimRetry(t, "idle", "idle")

\* a failed provision is noted in provider_metadata and answered success:false
ProvideSteps(t) ==
  \/ ProvisionRead(t, "idle") \/ ProvisionFinalize(t, "idle")
  \/ ProvisionDecrypt(t, AfterProvision(t), "idle")
  \/ SaleSteps(t) \/ Replay(t) \/ Reply(t)

ReplacementSteps(t) ==
  ReplacementRead(t) \/ ReplacementFaulty(t) \/ ReplacementDebit(t)

WorkerStep(t) ==
  \/ ClaimSteps(t) \/ ProvideSteps(t) \/ ReturnSteps(t) \/ ReplacementSteps(t)
  \/ Release(t, "idle") \/ ReleaseStatus(t, "idle")

Next ==
  \/ \E t \in Workers : Request(t) \/ WorkerStep(t)
  \/ CronStart \/ SweepNext \/ SweepRelease
  \/ \E t \in Tasks : Crash(t)

Spec == Init /\ [][Next]_vars

\* Requests run on until they answer, and the cron sweeps again and again:
\* EventBridge calls it on a schedule, and any expires_at passes some day.
Fairness ==
  /\ \A t \in Workers : WF_vars(WorkerStep(t))
  /\ WF_vars(CronStart) /\ WF_vars(SweepNext) /\ WF_vars(SweepRelease)

FairSpec == Spec /\ Fairness

-------------------------------------------------------------------------------
(* Properties.                                                               *)

\* Every sale whose keys were delivered is in the books once PROVIDE has
\* answered; a retry replays the keys but never records the sale again.
SoldIsRecorded ==
  \A o \in Orders : ~Working(Sale(o)) /\ EverProvisioned(Sale(o)) =>
    /\ orders[Sale(o)].rows = 1
    /\ orders[Sale(o)].credit = orders[Sale(o)].total

\* A replacement writes off a key of the order it replaces, never one that
\* another reservation holds by now.
OnlyOwnKeysGoFaulty ==
  [][\A k \in Keys : keyState'[k] = "faulty" /\ keyState[k] # "faulty" =>
       \A r \in Reservations : Holds(r, k) =>
         \E t \in Workers : pc[t] = "repl_faulty" /\ Row(t) = r]_vars

\* No reservation stays pending for ever, so no key stays blocked: a PROVIDE,
\* a CANCEL or in the end the expiry sweep settles it.
ReservationsSettle ==
  \A r \in Reservations : resv[r] = "pending" ~> resv[r] # "pending"
===============================================================================
