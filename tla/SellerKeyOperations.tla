-------------------------- MODULE SellerKeyOperations --------------------------
(***************************************************************************)
(* SellerKeyOperationsService: what the webhook handlers and the expiry    *)
(* cron call to claim, provision, release and return keys.  Each action is *)
(* the code between two awaits of one method, so steps of several tasks    *)
(* interleave.  A task is one running handler; pc names the call it makes  *)
(* next and job holds its local variables.  The modules that model the     *)
(* handlers start tasks and choose, through the parameters named ok and    *)
(* raised, where a method returns to; "idle" ends the task.                *)
(*                                                                         *)
(* Loops over keys are one step when nothing else reads their intermediate *)
(* states (linking keys to an order); flipping provisions after a restock  *)
(* is one step per row, because handlers and crashes do come between.      *)
(***************************************************************************)
EXTENDS SellerDatabase

CONSTANTS
  Tasks,    \* handlers that can run at once
  NoOrder,  \* "no order id": an idle task serves none
  Orders,   \* the marketplace's order ids
  Faults    \* which failures happen, see FaultKinds

FaultKinds == {"crash",    \* the process dies, or an error nobody catches ends a handler
               "rpc",      \* a stored procedure raises and has no effect
               "read",     \* a query whose error is caught and logged fails
               "refunds",  \* reading the completed refunds fails and is taken for none
               "write",    \* an update whose error is caught and logged fails
               "market",   \* the marketplace refuses a call, or its answer is lost
               "decrypt"}  \* decrypting the keys raises

ASSUME TasksFinite == IsFiniteSet(Tasks)
ASSUME NoOrderIsNoOrder == NoOrder \notin Orders
ASSUME FaultsAreFaults == Faults \subseteq FaultKinds

VARIABLES
  pc,   \* the call each task makes next
  job   \* its local variables

taskVars == <<pc, job>>
vars == <<keyState, keyOrder, prov, resv, createdAt, orders, pc, job>>

Labels == {"idle",
           "claim", "jit", "claim_retry",
           "prov_read", "prov_finalize", "prov_decrypt", "replay",
           "sale_check", "sale_insert", "sale_credit", "sale_link", "reply",
           "release", "release_status",
           "ret_read", "ret_restock", "ret_flip", "ret_totals",
           "ledger_read", "ledger_insert", "ledger_status", "ret_final",
           "repl_read", "repl_faulty", "repl_debit",
           "refund_read", "refund_cancel",
           "k_read", "k_upload", "k_finalize",
           "g_order", "g_keys", "g_expire", "g_return", "g_refund",
           "cron_next"}

Jobs == [order : Orders \union {NoOrder},             \* external order id served
         row   : Reservations \union {NoRow},         \* reservation worked on
         keys  : SUBSET Keys,                         \* key ids read or claimed
         batch : SUBSET Reservations,                 \* rows the sweep has left
         qty   : Nat,                                 \* quantity, or cap of a return
         pool  : Nat,                                 \* pool tried next
         count : Nat,                                 \* keysRestocked
         num   : Nat, den : Nat,                      \* the refund fraction
         delta : Nat,                                 \* amount of the refund debit
         event : Nat,                                 \* refundEventId, 0 for none
         link  : Reservations \union {NoRow},         \* order the faulty key is linked to
         target : ReservationStates]                  \* status a release sets

NoJob == [order |-> NoOrder, row |-> NoRow, keys |-> {}, batch |-> {}, qty |-> 0,
          pool |-> 1, count |-> 0, num |-> 0, den |-> 0, delta |-> 0, event |-> 0,
          link |-> NoRow, target |-> "none"]

TypeOK == DbTypeOK /\ pc \in [Tasks -> Labels] /\ job \in [Tasks -> Jobs]

Init == DbInit /\ pc = [t \in Tasks |-> "idle"] /\ job = [t \in Tasks |-> NoJob]

\* Task t goes on at label l with the locals j; "idle" forgets them.
Continue(t, l, j) ==
  /\ pc' = [pc EXCEPT ![t] = l]
  /\ job' = [job EXCEPT ![t] = IF l = "idle" THEN NoJob ELSE j]

Goto(t, l) == Continue(t, l, job[t])

Start(t, l, j) == pc[t] = "idle" /\ Continue(t, l, j)

CanFail(kind) == kind \in Faults

Row(t) == job[t].row

-------------------------------------------------------------------------------
(* claimKeysForReservation: own pool, then the source pools, then JIT.       *)

\* Mutant of ClaimFrom: the row may exist already.
ClaimFromReused(t, pool, ok) ==
  /\ \E S \in SUBSET Claimable(pool) :
       Cardinality(S) = job[t].qty /\ ClaimAndReserve(Row(t), S)
  /\ Goto(t, ok)

\* quantity keys of the pool, if the row's external_reservation_id is unused
ClaimFrom(t, pool, ok) ==
  /\ resv[Row(t)] = "none"
  /\ \E S \in SUBSET Claimable(pool) :
       /\ Cardinality(S) = job[t].qty
       /\ ClaimAndReserve(Row(t), S)
  /\ Goto(t, ok)

CannotClaim(t, pool) ==
  \/ resv[Row(t)] # "none"
  \/ Cardinality(Claimable(pool)) < job[t].qty
  \/ CanFail("rpc")

\* Only a shortage in the own pool goes on to the other sources; any other
\* error is rethrown.  A source that fails, for whatever reason, is skipped.
ClaimKeys(t, ok, raised) ==
  /\ pc[t] = "claim"
  /\ \/ ClaimFrom(t, job[t].pool, ok)
     \/ /\ IF job[t].pool = 1 THEN Cardinality(Claimable(1)) < job[t].qty
                              ELSE CannotClaim(t, job[t].pool)
        /\ IF job[t].pool < PoolCount
           THEN Continue(t, "claim", [job[t] EXCEPT !.pool = @ + 1])
           ELSE Goto(t, "jit")
        /\ UNCHANGED dbVars
     \/ /\ job[t].pool = 1
        /\ resv[Row(t)] # "none" \/ CanFail("rpc")
        /\ Goto(t, raised)
        /\ UNCHANGED dbVars

\* attemptJitProcurement: a purchase puts new keys in the own pool, where any
\* task may claim them first.
JitPurchase(t, raised) ==
  /\ pc[t] = "jit"
  /\ \/ /\ \E S \in SUBSET {k \in Keys : keyState[k] = "absent" /\ PoolOf[k] = 1} :
             /\ S # {} /\ Cardinality(S) <= job[t].qty
             /\ SetKeys(S, "available")
        /\ Goto(t, "claim_retry")
        /\ UNCHANGED <<keyOrder, rowVars, orders>>
     \/ /\ Goto(t, raised)
        /\ UNCHANGED dbVars

ClaimRetry(t, ok, raised) ==
  /\ pc[t] = "claim_retry"
  /\ \/ ClaimFrom(t, 1, ok)
     \/ /\ CannotClaim(t, 1)
        /\ Goto(t, raised)
        /\ UNCHANGED dbVars

-------------------------------------------------------------------------------
(* provisionFromPendingKeys and the replay of delivered keys.                *)

ProvisionRead(t, raised) ==
  /\ pc[t] = "prov_read"
  /\ LET pending == KeysWith(Row(t), "pending") IN
       IF pending = {}
       THEN Goto(t, raised)
       ELSE Continue(t, "prov_finalize", [job[t] EXCEPT !.keys = pending])
  /\ UNCHANGED dbVars

\* Mutant of ProvisionFinalize: goes on when the procedure raised.
ProvisionFinalizeUnchecked(t, raised) ==
  /\ pc[t] = "prov_finalize"
  /\ IF CanFinalize(Row(t), job[t].keys)
     THEN FinalizeProvisions(Row(t), job[t].keys) ELSE UNCHANGED dbVars
  /\ Goto(t, "prov_decrypt")

ProvisionFinalize(t, raised) ==
  /\ pc[t] = "prov_finalize"
  /\ \/ /\ CanFinalize(Row(t), job[t].keys)
        /\ FinalizeProvisions(Row(t), job[t].keys)
        /\ Goto(t, "prov_decrypt")
     \/ /\ ~CanFinalize(Row(t), job[t].keys) \/ CanFail("rpc")
        /\ Goto(t, raised)
        /\ UNCHANGED dbVars

\* The provisions are final before the keys are decrypted.
ProvisionDecrypt(t, ok, raised) ==
  /\ pc[t] = "prov_decrypt"
  /\ \/ Goto(t, ok)
     \/ CanFail("decrypt") /\ Goto(t, raised)
  /\ UNCHANGED dbVars

\* decryptDeliveredProvisionKeys: the delivered keys are answered once more,
\* none is an error
Replay(t) ==
  /\ pc[t] = "replay"
  /\ \/ /\ KeysWith(Row(t), "delivered") # {}
        /\ Continue(t, "reply", [job[t] EXCEPT !.keys = KeysWith(Row(t), "delivered")])
     \/ /\ KeysWith(Row(t), "delivered") = {} \/ CanFail("decrypt")
        /\ Goto(t, "idle")
  /\ UNCHANGED dbVars

\* the answer to the marketplace carries the keys of this task
Reply(t) ==
  /\ pc[t] = "reply"
  /\ Goto(t, "idle")
  /\ UNCHANGED dbVars

-------------------------------------------------------------------------------
(* recordMarketplaceSale, called by completeProvisionOrchestration, which    *)
(* swallows whatever it raises.                                              *)

SetOrder(r, row) ==
  orders' = [orders EXCEPT ![r] = row] /\ UNCHANGED <<keyVars, rowVars>>

\* the idempotency key is looked up before the insert, in a call of its own; a
\* lookup that raises leaves what a failed insert leaves
SaleCheck(t, done) ==
  /\ pc[t] = "sale_check"
  /\ Goto(t, IF orders[Row(t)].status # "none" THEN done ELSE "sale_insert")
  /\ UNCHANGED dbVars

SaleInsert(t, done) ==
  /\ pc[t] = "sale_insert"
  /\ \/ /\ SetOrder(Row(t), [orders[Row(t)] EXCEPT
                               !.status = "fulfilled",
                               !.total  = Cardinality(job[t].keys),
                               !.rows   = @ + 1])
        /\ Goto(t, "sale_credit")
     \/ /\ CanFail("write")
        /\ Goto(t, done)
        /\ UNCHANGED dbVars

SaleCredit(t) ==
  /\ pc[t] = "sale_credit"
  /\ \/ SetOrder(Row(t), [orders[Row(t)] EXCEPT !.credit = @ + Cardinality(job[t].keys)])
     \/ CanFail("write") /\ UNCHANGED dbVars
  /\ Goto(t, "sale_link")

SaleLink(t, done) ==
  /\ pc[t] = "sale_link"
  /\ \E linked \in IF CanFail("write") THEN SUBSET job[t].keys ELSE {job[t].keys} :
       keyOrder' = [k \in Keys |-> IF k \in linked THEN Row(t) ELSE keyOrder[k]]
  /\ Goto(t, done)
  /\ UNCHANGED <<keyState, rowVars, orders>>

-------------------------------------------------------------------------------
(* releaseReservationKeys: the procedure frees keys and provisions together; *)
(* the reservation's status is a second call, made whatever was released.    *)

\* Mutant of Release: the reservation keeps its status.
ReleaseWithoutStatus(t, raised) ==
  /\ pc[t] = "release"
  /\ ReleaseReserved(Row(t))
  /\ Goto(t, raised)

Release(t, raised) ==
  /\ pc[t] = "release"
  /\ \/ /\ ReleaseReserved(Row(t))
        /\ Goto(t, "release_status")
     \/ /\ CanFail("rpc")
        /\ Goto(t, raised)
        /\ UNCHANGED dbVars

\* Mutant of ReleaseStatus: writes the state of the keys.
ReleaseStatusOfKey(t, done) ==
  /\ pc[t] = "release_status"
  /\ SetReservation(Row(t), "available")
  /\ Goto(t, done)
  /\ UNCHANGED <<keyVars, prov, createdAt, orders>>

ReleaseStatus(t, done) ==
  /\ pc[t] = "release_status"
  /\ \/ SetReservation(Row(t), job[t].target)
     \/ CanFail("write") /\ UNCHANGED resv
  /\ Goto(t, done)
  /\ UNCHANGED <<keyVars, prov, createdAt, orders>>

-------------------------------------------------------------------------------
(* handlePostProvisionReturn.                                                *)

MinOf(a, b) == IF a <= b THEN a ELSE b

\* Mutant of ReturnRead: refunded provisions are returned once more.
ReturnReadRefunded(t) ==
  /\ pc[t] = "ret_read"
  /\ LET sold == KeysWith(Row(t), "delivered") \union KeysWith(Row(t), "refunded") IN
       \E S \in SUBSET sold :
          /\ Cardinality(S) = IF job[t].qty = 0 THEN Cardinality(sold)
                              ELSE MinOf(job[t].qty, Cardinality(sold))
          /\ Continue(t, IF S = {} THEN "ret_totals" ELSE "ret_restock",
                      [job[t] EXCEPT !.keys = S])
  /\ UNCHANGED dbVars

\* the delivered provisions, or the oldest qty of them; qty = 0 is no cap
ReturnRead(t) ==
  /\ pc[t] = "ret_read"
  /\ LET delivered == KeysWith(Row(t), "delivered")
         cap == IF job[t].qty = 0 THEN Cardinality(delivered)
                                  ELSE MinOf(job[t].qty, Cardinality(delivered))
     IN \E S \in SUBSET delivered :
          /\ Cardinality(S) = cap
          /\ Continue(t, IF S = {} THEN "ret_totals" ELSE "ret_restock",
                      [job[t] EXCEPT !.keys = S])
  /\ UNCHANGED dbVars

\* The batch procedure, or one call per key when it raises: then any of the
\* keys may be left out.
ReturnRestock(t) ==
  /\ pc[t] = "ret_restock"
  /\ \E S \in SUBSET Restockable(job[t].keys) :
       /\ S = Restockable(job[t].keys) \/ CanFail("rpc")
       /\ RestockKeys(S)
       /\ Continue(t, IF S = {} THEN "ret_totals" ELSE "ret_flip",
                   [job[t] EXCEPT !.count = Cardinality(S)])

\* Mutant of ReturnFlip: the provisions stay delivered.
ReturnFlipNone(t) ==
  /\ pc[t] = "ret_flip"
  /\ Goto(t, "ret_totals")
  /\ UNCHANGED dbVars

\* every provision asked for is flipped, one row at a time
ReturnFlip(t) ==
  /\ pc[t] = "ret_flip"
  /\ \E k \in job[t].keys :
       /\ \/ SetProvisions(Row(t), {k} \intersect KeysWith(Row(t), "delivered"), "refunded")
          \/ CanFail("write") /\ UNCHANGED prov
       /\ Continue(t, IF job[t].keys = {k} THEN "ret_totals" ELSE "ret_flip",
                   [job[t] EXCEPT !.keys = @ \ {k}])
  /\ UNCHANGED <<keyVars, resv, createdAt, orders>>

\* computeCumulativeRefundFraction: how many of the keys given were taken back
RefundedCount(r) == Cardinality(KeysWith(r, "refunded"))
ProvisionedCount(r) == RefundedCount(r) + Cardinality(KeysWith(r, "delivered"))

\* the number of keys asked for stands in when nothing was restocked and nothing
\* has been refunded
ReturnTotals(t) ==
  /\ pc[t] = "ret_totals"
  /\ LET refunded == RefundedCount(Row(t))
         provisioned == ProvisionedCount(Row(t))
         asked == Cardinality(job[t].keys)
         effective == IF refunded = 0 /\ job[t].count = 0 THEN asked ELSE refunded
     IN Continue(t, "ledger_read", [job[t] EXCEPT !.num = MinOf(effective, provisioned),
                                                  !.den = provisioned])
  /\ UNCHANGED dbVars

\* no delivered or refunded provision (den = 0) counts as a full refund
FullRefund(t) == job[t].num >= job[t].den

-------------------------------------------------------------------------------
(* applyMarketplaceRefundLedger.                                             *)

RefundTarget(t) == IF FullRefund(t) THEN orders[Row(t)].total ELSE job[t].num

\* Mutant of LedgerRead: earlier refunds are not subtracted.
LedgerReadWhole(t) ==
  /\ pc[t] = "ledger_read"
  /\ Continue(t, IF orders[Row(t)].status \in {"none", "refunded"}
                 THEN "ret_final" ELSE "ledger_insert",
              [job[t] EXCEPT !.delta = RefundTarget(t)])
  /\ UNCHANGED dbVars

\* The order and its completed refunds are read here; the debit is written by
\* a later call.
LedgerRead(t) ==
  /\ pc[t] = "ledger_read"
  /\ \E refunded \in {orders[Row(t)].refunded} \union (IF CanFail("refunds") THEN {0} ELSE {}) :
       LET order == orders[Row(t)]
           delta == IF RefundTarget(t) > refunded THEN RefundTarget(t) - refunded ELSE 0
       IN Continue(t, IF order.status \in {"none", "refunded"} THEN "ret_final"
                      ELSE IF delta = 0 THEN "ledger_status" ELSE "ledger_insert",
                   [job[t] EXCEPT !.delta = delta])
  /\ UNCHANGED dbVars

\* a debit whose provider_refund_id was used before is dropped as a replay
LedgerInsert(t) ==
  /\ pc[t] = "ledger_insert"
  /\ LET order == orders[Row(t)] event == job[t].event IN
       \/ IF event # 0 /\ event \in order.events
          THEN UNCHANGED dbVars
          ELSE SetOrder(Row(t), [order EXCEPT
                 !.refunded = @ + job[t].delta,
                 !.events = IF event = 0 THEN @ ELSE @ \union {event}])
       \/ CanFail("write") /\ UNCHANGED dbVars
  /\ Goto(t, "ledger_status")

LedgerStatus(t) ==
  /\ pc[t] = "ledger_status"
  /\ \/ SetOrder(Row(t), [orders[Row(t)] EXCEPT
                            !.status = IF FullRefund(t) THEN "refunded"
                                                        ELSE "partially_refunded"])
     \/ CanFail("write") /\ UNCHANGED dbVars
  /\ Goto(t, "ret_final")

\* Mutant of ReturnFinal: a partial refund closes the reservation.
ReturnFinalPartial(t) ==
  /\ pc[t] = "ret_final"
  /\ IF FullRefund(t) THEN UNCHANGED resv ELSE SetReservation(Row(t), "cancelled")
  /\ Goto(t, "idle")
  /\ UNCHANGED <<keyVars, prov, createdAt, orders>>

\* a full refund closes the reservation
ReturnFinal(t) ==
  /\ pc[t] = "ret_final"
  /\ \/ FullRefund(t) /\ SetReservation(Row(t), "cancelled")
     \/ (~FullRefund(t) \/ CanFail("write")) /\ UNCHANGED resv
  /\ Goto(t, "idle")
  /\ UNCHANGED <<keyVars, prov, createdAt, orders>>

-------------------------------------------------------------------------------
(* Any running handler can die; a task that starts later knows only what the *)
(* database holds.                                                           *)
Crash(t) ==
  /\ CanFail("crash")
  /\ pc[t] # "idle"
  /\ Goto(t, "idle")
  /\ UNCHANGED dbVars

ReturnSteps(t) ==
  \/ ReturnRead(t) \/ ReturnRestock(t) \/ ReturnFlip(t) \/ ReturnTotals(t)
  \/ LedgerRead(t) \/ LedgerInsert(t) \/ LedgerStatus(t) \/ ReturnFinal(t)

SaleSteps(t) ==
  \/ SaleCheck(t, "reply") \/ SaleInsert(t, "reply") \/ SaleCredit(t) \/ SaleLink(t, "reply")

-------------------------------------------------------------------------------
(* Properties of the key operations, whoever calls them.                     *)

Closed == {"expired", "cancelled", "failed"}

Working(r) == \E t \in Tasks : Row(t) = r \/ r \in job[t].batch

\* While a return flips its provisions, one by one, the keys it still has to
\* flip are back in stock although their provision says delivered.
Returning(r, k) == \E t \in Tasks : pc[t] = "ret_flip" /\ Row(t) = r /\ k \in job[t].keys

Holds(r, k) == \/ prov[r][k] = "pending"
               \/ prov[r][k] = "delivered" /\ ~Returning(r, k)

\* A pending provision belongs to a pending reservation: whatever order
\* provide, cancel, expire and crashes come in, no provision is left pending
\* behind a closed or provisioned reservation, where it would block every
\* later claim of its key (the phantom provision of releaseReservationKeys).
NoPhantomProvision ==
  \A r \in Reservations : KeysWith(r, "pending") # {} => resv[r] = "pending"

\* Retries, replays and overlapping PROVIDEs record the sale of a reservation
\* at most once, though recordMarketplaceSale checks and inserts in two calls.
SaleRecordedOnce ==
  \A r \in Reservations : orders[r].rows <= 1 /\ orders[r].credit <= orders[r].total

\* A marketplace only ever gets keys whose provision was finalized for its
\* reservation, in a first answer or in a replay, even if another handler
\* released or returned the reservation while the answer was under way.
AnswersAreFinal ==
  \A t \in Tasks : pc[t] = "reply" =>
    job[t].keys \subseteq KeysWith(Row(t), "delivered") \union KeysWith(Row(t), "refunded")

\* No key is held by two reservations: a key a buyer has, or that waits for
\* one, is not promised to another until it has been returned.
OneHolder ==
  \A k \in Keys : \A r, q \in Reservations : Holds(r, k) /\ Holds(q, k) => r = q

\* Stock that can be claimed is nobody's: restocking and releasing never put
\* back a key some reservation still holds.
StockIsFree ==
  \A k \in Keys : keyState[k] = "available" => \A r \in Reservations : ~Holds(r, k)

\* A reservation nobody is working on agrees with its provisions and its
\* order: open with keys to give, replayable once provisioned, and when closed
\* without keys (a faulty one stays with its buyer) and fully refunded.
SettledRowsAgree ==
  \A r \in Reservations : ~Working(r) =>
    /\ resv[r] = "pending" => KeysWith(r, "pending") # {}
    /\ resv[r] = "provisioned" => KeysWith(r, "delivered") # {}
    /\ resv[r] \in Closed =>
         /\ \A k \in KeysWith(r, "delivered") : keyState[k] = "faulty"
         /\ orders[r].status \in {"none", "refunded"}
         /\ orders[r].refunded = orders[r].total

\* Once closed a reservation stays closed: a late PROVIDE or an answer that
\* was under way cannot bring it back.
NeverReopened ==
  [][\A r \in Reservations : resv[r] \in Closed => resv'[r] \in Closed]_vars

-------------------------------------------------------------------------------
(* The inductive invariant behind NoPhantomProvision, SaleRecordedOnce,      *)
(* AnswersAreFinal and NeverReopened.  It holds for any interleaving and     *)
(* any faults.                                                               *)

\* what the claim procedure promises: no key waits for two reservations
OnePendingPerKey ==
  \A k \in Keys : \A r, q \in Reservations :
    prov[r][k] = "pending" /\ prov[q][k] = "pending" => r = q

\* a row in use without pending provisions: it never gets one again
Quiet(r) == resv[r] # "none" /\ KeysWith(r, "pending") = {}

\* keys that may be answered for the row
Final(r) == KeysWith(r, "delivered") \union KeysWith(r, "refunded")

Unsold(r) == orders[r].rows = 0 /\ orders[r].credit = 0

\* between finalize and the marketplace_sale credit
Selling == {"prov_decrypt", "sale_check", "sale_insert", "sale_credit"}
Answering == Selling \union {"sale_link", "reply"}
AfterPending == {"release_status", "refund_read", "refund_cancel", "ret_read", "ret_restock",
                 "ret_flip", "ret_totals", "ledger_read", "ledger_insert", "ledger_status",
                 "ret_final"}
Rowless == {"idle", "cron_next"}

\* provisions exist only for rows in use, pending ones only for pending rows
RowsMatchProvisions ==
  \A r \in Reservations :
    /\ resv[r] = "none" => \A k \in Keys : prov[r][k] = "none"
    /\ KeysWith(r, "pending") # {} => resv[r] = "pending"

\* What a task at label l with locals j relies on between its calls, whatever
\* the others do.  A row being sold has an order nobody touched so far.
Relies(l, j) ==
  /\ l \notin Rowless => j.row \in Reservations
  /\ l \in {"prov_read", "prov_finalize", "release"} => resv[j.row] # "none"
  /\ l = "prov_finalize" => KeysWith(j.row, "pending") \subseteq j.keys
  /\ l \in {"release", "release_status"} => j.target \in Closed
  /\ l \in Selling \union AfterPending => Quiet(j.row)
  /\ l \in Answering => j.keys \subseteq Final(j.row)
  /\ l \in {"repl_read", "repl_faulty", "repl_debit"} => j.order \in Orders
  /\ l = "repl_debit" => j.link \in Reservations
  /\ \A r \in j.batch : resv[r] # "none"

SaleRelies(l, j) ==
  /\ l \in {"prov_decrypt", "sale_check", "sale_insert"} => Unsold(j.row)
  /\ l = "sale_credit" => /\ orders[j.row].credit = 0
                          /\ orders[j.row].total = Cardinality(j.keys)

\* one task at most sells a row
OneSeller ==
  \A t, u \in Tasks : pc[t] \in Selling /\ pc[u] \in Selling /\ Row(t) = Row(u) => t = u

SalesBounded ==
  \A r \in Reservations :
    /\ orders[r].rows <= 1
    /\ orders[r].credit <= orders[r].total
    /\ Unsold(r) \/ Quiet(r)

KeyOpsInv ==
  /\ TypeOK
  /\ RowsMatchProvisions
  /\ OnePendingPerKey
  /\ \A t \in Tasks : Relies(pc[t], job[t]) /\ SaleRelies(pc[t], job[t])
  /\ OneSeller
  /\ SalesBounded
===============================================================================
