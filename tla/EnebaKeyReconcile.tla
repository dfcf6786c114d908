--------------------------- MODULE EnebaKeyReconcile ---------------------------
(***************************************************************************)
(* EnebaKeyReconcileService beside the Eneba webhooks: keys that buyers    *)
(* report become faulty, and delivered keys that Eneba does not list as    *)
(* sold go back in stock.  What Eneba lists is a state of its own, which   *)
(* follows the answers that reach it and the orders it withdraws.          *)
(*                                                                         *)
(* The phase is no task of Tasks: it works from one scan of the tables,    *)
(* over calls to Eneba, while requests and the sweep go on.  Rows are      *)
(* younger than LOOKBACK_DAYS, and the listing is active.                  *)
(***************************************************************************)
EXTENDS EnebaFulfilment

CONSTANTS
  Hashed,         \* keys whose raw_key_hash is stored
  MaxOrderBatch   \* MAX_ORDER_BATCH

ASSUME HashedAreKeys == Hashed \subseteq Keys
ASSUME MaxOrderBatchType == MaxOrderBatch \in Nat \ {0}

VARIABLES
  sold,       \* (reservation, key) pairs that Eneba lists as SOLD or REPORTED
  reported,   \* those of them that are REPORTED
  at,         \* where the phase is
  scan        \* its local variables, and in "named" the keys Eneba named to it

shopVars == <<sold, reported>>
scanVars == <<at, scan>>
reconcileVars == <<vars, shopVars, scanVars>>

NoScan == [provs |-> {}, keys |-> {}, asks |-> {}, rows |-> {}, named |-> {}]

KeysOf(pairs) == {p[2] : p \in pairs}
RowsOf(pairs) == {p[1] : p \in pairs}

Proceed(l, s) == at' = l /\ scan' = IF l = "idle" THEN NoScan ELSE s

-------------------------------------------------------------------------------
(* One provision stands for each hash; those whose key has none cannot be    *)
(* told from what Eneba returns and are left alone.  The three reads are one *)
(* step: what happens between them may as well happen after the last.        *)
Delivered == {p \in Reservations \X Hashed :
                resv[p[1]] = "provisioned" /\ prov[p[1]][p[2]] = "delivered"}

LoadProvisions ==
  /\ at = "idle"
  /\ \E provs \in SUBSET Delivered :
       /\ KeysOf(provs) = KeysOf(Delivered)
       /\ Cardinality(provs) = Cardinality(KeysOf(provs))
       /\ Proceed("stock", [NoScan EXCEPT !.provs = provs])
  /\ UNCHANGED dbVars

-------------------------------------------------------------------------------
(* Pass 1: getAllStockKeys(REPORTED); an error skips the listing.            *)
ToReports(s) ==
  IF s.keys # {} THEN Proceed("report", s)
  ELSE Proceed(IF s.provs = {} THEN "idle" ELSE "ask",
               [s EXCEPT !.asks = {OrderOf(r) : r \in RowsOf(s.provs)}])

ReportsAnswered ==
  /\ at = "stock"
  /\ ToReports([scan EXCEPT !.keys = KeysOf(reported) \intersect Hashed])
  /\ UNCHANGED dbVars

ReportsFailed == at = "stock" /\ CanFail("market") /\ Proceed("idle", scan) /\ UNCHANGED dbVars

\* markKeyFaulty, for a key found by its hash, whatever became of it since
MarkFaulty(k) ==
  /\ SetKeys({k}, "faulty") \/ (CanFail("write") /\ UNCHANGED keyState)
  /\ UNCHANGED <<keyOrder, rowVars, orders>>

MarkReported ==
  /\ at = "report"
  /\ \E k \in scan.keys : MarkFaulty(k) /\ ToReports([scan EXCEPT !.keys = @ \ {k}])

-------------------------------------------------------------------------------
(* Pass 2: getKeysByOrders, batch after batch.  A confirmed provision leaves *)
(* the scan; what is left in the end is orphaned.                            *)
Batch(S) == S \subseteq scan.asks /\ Cardinality(S) = MinOf(MaxOrderBatch, Cardinality(scan.asks))
ListedFor(S) == {p \in sold : OrderOf(p[1]) \in S}

ToComplaints(s) ==
  IF s.asks # {} THEN Proceed("ask", s)
  ELSE IF s.keys # {} THEN Proceed("complain", s)
  ELSE Proceed(IF s.provs = {} THEN "idle" ELSE "restock", s)

\* Mutant of Confirms: only what the buyer REPORTED counts as delivered.
ConfirmsReported(pairs) == KeysOf(pairs \intersect reported)

\* keys that count as delivered: those Eneba names, be they SOLD or REPORTED
Confirms(pairs) == KeysOf(pairs)

OrdersAnswered ==
  /\ at = "ask"
  /\ \E S \in SUBSET scan.asks :
       LET pairs == ListedFor(S) IN
         /\ Batch(S)
         /\ ToComplaints([scan EXCEPT
              !.asks = @ \ S,
              !.named = @ \union KeysOf(pairs),
              !.provs = {p \in @ : p[2] \notin Confirms(pairs)},
              !.keys = @ \union (KeysOf(pairs \intersect reported) \intersect KeysOf(scan.provs))])
  /\ UNCHANGED dbVars

\* A batch that fails is logged as skipped; its provisions stay unconfirmed.
OrdersFailed ==
  /\ at = "ask" /\ CanFail("market")
  /\ \E S \in SUBSET scan.asks : Batch(S) /\ ToComplaints([scan EXCEPT !.asks = @ \ S])
  /\ UNCHANGED dbVars

MarkComplained ==
  /\ at = "complain"
  /\ \E k \in scan.keys : MarkFaulty(k) /\ ToComplaints([scan EXCEPT !.keys = @ \ {k}])

-------------------------------------------------------------------------------
(* restockOrphanedProvisions: keys, then provisions, then reservations.      *)

RestockOrphans ==
  /\ at = "restock"
  /\ \E S \in SUBSET Restockable(KeysOf(scan.provs)) :
       /\ S = Restockable(KeysOf(scan.provs)) \/ CanFail("rpc")
       /\ RestockKeys(S)
       /\ Proceed(IF S = {} THEN "idle" ELSE "flip", [scan EXCEPT !.named = {}])

FlipOrphan ==
  /\ at = "flip"
  /\ \E p \in scan.provs :
       /\ \/ SetProvisions(p[1], {p[2]} \intersect KeysWith(p[1], "delivered"), "refunded")
          \/ CanFail("write") /\ UNCHANGED prov
       /\ Proceed(IF scan.provs = {p} THEN "cancel" ELSE "flip",
                  [scan EXCEPT !.provs = @ \ {p}, !.rows = @ \union {p[1]}])
  /\ UNCHANGED <<keyVars, resv, createdAt, orders>>

\* no order and no transaction is touched
CancelOrphaned ==
  /\ at = "cancel"
  /\ \E r \in scan.rows :
       /\ \/ resv[r] = "provisioned" /\ SetReservation(r, "cancelled")
          \/ (resv[r] # "provisioned" \/ CanFail("write")) /\ UNCHANGED resv
       /\ Proceed(IF scan.rows = {r} THEN "idle" ELSE "cancel", [scan EXCEPT !.rows = @ \ {r}])
  /\ UNCHANGED <<keyVars, prov, createdAt, orders>>

ReconcileStep ==
  \/ LoadProvisions \/ ReportsAnswered \/ ReportsFailed \/ MarkReported
  \/ OrdersAnswered \/ OrdersFailed \/ MarkComplained
  \/ RestockOrphans \/ FlipOrphan \/ CancelOrphaned

Reconcile == ReconcileStep /\ UNCHANGED <<taskVars, shopVars>>

-------------------------------------------------------------------------------
(* Eneba's side.                                                             *)

\* an answer that reaches Eneba sells its keys, one that is lost does not
Hears ==
  LET told == {p \in Reservations \X Keys : \E t \in Workers :
                 pc[t] = "reply" /\ pc'[t] # "reply" /\ Row(t) = p[1] /\ p[2] \in job[t].keys}
  IN /\ sold' \in {sold \union told, sold}
     /\ UNCHANGED reported

\* Eneba takes an order off its books; the CANCEL may come later or never
Withdraw(r) ==
  /\ sold' = {p \in sold : p[1] # r}
  /\ reported' = {p \in reported : p[1] # r}

BuyerReports(p) == reported' = reported \union {p} /\ UNCHANGED sold

Eneba ==
  /\ (\E r \in RowsOf(sold) : Withdraw(r)) \/ (\E p \in sold \ reported : BuyerReports(p))
  /\ UNCHANGED <<vars, scanVars>>

-------------------------------------------------------------------------------
ReconcileInit ==
  /\ Init
  /\ sold = {} /\ reported = {}
  /\ at = "idle" /\ scan = NoScan

ReconcileNext ==
  \/ Next /\ Hears /\ UNCHANGED scanVars
  \/ Reconcile
  \/ Eneba

ReconcileSpec == ReconcileInit /\ [][ReconcileNext]_reconcileVars

\* Nothing schedules the phase: it may run at any time, stop, or never run.
FairReconcile == ReconcileSpec /\ Fairness

-------------------------------------------------------------------------------
(* Properties.                                                               *)

\* The phase takes no key from a buyer whom Eneba named to this scan, also when
\* the buyer reports the key between its two passes.
BuyersKeysStay ==
  [][at = "restock" => \A k \in scan.named : keyState'[k] = "available" => keyState[k] = "available"]_scanVars
===============================================================================
