----------------------- MODULE EnebaKeyReconcile_proofs -----------------------
(***************************************************************************)
(* The reconciliation of delivered keys beside the Eneba webhooks: it      *)
(* works from an old scan, writes keys, provisions and reservations while  *)
(* requests and the sweep go on, and still keeps what the key operations   *)
(* rely on, for any number of orders, keys and requests and any faults.    *)
(***************************************************************************)
EXTENDS EnebaKeyReconcile, EnebaFulfilment_proofs

Scans == [provs : SUBSET (Reservations \X Keys), keys : SUBSET Keys, asks : SUBSET Orders,
          rows : SUBSET Reservations, named : SUBSET Keys]

\* What Eneba lists and what the phase remembers is well typed, and no key that
\* Eneba named to this scan is among those it still means to restock.
ScanInv ==
  /\ sold \subseteq Reservations \X Keys /\ reported \subseteq Reservations \X Keys
  /\ scan \in Scans
  /\ KeysOf(scan.provs) \intersect scan.named = {}

ReconcileInv == KeyOpsInv /\ ScanInv

-------------------------------------------------------------------------------
(* The tables.                                                               *)

\* A step of no task keeps what all tasks rely on, if it keeps the tables
\* consistent and is monotone.
LEMMA TablesKeep ==
  ASSUME KeyOpsInv, UNCHANGED taskVars, UNCHANGED orders, DbTypeOK', Monotone,
         RowsMatchProvisions', OnePendingPerKey'
  PROVE  KeyOpsInv' /\ Monotone
<1>1. Cron \in Tasks /\ StepOf(Cron) /\ SalesKept(Cron)
  BY TasksAre DEF taskVars, StepOf, SalesKept
<1>2. /\ pc[Cron] \in Labels /\ job[Cron] \in Jobs /\ RowsMatchProvisions
      /\ Relies(pc[Cron], job[Cron]) /\ SaleRelies(pc[Cron], job[Cron])
      /\ pc' = pc /\ job' = job
  BY <1>1, Mover DEF taskVars
<1>3. TypeOK'
  BY <1>2 DEF KeyOpsInv, TypeOK
<1>4. \A l \in Labels, j \in Jobs : Relies(l, j) => Relies(l, j)'
  BY <1>2, OthersRely
<1>5. Relies(pc[Cron], job[Cron])'
  BY <1>2, <1>4 DEF Relies
<1>6. SaleRelies(pc[Cron], job[Cron])'
  BY <1>2 DEF SaleRelies, Unsold
<1>7. SalesBounded'
  BY DEF KeyOpsInv, SalesBounded, Unsold, Monotone, Quiet, KeysWith
<1>8. pc'[Cron] \in Selling =>
        \A u \in Tasks : u # Cron /\ pc[u] \in Selling => job[u].row # job'[Cron].row
  BY <1>1, <1>2 DEF KeyOpsInv, OneSeller, Row
<1> QED
  BY <1>1, <1>3, <1>5, <1>6, <1>7, <1>8, StepKeeps

\* Writing states of keys leaves the rest alone.
LEMMA KeyStatesKeep ==
  ASSUME KeyOpsInv, UNCHANGED taskVars, UNCHANGED <<keyOrder, rowVars, orders>>,
         keyState' \in [Keys -> KeyStates]
  PROVE  KeyOpsInv' /\ Monotone
<1>1. UNCHANGED <<keyOrder, prov, resv, createdAt, orders>>
  BY DEF rowVars
<1>2. DbTypeOK' /\ Monotone /\ RowsMatchProvisions' /\ OnePendingPerKey'
  BY <1>1 DEF KeyOpsInv, TypeOK, DbTypeOK, Monotone, RowsMatchProvisions, OnePendingPerKey, KeysWith
<1> QED
  BY <1>1, <1>2, TablesKeep

\* A step that writes no table.
LEMMA ReadsKeep ==
  ASSUME KeyOpsInv, UNCHANGED taskVars, UNCHANGED dbVars
  PROVE  KeyOpsInv' /\ Monotone
<1>1. UNCHANGED vars
  BY DEF taskVars, dbVars, vars
<1> QED
  BY <1>1, StutterKeeps

\* A key can be marked faulty whoever has it.
LEMMA MarkFaultyKeeps ==
  ASSUME KeyOpsInv, UNCHANGED taskVars, NEW k, MarkFaulty(k)
  PROVE  KeyOpsInv' /\ Monotone
<1>1. keyState' \in [Keys -> KeyStates]
  BY DEF MarkFaulty, SetKeys, KeyStates, KeyOpsInv, TypeOK, DbTypeOK
<1> QED
  BY <1>1, KeyStatesKeep DEF MarkFaulty

\* A delivered provision that is refunded stays final.
LEMMA FlipOrphanKeeps ==
  ASSUME ReconcileInv, UNCHANGED taskVars, FlipOrphan
  PROVE  KeyOpsInv' /\ Monotone
<1>1. PICK p \in scan.provs :
        \/ SetProvisions(p[1], {p[2]} \intersect KeysWith(p[1], "delivered"), "refunded")
        \/ UNCHANGED prov
  BY DEF FlipOrphan
<1>2. PICK r \in Reservations : r = p[1]
  BY DEF ReconcileInv, ScanInv, Scans
<1>3. UNCHANGED <<keyState, keyOrder, resv, createdAt, orders>>
  BY DEF FlipOrphan, keyVars
<1>4. CASE UNCHANGED prov
  BY <1>3, <1>4, ReadsKeep DEF ReconcileInv, dbVars
<1>5. CASE SetProvisions(p[1], {p[2]} \intersect KeysWith(p[1], "delivered"), "refunded")
  <2>1. prov \in [Reservations -> [Keys -> ProvisionStates]] /\ KeyOpsInv
    BY DEF ReconcileInv, KeyOpsInv, TypeOK, DbTypeOK
  <2>2. PICK S \in SUBSET Keys :
          /\ \A k \in S : prov[r][k] = "delivered"
          /\ prov' = [prov EXCEPT ![r] =
                        [k \in Keys |-> IF k \in S THEN "refunded" ELSE prov[r][k]]]
    BY <1>2, <1>5 DEF SetProvisions, KeysWith
  <2>3. \A q \in Reservations : \A k \in Keys :
          prov'[q][k] = IF q = r /\ k \in S THEN "refunded" ELSE prov[q][k]
    BY <2>1, <2>2
  <2>4. prov' \in [Reservations -> [Keys -> ProvisionStates]]
    BY <2>1, <2>2 DEF ProvisionStates
  <2>5. DbTypeOK'
    BY <1>3, <2>1, <2>4 DEF KeyOpsInv, TypeOK, DbTypeOK
  <2>6. \A q \in Reservations : \A k \in Keys :
          /\ prov'[q][k] = "pending" => prov[q][k] = "pending"
          /\ prov[q][k] \in {"delivered", "refunded"} => prov'[q][k] \in {"delivered", "refunded"}
          /\ prov[q][k] = "none" => prov'[q][k] = "none"
    BY <2>2, <2>3
  <2>7. Monotone
    BY <1>3, <2>6 DEF Monotone
  <2>8. RowsMatchProvisions' /\ OnePendingPerKey'
    BY <1>3, <2>1, <2>6 DEF KeyOpsInv, RowsMatchProvisions, OnePendingPerKey, KeysWith
  <2> QED
    BY <1>3, <2>1, <2>5, <2>7, <2>8, TablesKeep
<1> QED
  BY <1>1, <1>4, <1>5

\* A provisioned reservation has no pending provision, so it can be closed.
LEMMA CancelOrphanedKeeps ==
  ASSUME ReconcileInv, UNCHANGED taskVars, CancelOrphaned
  PROVE  KeyOpsInv' /\ Monotone
<1>1. PICK r \in scan.rows : \/ resv[r] = "provisioned" /\ SetReservation(r, "cancelled")
                             \/ UNCHANGED resv
  BY DEF CancelOrphaned
<1>2. /\ r \in Reservations /\ KeyOpsInv
      /\ UNCHANGED <<keyState, keyOrder, prov, createdAt, orders>>
  BY DEF ReconcileInv, ScanInv, Scans, CancelOrphaned, keyVars
<1>3. CASE UNCHANGED resv
  BY <1>2, <1>3, ReadsKeep DEF dbVars
<1>4. CASE resv[r] = "provisioned" /\ SetReservation(r, "cancelled")
  <2>1. \A q \in Reservations : resv'[q] = IF q = r THEN "cancelled" ELSE resv[q]
    BY <1>2, <1>4 DEF SetReservation, KeyOpsInv, TypeOK, DbTypeOK
  <2>2. DbTypeOK'
    BY <1>2, <1>4 DEF SetReservation, KeyOpsInv, TypeOK, DbTypeOK, ReservationStates
  <2>3. Monotone
    BY <1>2, <2>1 DEF Monotone, Closed
  <2>4. RowsMatchProvisions' /\ OnePendingPerKey'
    BY <1>2, <1>4, <2>1 DEF KeyOpsInv, RowsMatchProvisions, OnePendingPerKey, KeysWith
  <2> QED
    BY <1>2, <2>2, <2>3, <2>4, TablesKeep
<1> QED
  BY <1>1, <1>3, <1>4

\* Every step of the phase keeps the key operations' invariant.
LEMMA ReconcileTables ==
  ASSUME ReconcileInv, Reconcile
  PROVE  KeyOpsInv' /\ Monotone
<1>1. KeyOpsInv /\ UNCHANGED taskVars /\ ReconcileStep
  BY DEF ReconcileInv, Reconcile
<1>2. CASE LoadProvisions \/ ReportsAnswered \/ ReportsFailed \/ OrdersAnswered \/ OrdersFailed
  BY <1>1, <1>2, ReadsKeep DEF LoadProvisions, ReportsAnswered, ReportsFailed, OrdersAnswered,
                               OrdersFailed
<1>3. CASE MarkReported \/ MarkComplained
  BY <1>1, <1>3, MarkFaultyKeeps DEF MarkReported, MarkComplained
<1>4. CASE RestockOrphans
  <2>1. PICK S : RestockKeys(S)
    BY <1>4 DEF RestockOrphans
  <2>2. keyState' \in [Keys -> KeyStates] /\ UNCHANGED <<keyOrder, rowVars, orders>>
    BY <1>1, <2>1 DEF RestockKeys, SetKeys, KeyStates, KeyOpsInv, TypeOK, DbTypeOK, rowVars
  <2> QED
    BY <1>1, <2>2, KeyStatesKeep
<1>5. CASE FlipOrphan \/ CancelOrphaned
  BY <1>1, <1>5, FlipOrphanKeeps, CancelOrphanedKeeps
<1> QED
  BY <1>1, <1>2, <1>3, <1>4, <1>5 DEF ReconcileStep

-------------------------------------------------------------------------------
(* The scan.                                                                 *)

\* what the phase may remember
ScanOK(s) == s \in Scans /\ KeysOf(s.provs) \intersect s.named = {}

\* An empty scan is in order.
LEMMA NoScanOK == ScanOK(NoScan)
  BY DEF ScanOK, NoScan, Scans, KeysOf

\* Going on with a scan that is in order, or ending it, leaves one that is.
LEMMA ProceedOK ==
  ASSUME NEW l, NEW s, ScanOK(s), Proceed(l, s)
  PROVE  ScanOK(scan)'
<1>1. scan' = s \/ scan' = NoScan
  BY DEF Proceed
<1> QED
  BY <1>1, NoScanOK DEF ScanOK, KeysOf

\* Eneba is asked about the orders of the scanned rows.
LEMMA ToReportsOK ==
  ASSUME NEW s, ScanOK(s), ToReports(s)
  PROVE  ScanOK(scan)'
<1>1. CASE s.keys # {}
  BY <1>1, ProceedOK DEF ToReports
<1>2. CASE s.keys = {}
  <2> DEFINE asks == {OrderOf(r) : r \in RowsOf(s.provs)}
             i == [s EXCEPT !.asks = asks]
  <2>1. asks \in SUBSET Orders
    BY RowsAre DEF ScanOK, Scans, RowsOf, OrderOf
  <2> HIDE DEF asks
  <2>2. ScanOK(i)
    BY <2>1 DEF ScanOK, Scans
  <2>3. PICK l : Proceed(l, i)
    BY <1>2 DEF ToReports, asks
  <2> HIDE DEF i
  <2> QED
    BY <2>2, <2>3, ProceedOK
<1> QED
  BY <1>1, <1>2

\* So does going on to the complaints.
LEMMA ToComplaintsOK ==
  ASSUME NEW s, ScanOK(s), ToComplaints(s)
  PROVE  ScanOK(scan)'
<1>1. PICK l : Proceed(l, s)
  BY DEF ToComplaints
<1> QED
  BY <1>1, ProceedOK

\* The scan loses provisions and keys, or takes up keys of the tables.
LEMMA ScanChanges ==
  ASSUME ScanOK(scan)
  PROVE  /\ \A K \in SUBSET Keys : ScanOK([scan EXCEPT !.keys = K])
         /\ \A A \in SUBSET Orders : ScanOK([scan EXCEPT !.asks = A])
         /\ \A P \in SUBSET scan.provs, R \in SUBSET Reservations :
              ScanOK([scan EXCEPT !.provs = P, !.rows = R])
         /\ \A R \in SUBSET Reservations : ScanOK([scan EXCEPT !.rows = R])
         /\ ScanOK([scan EXCEPT !.named = {}])
  BY DEF ScanOK, Scans, KeysOf

\* An answer names keys, and its provisions leave the scan.
LEMMA AnswerShrinks ==
  ASSUME ScanOK(scan), OrdersAnswered, sold \subseteq Reservations \X Keys
  PROVE  ScanOK(scan)'
<1>1. PICK S \in SUBSET scan.asks :
        ToComplaints([scan EXCEPT
          !.asks = @ \ S,
          !.named = @ \union KeysOf(ListedFor(S)),
          !.provs = {p \in @ : p[2] \notin KeysOf(ListedFor(S))},
          !.keys = @ \union (KeysOf(ListedFor(S) \intersect reported)
                              \intersect KeysOf(scan.provs))])
  BY DEF OrdersAnswered, Confirms
<1> DEFINE P == {p \in scan.provs : p[2] \notin KeysOf(ListedFor(S))}
           K == scan.keys \union (KeysOf(ListedFor(S) \intersect reported)
                                   \intersect KeysOf(scan.provs))
           A == scan.asks \ S
           N == scan.named \union KeysOf(ListedFor(S))
<1>2. scan \in Scans /\ KeysOf(scan.provs) \intersect scan.named = {}
  BY DEF ScanOK
<1>3. P \in SUBSET scan.provs /\ A \in SUBSET Orders /\ scan.rows \in SUBSET Reservations
  BY <1>2 DEF Scans
<1>4. KeysOf(scan.provs) \subseteq Keys /\ KeysOf(ListedFor(S)) \subseteq Keys
  BY <1>2 DEF Scans, KeysOf, ListedFor
<1>5. K \in SUBSET Keys /\ N \in SUBSET Keys
  BY <1>2, <1>4 DEF Scans
<1>6. KeysOf(P) \intersect N = {}
  BY <1>2 DEF KeysOf
<1> HIDE DEF P, K, A, N
<1>7. ScanOK([scan EXCEPT !.asks = A, !.named = N, !.provs = P, !.keys = K])
  <2>1. P \in SUBSET (Reservations \X Keys)
    BY <1>2, <1>3 DEF Scans
  <2> QED
    BY <1>2, <1>3, <1>5, <1>6, <2>1 DEF ScanOK, Scans
<1> DEFINE s == [scan EXCEPT !.asks = A, !.named = N, !.provs = P, !.keys = K]
<1>8. ToComplaints(s)
  BY <1>1 DEF P, K, A, N
<1> HIDE DEF s
<1> QED
  BY <1>7, <1>8, ToComplaintsOK DEF s

\* Every step of the phase keeps the scan: what Eneba names leaves it.
LEMMA ReconcileScan ==
  ASSUME ReconcileInv, Reconcile
  PROVE  ScanInv'
<1>1. /\ ScanOK(scan) /\ UNCHANGED <<sold, reported>> /\ ReconcileStep
      /\ sold \subseteq Reservations \X Keys /\ reported \subseteq Reservations \X Keys
  BY DEF ReconcileInv, ScanInv, ScanOK, Reconcile, shopVars
<1> SUFFICES ScanOK(scan)'
  BY <1>1 DEF ScanInv, ScanOK
<1>2. scan \in Scans
  BY <1>1 DEF ScanOK
<1>3. CASE LoadProvisions
  <2>1. PICK provs \in SUBSET Delivered : Proceed("stock", [NoScan EXCEPT !.provs = provs])
    BY <1>3 DEF LoadProvisions
  <2>2. provs \in SUBSET (Reservations \X Keys)
    BY <2>1, HashedAreKeys DEF Delivered
  <2>3. ScanOK([NoScan EXCEPT !.provs = provs])
    BY <2>2 DEF ScanOK, Scans, NoScan
  <2> QED
    BY <2>1, <2>3, ProceedOK
<1>4. CASE ReportsAnswered
  <2>1. KeysOf(reported) \intersect Hashed \in SUBSET Keys
    BY HashedAreKeys
  <2>2. ScanOK([scan EXCEPT !.keys = KeysOf(reported) \intersect Hashed])
    BY <1>1, <2>1, ScanChanges
  <2> QED
    BY <1>4, <2>2, ToReportsOK DEF ReportsAnswered
<1>5. CASE ReportsFailed
  BY <1>1, <1>5, ProceedOK DEF ReportsFailed
<1>6. CASE MarkReported
  <2>1. PICK k \in scan.keys : ToReports([scan EXCEPT !.keys = @ \ {k}])
    BY <1>6 DEF MarkReported
  <2>2. scan.keys \ {k} \in SUBSET Keys
    BY <1>2 DEF Scans
  <2>3. ScanOK([scan EXCEPT !.keys = scan.keys \ {k}])
    BY <1>1, <2>2, ScanChanges
  <2> QED
    BY <2>1, <2>3, ToReportsOK
<1>7. CASE OrdersAnswered
  BY <1>1, <1>7, AnswerShrinks
<1>8. CASE OrdersFailed
  <2>1. PICK S \in SUBSET scan.asks : ToComplaints([scan EXCEPT !.asks = @ \ S])
    BY <1>8 DEF OrdersFailed
  <2>2. scan.asks \ S \in SUBSET Orders
    BY <1>2 DEF Scans
  <2>3. ScanOK([scan EXCEPT !.asks = scan.asks \ S])
    BY <1>1, <2>2, ScanChanges
  <2> QED
    BY <2>1, <2>3, ToComplaintsOK
<1>9. CASE MarkComplained
  <2>1. PICK k \in scan.keys : ToComplaints([scan EXCEPT !.keys = @ \ {k}])
    BY <1>9 DEF MarkComplained
  <2>2. scan.keys \ {k} \in SUBSET Keys
    BY <1>2 DEF Scans
  <2>3. ScanOK([scan EXCEPT !.keys = scan.keys \ {k}])
    BY <1>1, <2>2, ScanChanges
  <2> QED
    BY <2>1, <2>3, ToComplaintsOK
<1>10. CASE RestockOrphans
  <2>1. PICK l : Proceed(l, [scan EXCEPT !.named = {}])
    BY <1>10 DEF RestockOrphans
  <2> QED
    BY <1>1, <2>1, ScanChanges, ProceedOK
<1>11. CASE FlipOrphan
  <2>1. PICK p \in scan.provs :
          Proceed(IF scan.provs = {p} THEN "cancel" ELSE "flip",
                  [scan EXCEPT !.provs = @ \ {p}, !.rows = @ \union {p[1]}])
    BY <1>11 DEF FlipOrphan
  <2>2. scan.provs \ {p} \in SUBSET scan.provs /\ scan.rows \union {p[1]} \in SUBSET Reservations
    BY <1>2, <2>1 DEF Scans
  <2>3. ScanOK([scan EXCEPT !.provs = scan.provs \ {p}, !.rows = scan.rows \union {p[1]}])
    BY <1>1, <2>2, ScanChanges
  <2>4. PICK l : Proceed(l, [scan EXCEPT !.provs = scan.provs \ {p},
                                         !.rows = scan.rows \union {p[1]}])
    BY <2>1
  <2> QED
    BY <2>3, <2>4, ProceedOK
<1>12. CASE CancelOrphaned
  <2>1. PICK r \in scan.rows : Proceed(IF scan.rows = {r} THEN "idle" ELSE "cancel",
                                       [scan EXCEPT !.rows = @ \ {r}])
    BY <1>12 DEF CancelOrphaned
  <2>2. scan.rows \ {r} \in SUBSET Reservations
    BY <1>2 DEF Scans
  <2>3. ScanOK([scan EXCEPT !.rows = scan.rows \ {r}])
    BY <1>1, <2>2, ScanChanges
  <2>4. PICK l : Proceed(l, [scan EXCEPT !.rows = scan.rows \ {r}])
    BY <2>1
  <2> QED
    BY <2>3, <2>4, ProceedOK
<1> QED
  BY <1>1, <1>3, <1>4, <1>5, <1>6, <1>7, <1>8, <1>9, <1>10, <1>11, <1>12 DEF ReconcileStep

-------------------------------------------------------------------------------
(* All steps.                                                                *)

\* What Eneba lists stays well typed, whatever reaches it and whatever it
\* withdraws.
LEMMA ShopKeeps ==
  ASSUME ScanInv
  PROVE  /\ Hears /\ UNCHANGED scanVars => ScanInv'
         /\ Eneba => ScanInv'
<1>1. ASSUME Hears, UNCHANGED scanVars
      PROVE  ScanInv'
  BY <1>1 DEF ScanInv, Hears, scanVars
<1>2. ASSUME Eneba
      PROVE  ScanInv'
  BY <1>2 DEF ScanInv, Eneba, Withdraw, BuyerReports, scanVars, RowsOf
<1> QED
  BY <1>1, <1>2

\* Every step of the webhooks, the sweep, the phase and Eneba keeps the
\* invariant, and closes no row for good but by what NextKeeps allows.
LEMMA ReconcileNextKeeps ==
  ASSUME ReconcileInv, [ReconcileNext]_reconcileVars
  PROVE  ReconcileInv' /\ Monotone
<1>1. CASE Next /\ Hears /\ UNCHANGED scanVars
  <2>1. KeyOpsInv' /\ Monotone
    BY <1>1, NextKeeps DEF ReconcileInv
  <2> QED
    BY <1>1, <2>1, ShopKeeps DEF ReconcileInv
<1>2. CASE Reconcile
  BY <1>2, ReconcileTables, ReconcileScan DEF ReconcileInv
<1>3. CASE Eneba
  <2>1. KeyOpsInv' /\ Monotone
    BY <1>3, StutterKeeps DEF ReconcileInv, Eneba
  <2> QED
    BY <1>3, <2>1, ShopKeeps DEF ReconcileInv
<1>4. CASE UNCHANGED reconcileVars
  <2>1. KeyOpsInv' /\ Monotone
    BY <1>4, StutterKeeps DEF ReconcileInv, reconcileVars
  <2>2. ScanInv'
    BY <1>4 DEF ReconcileInv, ScanInv, reconcileVars, shopVars, scanVars
  <2> QED
    BY <2>1, <2>2 DEF ReconcileInv
<1> QED
  BY <1>1, <1>2, <1>3, <1>4 DEF ReconcileNext

\* A restock of the scan reaches no key that Eneba named to it.
LEMMA NamedKeysStay ==
  ASSUME ReconcileInv, [ReconcileNext]_reconcileVars, at = "restock", ~UNCHANGED scanVars,
         NEW k \in scan.named, keyState'[k] = "available"
  PROVE  keyState[k] = "available"
<1>1. Reconcile
  BY DEF ReconcileNext, reconcileVars, scanVars, Eneba
<1>2. RestockOrphans
  BY <1>1 DEF Reconcile, ReconcileStep, LoadProvisions, ReportsAnswered, ReportsFailed,
              MarkReported, OrdersAnswered, OrdersFailed, MarkComplained, FlipOrphan, CancelOrphaned
<1>3. PICK S \in SUBSET Restockable(KeysOf(scan.provs)) : RestockKeys(S)
  BY <1>2 DEF RestockOrphans
<1>4. k \notin S
  BY <1>3 DEF Restockable, ReconcileInv, ScanInv
<1>5. k \in Keys
  BY DEF ReconcileInv, ScanInv, Scans
<1> QED
  BY <1>3, <1>4, <1>5 DEF RestockKeys, SetKeys

-------------------------------------------------------------------------------
(* The theorems.                                                             *)

\* The invariant holds with the phase, the webhooks and the sweep together.
THEOREM ReconcileInvariant == ReconcileSpec => []ReconcileInv
<1>1. ReconcileInit => ReconcileInv
  <2> SUFFICES ASSUME ReconcileInit
               PROVE  ReconcileInv
    OBVIOUS
  <2>1. KeyOpsInv
    BY InitKeyOps DEF ReconcileInit
  <2>2. ScanInv
    BY NoScanOK DEF ReconcileInit, ScanInv, ScanOK
  <2> QED
    BY <2>1, <2>2 DEF ReconcileInv
<1>2. ReconcileInv /\ [ReconcileNext]_reconcileVars => ReconcileInv'
  BY ReconcileNextKeeps
<1> QED
  BY <1>1, <1>2, PTL DEF ReconcileSpec

\* The phase takes no key from a buyer whom Eneba named to its scan, also when
\* the buyer reports the key between its two passes.
THEOREM NamedBuyersKeep == ReconcileSpec => BuyersKeysStay
<1> DEFINE Stays == at = "restock" => \A k \in scan.named :
                      keyState'[k] = "available" => keyState[k] = "available"
<1>1. ReconcileInv /\ [ReconcileNext]_reconcileVars => [Stays]_scanVars
  BY NamedKeysStay
<1> QED
  BY <1>1, ReconcileInvariant, PTL DEF ReconcileSpec, BuyersKeysStay

\* The phase brings back no closed reservation either: its late writes to
\* provisions and rows leave NeverReopened true.
THEOREM ReconcileNeverReopens == ReconcileSpec => NeverReopened
<1> DEFINE Stays == \A r \in Reservations : resv[r] \in Closed => resv'[r] \in Closed
<1>1. ReconcileInv /\ [ReconcileNext]_reconcileVars => [Stays]_vars
  BY ReconcileNextKeeps DEF Monotone
<1> QED
  BY <1>1, ReconcileInvariant, PTL DEF ReconcileSpec, NeverReopened

\* With the phase beside them the key operations still keep what they promise
\* of provisions, sales and answers.
THEOREM ReconcileKeepsPromises ==
  ReconcileSpec => [](NoPhantomProvision /\ SaleRecordedOnce /\ AnswersAreFinal)
<1>1. ReconcileInv => NoPhantomProvision /\ SaleRecordedOnce /\ AnswersAreFinal
  BY KeyOpsImplies DEF ReconcileInv
<1> QED
  BY <1>1, ReconcileInvariant, PTL
===============================================================================
