------------------------- MODULE GamivoFulfilment_proofs -------------------------
(***************************************************************************)
(* KeyOpsInv is an invariant of the Gamivo import API with the expiry      *)
(* cron, and with it the properties that hold for any number of            *)
(* reservations, keys and concurrent requests, any overlap and any faults. *)
(* An order that fails releases its row, so the invariant also has to      *)
(* remember that such a release closes the row as failed.                  *)
(***************************************************************************)
EXTENDS GamivoFulfilment, SellerStock_proofs

Provisioning == {"prov_read", "prov_finalize", "prov_decrypt"}

FailsAsFailed == \A t \in Tasks : pc[t] \in Provisioning => job[t].target = "failed"

GamivoInv == KeyOpsInv /\ FailsAsFailed

-------------------------------------------------------------------------------
(* Requests.                                                                 *)

\* A request that starts at a label whose assumptions hold keeps the invariant.
LEMMA BeginKeeps ==
  ASSUME GamivoInv, NEW t \in Tasks, NEW r \in Reservations, NEW j \in Jobs,
         NEW l \in {"claim", "prov_read", "replay", "release", "refund_read", "refund_cancel"},
         Begin(t, r, l, j), j.batch = {},
         l \in {"prov_read", "release"} => resv[r] # "none",
         l = "release" => j.target \in Closed,
         l = "prov_read" => j.target = "failed",
         l \in {"refund_read", "refund_cancel"} => Quiet(r)
  PROVE  GamivoInv' /\ Monotone
<1> DEFINE i == [j EXCEPT !.row = r]
<1>1. Continue(t, l, i) /\ UNCHANGED dbVars
  BY DEF Begin, Start
<1>2. i \in Jobs /\ i.row = r /\ i.target = j.target /\ i.batch = {}
  BY DEF Jobs
<1>3. l \in Labels /\ l \notin Selling /\ l # "idle" /\ KeyOpsInv
  BY DEF Labels, Selling, GamivoInv
<1> HIDE DEF i
<1>4. Relies(l, i) /\ SaleRelies(l, i)
  BY <1>2 DEF Relies, SaleRelies, Rowless, Selling, AfterPending, Answering
<1>5. KeyOpsInv' /\ Monotone
  BY <1>1, <1>2, <1>3, <1>4, MoveKeeps
<1>6. FailsAsFailed'
  <2>1. StepOf(t) /\ pc'[t] = l /\ job'[t] = i
    BY <1>1, <1>2, <1>3, ContinueMoves
  <2> QED
    BY <1>2, <2>1 DEF FailsAsFailed, GamivoInv, StepOf, Provisioning
<1> QED
  BY <1>5, <1>6 DEF GamivoInv

\* The locals of a request are well typed.
LEMMA Locals ==
  /\ \A q \in Nat : [NoJob EXCEPT !.qty = q] \in Jobs /\ [NoJob EXCEPT !.qty = q].batch = {}
  /\ \A s \in ReservationStates : LET j == [NoJob EXCEPT !.target = s] IN
       j \in Jobs /\ j.target = s /\ j.batch = {}
  /\ NoJob \in Jobs /\ NoJob.batch = {}
  BY DEF Jobs, NoJob, ReservationStates

\* /reservation claims for a row of its own.
LEMMA ReserveKeeps ==
  ASSUME GamivoInv, NEW t \in Tasks, NEW r \in Reservations, Reserve(t, r)
  PROVE  GamivoInv' /\ Monotone
<1> DEFINE j == [NoJob EXCEPT !.qty = Quantity[r]]
<1>1. j \in Jobs /\ j.batch = {} /\ Begin(t, r, "claim", j)
  BY Locals, QuantityType DEF Reserve
<1> HIDE DEF j
<1> QED
  BY <1>1, BeginKeeps

\* /order releases, replays or provisions a row in use.
LEMMA OrderKeeps ==
  ASSUME GamivoInv, NEW t \in Tasks, NEW r \in Reservations, Order(t, r)
  PROVE  GamivoInv' /\ Monotone
<1>1. /\ "expired" \in ReservationStates \intersect Closed
      /\ "failed" \in ReservationStates
  BY DEF ReservationStates, Closed
<1>2. CASE /\ resv[r] = "pending"
           /\ Begin(t, r, "release", [NoJob EXCEPT !.target = "expired"])
  <2> DEFINE j == [NoJob EXCEPT !.target = "expired"]
  <2>1. /\ j \in Jobs /\ j.target \in Closed /\ j.batch = {}
        /\ Begin(t, r, "release", j) /\ resv[r] # "none"
    BY <1>1, <1>2, Locals
  <2> HIDE DEF j
  <2> QED
    BY <2>1, BeginKeeps
<1>3. CASE Begin(t, r, "replay", NoJob)
  BY <1>3, Locals, BeginKeeps
<1>4. CASE /\ resv[r] \in {"pending", "cancelled", "failed"}
           /\ Begin(t, r, "prov_read", [NoJob EXCEPT !.target = "failed"])
  <2> DEFINE j == [NoJob EXCEPT !.target = "failed"]
  <2>1. /\ j \in Jobs /\ j.target = "failed" /\ j.batch = {}
        /\ Begin(t, r, "prov_read", j) /\ resv[r] # "none"
    BY <1>1, <1>4, Locals
  <2> HIDE DEF j
  <2> QED
    BY <2>1, BeginKeeps
<1> QED
  BY <1>2, <1>3, <1>4 DEF Order

\* GET /orders/keys replays.
LEMMA GetKeysKeeps ==
  ASSUME GamivoInv, NEW t \in Tasks, NEW r \in Reservations, GetKeys(t, r)
  PROVE  GamivoInv' /\ Monotone
  BY Locals, BeginKeeps DEF GetKeys

\* /refund returns keys of a quiet row, or closes it, or releases a pending one.
LEMMA RefundKeeps ==
  ASSUME GamivoInv, NEW t \in Tasks, NEW r \in Reservations, Refund(t, r)
  PROVE  GamivoInv' /\ Monotone
<1>1. resv[r] \notin {"none", "pending"} => Quiet(r)
  BY QuietRows DEF GamivoInv
<1>2. CASE /\ resv[r] = "provisioned"
           /\ \E count \in RefundCounts[r] :
                Begin(t, r, "refund_read", [NoJob EXCEPT !.qty = count])
  <2>1. PICK count \in Nat : Begin(t, r, "refund_read", [NoJob EXCEPT !.qty = count])
    BY <1>2, RefundCountsType
  <2> DEFINE j == [NoJob EXCEPT !.qty = count]
  <2>2. j \in Jobs /\ j.batch = {} /\ Begin(t, r, "refund_read", j) /\ Quiet(r)
    BY <1>1, <1>2, <2>1, Locals
  <2> HIDE DEF j
  <2> QED
    BY <2>2, BeginKeeps
<1>3. CASE /\ resv[r] = "pending"
           /\ Begin(t, r, "release", [NoJob EXCEPT !.target = "cancelled"])
  <2> DEFINE j == [NoJob EXCEPT !.target = "cancelled"]
  <2>1. "cancelled" \in ReservationStates \intersect Closed
    BY DEF ReservationStates, Closed
  <2>2. /\ j \in Jobs /\ j.target \in Closed /\ j.batch = {}
        /\ Begin(t, r, "release", j) /\ resv[r] # "none"
    BY <1>3, <2>1, Locals
  <2> HIDE DEF j
  <2> QED
    BY <2>2, BeginKeeps
<1>4. CASE resv[r] \in Closed /\ Begin(t, r, "refund_cancel", NoJob)
  BY <1>1, <1>4, Locals, BeginKeeps DEF Closed
<1> QED
  BY <1>2, <1>3, <1>4 DEF Refund

-------------------------------------------------------------------------------
(* Refunds.                                                                  *)

\* The cumulative count becomes a number of keys to return from a quiet row.
LEMMA RefundReadKeeps ==
  ASSUME KeyOpsInv, NEW t \in Tasks, RefundRead(t)
  PROVE  KeyOpsInv' /\ Monotone
<1> DEFINE refunded == RefundedCount(Row(t))
           provisioned == ProvisionedCount(Row(t))
           target == MinOf(job[t].qty, provisioned)
           j == [job[t] EXCEPT !.qty = target - refunded, !.event = target]
<1>1. CASE Goto(t, "idle")
  BY <1>1, StopKeeps DEF RefundRead
<1>2. CASE ~(target <= refunded) /\ Continue(t, "ret_read", j)
  <2>1. job[t] \in Jobs /\ refunded \in Nat /\ provisioned \in Nat
    BY Mover, CountsAreNat
  <2>2. target \in Nat /\ target - refunded \in Nat
    BY <1>2, <2>1 DEF MinOf, Jobs
  <2> HIDE DEF refunded, provisioned, target
  <2>3. j \in Jobs /\ j.row = job[t].row /\ j.batch = job[t].batch
    BY <2>1, <2>2 DEF Jobs
  <2>4. Continue(t, "ret_read", j)
    BY <1>2
  <2> HIDE DEF j
  <2>5. DbTypeOK' /\ UNCHANGED <<prov, resv, orders>>
    BY DEF KeyOpsInv, TypeOK, DbTypeOK, dbVars, RefundRead
  <2>6. pc[t] \in AfterPending /\ "ret_read" \in AfterPending \ {"release_status"}
    BY DEF AfterPending, RefundRead
  <2> QED
    BY <2>3, <2>4, <2>5, <2>6, ReturnGoesOn
<1> QED
  BY <1>1, <1>2 DEF RefundRead

\* A cancellation closes a row whose provisions are all settled.
LEMMA RefundCancelKeeps ==
  ASSUME KeyOpsInv, NEW t \in Tasks, RefundCancel(t)
  PROVE  KeyOpsInv' /\ Monotone
<1>1. Row(t) \in Reservations /\ Quiet(Row(t)) /\ "cancelled" \in Closed
  BY Mover DEF RefundCancel, Relies, Row, Rowless, AfterPending, Closed
<1> QED
  BY <1>1, CloseKeeps DEF RefundCancel

-------------------------------------------------------------------------------
(* Every step of a request.                                                  *)

\* The task moves to a label outside the provisioning.
Elsewhere(t) == StepOf(t) /\ pc'[t] \notin Provisioning

\* Tasks that are not provisioning have no status to remember.
LEMMA ElsewhereKeeps ==
  ASSUME FailsAsFailed, NEW t \in Tasks, Elsewhere(t)
  PROVE  FailsAsFailed'
  BY DEF FailsAsFailed, Elsewhere, StepOf

\* Claims end the request or go on to another claim.
LEMMA ClaimElsewhere ==
  ASSUME TypeOK, NEW t \in Tasks, ClaimSteps(t)
  PROVE  Elsewhere(t)
<1> USE DEF Elsewhere, StepOf, Provisioning, Continue, Goto, TypeOK
<1>1. CASE ClaimKeys(t, "idle", "idle")
  BY <1>1 DEF ClaimKeys, ClaimFrom
<1>2. CASE JitPurchase(t, "idle")
  BY <1>2 DEF JitPurchase
<1>3. CASE ClaimRetry(t, "idle", "idle")
  BY <1>3 DEF ClaimRetry, ClaimFrom
<1> QED
  BY <1>1, <1>2, <1>3 DEF ClaimSteps

\* The sale and the answer come after the provisioning.
LEMMA SaleElsewhere ==
  ASSUME TypeOK, NEW t \in Tasks, SaleSteps(t) \/ Replay(t) \/ Reply(t) \/ Crash(t)
  PROVE  Elsewhere(t)
<1> USE DEF Elsewhere, StepOf, Provisioning, Continue, Goto, TypeOK
<1>1. CASE SaleCheck(t, "reply") \/ SaleInsert(t, "reply")
  BY <1>1 DEF SaleCheck, SaleInsert
<1>2. CASE SaleCredit(t) \/ SaleLink(t, "reply")
  BY <1>2 DEF SaleCredit, SaleLink
<1>3. CASE Replay(t) \/ Reply(t) \/ Crash(t)
  BY <1>3 DEF Replay, Reply, Crash
<1> QED
  BY <1>1, <1>2, <1>3 DEF SaleSteps

\* Returns and releases never go back to the provisioning.
LEMMA ReturnElsewhere ==
  ASSUME TypeOK, NEW t \in Tasks, NEW done \in {"idle", "cron_next"},
         RefundSteps(t) \/ Release(t, done) \/ ReleaseStatus(t, done)
  PROVE  Elsewhere(t)
<1> USE DEF Elsewhere, StepOf, Provisioning, Continue, Goto, TypeOK
<1>1. CASE RefundRead(t) \/ RefundCancel(t)
  BY <1>1 DEF RefundRead, RefundCancel
<1>2. CASE ReturnRead(t) \/ ReturnRestock(t)
  BY <1>2 DEF ReturnRead, ReturnRestock
<1>3. CASE ReturnFlip(t) \/ ReturnTotals(t)
  BY <1>3 DEF ReturnFlip, ReturnTotals
<1>4. CASE LedgerRead(t)
  BY <1>4 DEF LedgerRead
<1>5. CASE LedgerInsert(t) \/ LedgerStatus(t) \/ ReturnFinal(t)
  BY <1>5 DEF LedgerInsert, LedgerStatus, ReturnFinal
<1>6. CASE Release(t, done) \/ ReleaseStatus(t, done)
  BY <1>6 DEF Release, ReleaseStatus
<1> QED
  BY <1>1, <1>2, <1>3, <1>4, <1>5, <1>6 DEF RefundSteps, ReturnSteps

\* The provisioning keeps the status to set if it fails.
LEMMA ProvisionKeepsTarget ==
  ASSUME GamivoInv, NEW t \in Tasks,
         \/ ProvisionRead(t, "release") \/ ProvisionFinalize(t, "release")
         \/ ProvisionDecrypt(t, "sale_check", "release")
  PROVE  FailsAsFailed' /\ MayRaise(t, "release")
<1>1. pc[t] \in Provisioning /\ job[t].target = "failed" /\ job[t] \in Jobs
  BY Mover DEF ProvisionRead, ProvisionFinalize, ProvisionDecrypt, Provisioning, GamivoInv,
               FailsAsFailed
<1>2. StepOf(t) /\ (pc'[t] \in Provisioning => job'[t].target = "failed")
  <2> USE DEF StepOf, Provisioning, Continue, Goto, TypeOK, GamivoInv, KeyOpsInv, NoJob
  <2>1. CASE ProvisionRead(t, "release")
    BY <1>1, <2>1 DEF ProvisionRead, Jobs
  <2>2. CASE ProvisionFinalize(t, "release")
    BY <1>1, <2>2 DEF ProvisionFinalize
  <2>3. CASE ProvisionDecrypt(t, "sale_check", "release")
    BY <1>1, <2>3 DEF ProvisionDecrypt
  <2> QED
    BY <2>1, <2>2, <2>3
<1>3. FailsAsFailed'
  BY <1>2 DEF FailsAsFailed, GamivoInv, StepOf
<1>4. MayRaise(t, "release")
  BY <1>1 DEF MayRaise, Closed
<1> QED
  BY <1>3, <1>4

\* Every step of a request keeps the invariant.
LEMMA WorkerStepKeeps ==
  ASSUME GamivoInv, NEW t \in Tasks, WorkerStep(t)
  PROVE  GamivoInv' /\ Monotone
<1>1. KeyOpsInv /\ TypeOK /\ FailsAsFailed
  BY DEF GamivoInv, KeyOpsInv
<1>2. CASE ClaimSteps(t)
  BY <1>1, <1>2, ClaimStepsKeep, ClaimElsewhere, ElsewhereKeeps DEF ClaimSteps, GamivoInv
<1>3. CASE SaleSteps(t) \/ Replay(t) \/ Reply(t)
  BY <1>1, <1>3, SaleStepsKeep, ReplayKeeps, ReplyKeeps, SaleElsewhere, ElsewhereKeeps
     DEF GamivoInv
<1>4. CASE \/ ProvisionRead(t, "release") \/ ProvisionFinalize(t, "release")
           \/ ProvisionDecrypt(t, "sale_check", "release")
  BY <1>1, <1>4, ProvisionKeepsTarget, ProvisionReadKeeps, ProvisionFinalizeKeeps,
     ProvisionDecryptKeeps DEF GamivoInv
<1>5. CASE RefundSteps(t)
  BY <1>1, <1>5, RefundReadKeeps, RefundCancelKeeps, ReturnStepsKeep, ReturnElsewhere,
     ElsewhereKeeps DEF RefundSteps, GamivoInv
<1>6. CASE Release(t, "idle") \/ ReleaseStatus(t, "idle")
  BY <1>1, <1>6, ReleaseKeeps, ReleaseStatusKeeps, ReturnElsewhere, ElsewhereKeeps DEF GamivoInv
<1> QED
  BY <1>2, <1>3, <1>4, <1>5, <1>6 DEF WorkerStep, OrderSteps

\* The sweep releases rows and starts no provisioning.
LEMMA SweepKeeps ==
  ASSUME GamivoInv, CronStart \/ SweepNext \/ SweepRelease
  PROVE  GamivoInv' /\ Monotone
<1>1. KeyOpsInv /\ TypeOK /\ FailsAsFailed /\ Cron \in Tasks
  BY TasksAre DEF GamivoInv, KeyOpsInv
<1>2. KeyOpsInv' /\ Monotone
  BY <1>1, SweepStartKeeps, SweepNextKeeps, SweepReleaseKeeps DEF CronStart
<1>3. Elsewhere(Cron)
  <2> USE DEF Elsewhere, StepOf, Provisioning, Continue, Goto, TypeOK
  <2>1. CASE CronStart
    BY <1>1, <2>1 DEF CronStart, SweepStart, Start
  <2>2. CASE SweepNext
    BY <1>1, <2>2 DEF SweepNext
  <2>3. CASE SweepRelease
    BY <1>1, <2>3, ReturnElsewhere DEF SweepRelease
  <2> QED
    BY <2>1, <2>2, <2>3
<1> QED
  BY <1>1, <1>2, <1>3, ElsewhereKeeps DEF GamivoInv

\* Every step keeps the invariant and is monotone.
LEMMA NextKeeps ==
  ASSUME GamivoInv, [Next]_vars
  PROVE  GamivoInv' /\ Monotone
<1>1. ASSUME NEW t \in Workers, Request(t)
      PROVE  GamivoInv' /\ Monotone
  BY <1>1, TasksAre, ReserveKeeps, OrderKeeps, GetKeysKeeps, RefundKeeps DEF Request
<1>2. ASSUME NEW t \in Workers, WorkerStep(t)
      PROVE  GamivoInv' /\ Monotone
  BY <1>2, TasksAre, WorkerStepKeeps
<1>3. CASE CronStart \/ SweepNext \/ SweepRelease
  BY <1>3, SweepKeeps
<1>4. ASSUME NEW t \in Tasks, Crash(t)
      PROVE  GamivoInv' /\ Monotone
  <2>1. KeyOpsInv /\ TypeOK /\ FailsAsFailed
    BY DEF GamivoInv, KeyOpsInv
  <2> QED
    BY <1>4, <2>1, CrashKeeps, SaleElsewhere, ElsewhereKeeps DEF GamivoInv
<1>5. CASE UNCHANGED vars
  BY <1>5, StutterKeeps DEF GamivoInv, FailsAsFailed, vars
<1> QED
  BY <1>1, <1>2, <1>3, <1>4, <1>5 DEF Next

-------------------------------------------------------------------------------
(* The theorems.                                                             *)

\* The inductive invariant holds under the Gamivo import API.
THEOREM GamivoInvariant == Spec => []GamivoInv
<1>1. Init => GamivoInv
  BY InitKeyOps DEF GamivoInv, FailsAsFailed, Provisioning, Init
<1>2. GamivoInv /\ [Next]_vars => GamivoInv'
  BY NextKeeps
<1> QED
  BY <1>1, <1>2, PTL DEF Spec

\* The inductive invariant of the key operations holds under the Gamivo import API.
THEOREM GamivoKeyOps == Spec => []KeyOpsInv
<1>1. GamivoInv => KeyOpsInv
  BY DEF GamivoInv
<1> QED
  BY <1>1, GamivoInvariant, PTL

\* Tables and locals stay well typed.
THEOREM GamivoTypes == Spec => []TypeOK
<1>1. KeyOpsInv => TypeOK
  BY KeyOpsImplies
<1> QED
  BY <1>1, GamivoKeyOps, PTL

\* No pending provision is left behind a closed or provisioned reservation, in
\* whatever order orders, refunds, the sweep and crashes come.
THEOREM GamivoNoPhantoms == Spec => []NoPhantomProvision
<1>1. KeyOpsInv => NoPhantomProvision
  BY KeyOpsImplies
<1> QED
  BY <1>1, GamivoKeyOps, PTL

\* However many orders overlap or repeat, a sale is recorded once.
THEOREM GamivoSaleOnce == Spec => []SaleRecordedOnce
<1>1. KeyOpsInv => SaleRecordedOnce
  BY KeyOpsImplies
<1> QED
  BY <1>1, GamivoKeyOps, PTL

\* Gamivo is answered only with keys finalized for the reservation.
THEOREM GamivoAnswersFinal == Spec => []AnswersAreFinal
<1>1. KeyOpsInv => AnswersAreFinal
  BY KeyOpsImplies
<1> QED
  BY <1>1, GamivoKeyOps, PTL

\* A closed reservation stays closed, although /order tries to provision
\* cancelled and failed ones again.
THEOREM GamivoNeverReopened == Spec => NeverReopened
<1> DEFINE Stays == \A r \in Reservations : resv[r] \in Closed => resv'[r] \in Closed
<1>1. GamivoInv /\ [Next]_vars => [Stays]_vars
  BY NextKeeps DEF Monotone
<1> QED
  BY <1>1, GamivoInvariant, PTL DEF Spec, NeverReopened
-------------------------------------------------------------------------------
(* Keys and their holders, when requests about one reservation follow each   *)
(* other and every return runs to its end.                                   *)

Orderly == ~Overlap /\ "crash" \notin Faults /\ "write" \notin Faults

\* A request of any kind keeps keys and holders; a refund is the only one that
\* takes back keys, and nobody else works on its row.
LEMMA RequestStock ==
  ASSUME Orderly, KeyOpsInv, StockInv, NEW t \in Tasks, Request(t)
  PROVE  StockInv'
<1>1. PICK r \in Reservations : Reserve(t, r) \/ Order(t, r) \/ GetKeys(t, r) \/ Refund(t, r)
  BY DEF Request
<1>2. CASE \E l \in {"claim", "release", "replay", "prov_read", "refund_cancel"} :
             \E j : Begin(t, r, l, j)
  <2>1. PICK l \in {"claim", "release", "replay", "prov_read", "refund_cancel"} :
          \E j : Begin(t, r, l, j)
    BY <1>2
  <2>2. pc[t] # "ret_flip" /\ l \notin Taking /\ TypeOK /\ UNCHANGED dbVars
    BY <2>1 DEF Begin, Start, Taking, KeyOpsInv
  <2>3. \E j : Continue(t, l, j)
    BY <2>1 DEF Begin, Start
  <2> QED
    BY <2>2, <2>3, GoesOnCalmly, CalmKeeps
<1>3. CASE \E count \in RefundCounts[r] :
             Begin(t, r, "refund_read", [NoJob EXCEPT !.qty = count])
  <2>1. PICK count : Begin(t, r, "refund_read", [NoJob EXCEPT !.qty = count])
    BY <1>3
  <2> DEFINE j == [[NoJob EXCEPT !.qty = count] EXCEPT !.row = r]
  <2>2. pc[t] = "idle" /\ Continue(t, "refund_read", j) /\ UNCHANGED dbVars
    BY <2>1 DEF Begin, Start
  <2>3. j.row = r
    BY DEF NoJob
  <2> HIDE DEF j
  <2>4. \A u \in Tasks : Row(u) # r
    BY <2>1 DEF Begin, MayStart, Orderly, Working
  <2> QED
    BY <2>2, <2>3, <2>4, TakingGoesOn DEF Taking
<1>4. Reserve(t, r) \/ Order(t, r) \/ GetKeys(t, r) =>
        \E l \in {"claim", "release", "replay", "prov_read", "refund_cancel"} :
          \E j : Begin(t, r, l, j)
  BY DEF Reserve, Order, GetKeys
<1>5. Refund(t, r) =>
        \/ \E count \in RefundCounts[r] :
             Begin(t, r, "refund_read", [NoJob EXCEPT !.qty = count])
        \/ \E l \in {"claim", "release", "replay", "prov_read", "refund_cancel"} :
             \E j : Begin(t, r, l, j)
  BY DEF Refund
<1> QED
  BY <1>1, <1>2, <1>3, <1>4, <1>5

\* A refund goes on to the return of its own row, or changes no key.
LEMMA RefundStepsStock ==
  ASSUME Orderly, KeyOpsInv, StockInv, NEW t \in Tasks, RefundSteps(t)
  PROVE  StockInv'
<1>1. TypeOK /\ "idle" \notin Taking
  BY DEF KeyOpsInv, Taking
<1>2. CASE RefundRead(t)
  <2>1. CASE Goto(t, "idle")
    BY <1>1, <1>2, <2>1, GoesOnCalmly, CalmKeeps DEF RefundRead, Goto
  <2>2. CASE ~Goto(t, "idle")
    <3>1. \E q, e : Continue(t, "ret_read", [job[t] EXCEPT !.qty = q, !.event = e])
      BY <1>2, <2>2 DEF RefundRead
    <3>2. PICK q, e : Continue(t, "ret_read", [job[t] EXCEPT !.qty = q, !.event = e])
      BY <3>1
    <3> DEFINE j == [job[t] EXCEPT !.qty = q, !.event = e]
    <3>3. j.row = job[t].row /\ Continue(t, "ret_read", j)
      BY <3>2, Mover DEF Jobs
    <3> HIDE DEF j
    <3>4. pc[t] = "refund_read" /\ UNCHANGED dbVars
      BY <1>2 DEF RefundRead
    <3>5. \A u \in Tasks : u # t /\ pc[u] \in Taking => Row(u) # j.row
      BY <3>3, <3>4 DEF StockInv, OneReturner, Taking, Row
    <3> QED
      BY <3>3, <3>4, <3>5, TakingGoesOn DEF Taking
  <2> QED
    BY <2>1, <2>2
<1>3. CASE RefundCancel(t)
  <2>1. Calm(t)
    BY <1>1, <1>3 DEF RefundCancel, Calm, StepOf, Goto, Continue, TypeOK, keyVars
  <2> QED
    BY <2>1, CalmKeeps
<1>4. CASE ReturnSteps(t)
  BY <1>4, ReturnStepsStock DEF Orderly
<1> QED
  BY <1>2, <1>3, <1>4 DEF RefundSteps

\* Every step of a request, the sweep and nothing else.
LEMMA NextStock ==
  ASSUME Orderly, KeyOpsInv, StockInv, [Next]_vars
  PROVE  StockInv'
<1>1. ASSUME NEW t \in Workers, Request(t)
      PROVE  StockInv'
  BY <1>1, TasksAre, RequestStock
<1>2. ASSUME NEW t \in Workers, WorkerStep(t)
      PROVE  StockInv'
  <2>1. t \in Tasks /\ {"sale_check", "release"} \intersect Taking = {}
    BY TasksAre DEF Taking
  <2>2. CASE ClaimSteps(t)
    BY <2>1, <2>2, ClaimStepsStock DEF ClaimSteps
  <2>3. CASE OrderSteps(t)
    BY <2>1, <2>3, ProvideStepsStock, SaleStepsStock DEF OrderSteps
  <2>4. CASE RefundSteps(t)
    BY <2>1, <2>4, RefundStepsStock
  <2>5. CASE Release(t, "idle") \/ ReleaseStatus(t, "idle")
    BY <2>1, <2>5, ReleaseStepsStock
  <2> QED
    BY <1>2, <2>2, <2>3, <2>4, <2>5 DEF WorkerStep
<1>3. CASE CronStart \/ SweepNext \/ SweepRelease
  BY <1>3, SweepStock DEF CronStart
<1>4. CASE \E t \in Tasks : Crash(t)
  BY <1>4 DEF Crash, CanFail, Orderly
<1>5. CASE UNCHANGED vars
  BY <1>5, StutterStock
<1> QED
  BY <1>1, <1>2, <1>3, <1>4, <1>5 DEF Next

\* The invariant behind the two theorems that follow.
THEOREM GamivoStock ==
  ASSUME Orderly
  PROVE  Spec => []StockInv
<1>1. Init => StockInv
  BY InitStock
<1>2. KeyOpsInv /\ StockInv /\ [Next]_vars => StockInv'
  BY NextStock
<1> QED
  BY <1>1, <1>2, GamivoKeyOps, PTL DEF Spec

\* No key is promised to two buyers, when requests about one reservation do not
\* overlap and no return is cut short.
THEOREM GamivoOneHolder ==
  ASSUME Orderly
  PROVE  Spec => []OneHolder
<1>1. StockInv => OneHolder
  BY StockIsFreeFollows
<1> QED
  BY <1>1, GamivoStock, PTL

\* Stock that can be claimed is nobody's, under the same conditions, through
\* any sequence of partial refunds and cancellations.
THEOREM GamivoStockIsFree ==
  ASSUME Orderly
  PROVE  Spec => []StockIsFree
<1>1. StockInv => StockIsFree
  BY StockIsFreeFollows
<1> QED
  BY <1>1, GamivoStock, PTL

-------------------------------------------------------------------------------
(* Rows and orders, when requests about one reservation follow each other    *)
(* and nothing but reads and the marketplace fails.                          *)

Calls == ~Overlap /\ Reliable

\* no key is marked faulty: that is what replacements do
NoneFaulty == \A k \in Keys : keyState[k] # "faulty"

GamivoRestInv == RestInv({}) /\ NoneFaulty

\* A request starts on a row nobody works on, at a label whose stage holds.
LEMMA BeginRests ==
  ASSUME Calls, KeyOpsInv, RestInv({}), NEW t \in Tasks, NEW r \in Reservations,
         NEW j \in Jobs, NEW l \in Labels, Begin(t, r, l, j), j.batch = {},
         l \in {"claim", "replay", "prov_read", "release", "refund_read", "refund_cancel"},
         l = "claim" => j.qty >= 1,
         l \in {"prov_read", "release"} => resv[r] \in {"pending"} \union Closed,
         l = "refund_read" => resv[r] = "provisioned",
         l = "refund_cancel" => resv[r] \in Closed
  PROVE  RestInv({})'
<1>1. PICK i : i = [j EXCEPT !.row = r]
  OBVIOUS
<1>2. i.row = r /\ i.batch = {} /\ i.qty = j.qty
  BY <1>1 DEF Jobs
<1>3. Start(t, l, i) /\ UNCHANGED dbVars
  BY <1>1 DEF Begin
<1>4. Stage(l, i, {})
  BY <1>2 DEF Stage, OpenStage, SaleStage, ReturnStage, LedgerStage
<1>5. \A u \in Tasks : ~Busy(u, r)
  BY DEF Begin, MayStart, Calls, Working, Busy
<1> QED BY <1>2, <1>3, <1>4, <1>5, StartRests

\* Requests of any kind.
LEMMA RequestRests ==
  ASSUME Calls, KeyOpsInv, RestInv({}), NEW t \in Tasks, Request(t)
  PROVE  RestInv({})'
<1>1. PICK r \in Reservations : Reserve(t, r) \/ Order(t, r) \/ GetKeys(t, r) \/ Refund(t, r)
  BY DEF Request
<1> USE DEF Labels
<1>2. CASE Reserve(t, r)
  <2>1. PICK j : j = [NoJob EXCEPT !.qty = Quantity[r]]
    OBVIOUS
  <2>2. j \in Jobs /\ j.batch = {} /\ j.qty = Quantity[r] /\ Quantity[r] \in Nat \ {0}
    BY <2>1, Locals, QuantityType DEF NoJob
  <2>3. Begin(t, r, "claim", j) /\ j.qty >= 1
    BY <1>2, <2>1, <2>2 DEF Reserve
  <2> QED BY <2>2, <2>3, BeginRests
<1>3. CASE resv[r] = "pending" /\ \E s \in Closed : Begin(t, r, "release", [NoJob EXCEPT !.target = s])
  <2>1. PICK s \in Closed : Begin(t, r, "release", [NoJob EXCEPT !.target = s])
    BY <1>3
  <2>2. PICK j : j = [NoJob EXCEPT !.target = s]
    OBVIOUS
  <2>3. j \in Jobs /\ j.batch = {}
    BY <2>2, Locals DEF Closed, ReservationStates
  <2> QED BY <1>3, <2>1, <2>2, <2>3, BeginRests
<1>4. CASE Begin(t, r, "replay", NoJob)
  BY <1>4, Locals, BeginRests
<1>5. CASE /\ resv[r] \in {"pending", "cancelled", "failed"}
           /\ Begin(t, r, "prov_read", [NoJob EXCEPT !.target = "failed"])
  <2>1. PICK j : j = [NoJob EXCEPT !.target = "failed"]
    OBVIOUS
  <2>2. j \in Jobs /\ j.batch = {}
    BY <2>1, Locals DEF ReservationStates
  <2> QED BY <1>5, <2>1, <2>2, BeginRests DEF Closed
<1>6. CASE /\ resv[r] = "provisioned"
           /\ \E count \in RefundCounts[r] :
                Begin(t, r, "refund_read", [NoJob EXCEPT !.qty = count])
  <2>1. PICK count \in Nat : Begin(t, r, "refund_read", [NoJob EXCEPT !.qty = count])
    BY <1>6, RefundCountsType
  <2>2. PICK j : j = [NoJob EXCEPT !.qty = count]
    OBVIOUS
  <2>3. j \in Jobs /\ j.batch = {}
    BY <2>2, Locals
  <2> QED BY <1>6, <2>1, <2>2, <2>3, BeginRests
<1>7. CASE resv[r] \in Closed /\ Begin(t, r, "refund_cancel", NoJob)
  BY <1>7, Locals, BeginRests
<1>8. Order(t, r) => \/ /\ resv[r] = "pending"
                        /\ \E s \in Closed : Begin(t, r, "release", [NoJob EXCEPT !.target = s])
                     \/ Begin(t, r, "replay", NoJob)
                     \/ /\ resv[r] \in {"pending", "cancelled", "failed"}
                        /\ Begin(t, r, "prov_read", [NoJob EXCEPT !.target = "failed"])
  BY DEF Order, Closed
<1>9. Refund(t, r) => \/ /\ resv[r] = "pending"
                         /\ \E s \in Closed : Begin(t, r, "release", [NoJob EXCEPT !.target = s])
                      \/ /\ resv[r] = "provisioned"
                         /\ \E count \in RefundCounts[r] :
                              Begin(t, r, "refund_read", [NoJob EXCEPT !.qty = count])
                      \/ resv[r] \in Closed /\ Begin(t, r, "refund_cancel", NoJob)
  BY DEF Refund, Closed
<1> QED BY <1>1, <1>2, <1>3, <1>4, <1>5, <1>6, <1>7, <1>8, <1>9 DEF GetKeys

\* The keys to return are what the count adds to those refunded so far.
LEMMA RefundReadRests ==
  ASSUME KeyOpsInv, RestInv({}), NEW t \in Tasks, RefundRead(t)
  PROVE  RestInv({})'
<1>1. pc[t] = "refund_read" /\ UNCHANGED dbVars /\ job[t] \in Jobs
  BY Mover DEF RefundRead
<1>2. pc[t] \notin Rowless \union Midway /\ pc[t] # "ret_flip"
  BY <1>1 DEF Rowless, Midway
<1>3. CASE Goto(t, "idle")
  BY <1>1, <1>2, <1>3, Ends
<1>4. CASE ~Goto(t, "idle")
  <2>1. PICK r \in Reservations : r = Row(t) /\ r = job[t].row
    BY <1>2, OwnRow
  <2>2. PICK n \in Nat, p \in Nat : n = RefundedCount(r) /\ p = ProvisionedCount(r)
    BY CountsAreNat
  <2>3. PICK m : m = MinOf(job[t].qty, p)
    OBVIOUS
  <2>4. m \in Nat /\ m <= p /\ m > n /\ m - n \in Nat
    BY <1>1, <1>4, <2>1, <2>2, <2>3 DEF RefundRead, MinOf, Jobs
  <2>5. PICK j : j = [job[t] EXCEPT !.qty = m - n, !.event = m]
    OBVIOUS
  <2>6. Continue(t, "ret_read", j)
    BY <1>4, <2>1, <2>2, <2>3, <2>5 DEF RefundRead
  <2>7. j.row = r /\ j.batch = job[t].batch /\ j.qty = m - n /\ j.event = m
    BY <1>1, <2>1, <2>4, <2>5 DEF Jobs
  <2>8. resv[r] = "provisioned"
    BY <1>1, <2>1 DEF RestInv, Stage, OpenStage
  <2>9. Due("ret_read", j)
    BY <2>2, <2>4, <2>7 DEF Due
  <2>10. Stage("ret_read", j, {})
    BY <2>7, <2>8, <2>9, <2>1, OpenRows DEF Stage, OpenStage, SaleStage, ReturnStage, LedgerStage
  <2> QED BY <1>1, <1>2, <2>1, <2>6, <2>7, <2>10, GoesOn
<1> QED BY <1>3, <1>4

\* A cancellation of a closed row.
LEMMA RefundCancelRests ==
  ASSUME KeyOpsInv, RestInv({}), NEW t \in Tasks, RefundCancel(t)
  PROVE  RestInv({})'
<1>1. /\ pc[t] = "refund_cancel" /\ Goto(t, "idle") /\ SetReservation(Row(t), "cancelled")
      /\ UNCHANGED <<keyVars, prov, orders>> /\ "cancelled" \in Closed
  BY DEF RefundCancel, Closed
<1>2. pc[t] \notin Rowless \union Midway /\ pc[t] # "ret_flip"
  BY <1>1 DEF Rowless, Midway
<1>3. resv[Row(t)] \in Closed /\ Rests(Row(t), {})
  BY <1>1, <1>2, OwnRow DEF RestInv, Stage, OpenStage
<1> QED BY <1>1, <1>2, <1>3, CloseRests

\* No step marks a key faulty.
LEMMA NoneGetsFaulty ==
  ASSUME KeyOpsInv, NoneFaulty, [Next]_vars
  PROVE  NoneFaulty'
<1> USE DEF NoneFaulty
<1>1. CASE UNCHANGED keyState
  BY <1>1
<1>2. CASE \E S, s : s # "faulty" /\ SetKeys(S, s)
  BY <1>2 DEF SetKeys
<1> HIDE DEF NoneFaulty
<1>3. ASSUME NEW t \in Tasks, ClaimSteps(t)
      PROVE  NoneFaulty'
  BY <1>1, <1>2, <1>3 DEF ClaimSteps, ClaimKeys, JitPurchase, ClaimRetry, ClaimFrom,
     ClaimAndReserve, dbVars, keyVars
<1>4. ASSUME NEW t \in Tasks, OrderSteps(t)
      PROVE  NoneFaulty'
  BY <1>1, <1>2, <1>4 DEF OrderSteps, ProvisionRead, ProvisionFinalize, ProvisionDecrypt,
     FinalizeProvisions, SaleSteps, SaleCheck, SaleInsert, SaleCredit, SaleLink, SetOrder,
     Replay, Reply, dbVars, keyVars
<1>5. ASSUME NEW t \in Tasks, RefundSteps(t)
      PROVE  NoneFaulty'
  <2>1. CASE ReturnRestock(t)
    BY <1>1, <1>2, <2>1 DEF ReturnRestock, RestockKeys
  <2>2. CASE RefundRead(t) \/ RefundCancel(t) \/ ReturnRead(t) \/ ReturnFlip(t) \/ ReturnTotals(t)
    BY <1>1, <2>2 DEF RefundRead, RefundCancel, ReturnRead, ReturnFlip, ReturnTotals, dbVars, keyVars
  <2>3. CASE LedgerRead(t) \/ LedgerInsert(t) \/ LedgerStatus(t) \/ ReturnFinal(t)
    BY <1>1, <2>3 DEF LedgerRead, LedgerInsert, LedgerStatus, ReturnFinal, SetOrder, dbVars, keyVars
  <2> QED BY <1>5, <2>1, <2>2, <2>3 DEF RefundSteps, ReturnSteps
<1>6. ASSUME NEW t \in Tasks, NEW l, Release(t, l) \/ ReleaseStatus(t, l)
      PROVE  NoneFaulty'
  BY <1>1, <1>2, <1>6 DEF Release, ReleaseStatus, ReleaseReserved, dbVars, keyVars
<1>7. ASSUME NEW t \in Tasks, Request(t)
      PROVE  NoneFaulty'
  BY <1>1, <1>7 DEF Request, Reserve, Order, GetKeys, Refund, Begin, dbVars, keyVars
<1>8. CASE CronStart \/ SweepNext
  BY <1>1, <1>8 DEF CronStart, SweepStart, SweepNext, dbVars, keyVars
<1>9. CASE \E t \in Tasks : Crash(t)
  BY <1>1, <1>9 DEF Crash, dbVars, keyVars
<1>10. CASE UNCHANGED vars
  BY <1>1, <1>10 DEF vars
<1> QED BY <1>3, <1>4, <1>5, <1>6, <1>7, <1>8, <1>9, <1>10, TasksAre DEF Next, WorkerStep, SweepRelease

\* Every step of a request, and of the sweep.
LEMMA NextRests ==
  ASSUME Calls, KeyOpsInv, StockInv, GamivoRestInv, [Next]_vars
  PROVE  RestInv({})'
<1>1. /\ RestInv({}) /\ {"rpc", "write", "refunds"} \intersect Faults = {}
      /\ "decrypt" \notin Faults
  BY DEF GamivoRestInv, Calls, Reliable
<1>2. ASSUME NEW t \in Workers, Request(t)
      PROVE  RestInv({})'
  BY <1>1, <1>2, TasksAre, RequestRests
<1>3. ASSUME NEW t \in Workers, WorkerStep(t)
      PROVE  RestInv({})'
  <2>1. t \in Tasks
    BY TasksAre
  <2>2. CASE ClaimSteps(t)
    BY <1>1, <2>1, <2>2, ClaimStepsRest DEF ClaimSteps
  <2>3. CASE \/ ProvisionRead(t, "release") \/ ProvisionFinalize(t, "release")
             \/ ProvisionDecrypt(t, "sale_check", "release")
    BY <1>1, <2>1, <2>3, ProvisionReadRests, ProvisionFinalizeRests, ProvisionDecryptRests
  <2>4. CASE SaleSteps(t) \/ Replay(t) \/ Reply(t)
    BY <1>1, <2>1, <2>4, SaleStepsRest, AnswerRests
  <2>5. CASE RefundRead(t) \/ RefundCancel(t)
    BY <1>1, <2>1, <2>5, RefundReadRests, RefundCancelRests
  <2>6. CASE ReturnSteps(t)
    BY <1>1, <2>1, <2>6, ReturnStepsRest DEF GamivoRestInv, NoneFaulty
  <2>7. CASE Release(t, "idle") \/ ReleaseStatus(t, "idle")
    BY <1>1, <2>1, <2>7, ReleaseStepsRest
  <2> QED BY <1>3, <2>2, <2>3, <2>4, <2>5, <2>6, <2>7 DEF WorkerStep, OrderSteps, RefundSteps
<1>4. CASE CronStart
  <2>1. PICK rows : rows = {r \in Reservations : MayStart(r)}
    OBVIOUS
  <2>2. rows \in SUBSET Reservations /\ \A q \in rows, u \in Tasks : ~Busy(u, q)
    BY <2>1 DEF MayStart, Calls, Working, Busy
  <2> QED BY <1>1, <1>4, <2>1, <2>2, SweepStartRests DEF CronStart
<1>5. CASE SweepNext \/ SweepRelease
  BY <1>1, <1>5, TasksAre, SweepNextRests, ReleaseStepsRest DEF SweepRelease
<1>6. CASE \E t \in Tasks : Crash(t)
  BY <1>6 DEF Crash, CanFail, Calls, Reliable
<1>7. CASE UNCHANGED vars
  BY <1>1, <1>7, StutterRests
<1> QED BY <1>2, <1>3, <1>4, <1>5, <1>6, <1>7 DEF Next

\* The invariant behind the three theorems that follow.
THEOREM GamivoRowsRest ==
  ASSUME Calls
  PROVE  Spec => []GamivoRestInv
<1>1. Init => GamivoRestInv
  BY InitRests DEF GamivoRestInv, NoneFaulty, Init, DbInit
<1>2. KeyOpsInv /\ StockInv /\ GamivoRestInv /\ [Next]_vars => GamivoRestInv'
  BY NextRests, NoneGetsFaulty DEF GamivoRestInv
<1>3. Orderly
  BY DEF Calls, Reliable, Orderly
<1> QED BY <1>1, <1>2, <1>3, GamivoKeyOps, GamivoStock, PTL DEF Spec

\* A reservation nobody works on agrees with its provisions and its order, when
\* requests about it do not overlap and no write is lost.
THEOREM GamivoRowsAgree ==
  ASSUME Calls
  PROVE  Spec => []SettledRowsAgree
<1>1. GamivoRestInv => SettledRowsAgree
  BY RestingRows DEF GamivoRestInv
<1> QED BY <1>1, GamivoRowsRest, PTL

\* Its order was debited for exactly the keys that were returned, through any
\* sequence of partial refunds, repeated counts and a final refund.
THEOREM GamivoLedgerFollows ==
  ASSUME Calls
  PROVE  Spec => []LedgerFollowsKeys
<1>1. ASSUME KeyOpsInv, GamivoRestInv
      PROVE  LedgerFollowsKeys
  <2> SUFFICES ASSUME NEW r \in Reservations, ~Working(r)
               PROVE  orders[r].refunded = RefundedCount(r)
    BY DEF LedgerFollowsKeys
  <2>1. Rests(r, {})
    BY <1>1, RestingRows DEF GamivoRestInv
  <2>2. /\ resv[r] \in {"none", "pending", "provisioned"} \union Closed
        /\ resv[r] = "none" => KeysWith(r, "refunded") = {}
    BY <1>1 DEF KeyOpsInv, TypeOK, DbTypeOK, ReservationStates, Closed, RowsMatchProvisions,
                KeysWith
  <2>3. CASE resv[r] \in {"none", "pending"}
    BY <2>1, <2>2, <2>3, RowCounts DEF Rests, Unbooked, Final
  <2>4. CASE resv[r] = "provisioned"
    BY <2>1, <2>4 DEF Rests
  <2>5. CASE resv[r] \in Closed
    <3>1. KeysWith(r, "delivered") = {}
      BY <1>1, <2>1, <2>5 DEF Rests, AllFaulty, GamivoRestInv, NoneFaulty, KeysWith
    <3>2. ProvisionedCount(r) = RefundedCount(r)
      BY <3>1, RowCounts
    <3> QED BY <2>1, <2>5, <3>2, RowCounts DEF Rests, Unbooked, Final
  <2> QED BY <2>2, <2>3, <2>4, <2>5
<1> QED BY <1>1, GamivoKeyOps, GamivoRowsRest, PTL

\* A reservation whose buyer holds a key stays replayable: what overlapping
\* orders can break does hold when they follow each other.
THEOREM GamivoReplayable ==
  ASSUME Calls
  PROVE  Spec => []DeliveredIsReplayable
<1>1. ASSUME KeyOpsInv, GamivoRestInv
      PROVE  DeliveredIsReplayable
  <2> SUFFICES ASSUME NEW r \in Reservations, ~Working(r), KeysWith(r, "delivered") # {}
               PROVE  resv[r] = "provisioned"
    BY DEF DeliveredIsReplayable
  <2>1. Rests(r, {})
    BY <1>1, RestingRows DEF GamivoRestInv
  <2>2. /\ resv[r] \in {"none", "pending", "provisioned"} \union Closed
        /\ resv[r] = "none" => KeysWith(r, "delivered") = {}
    BY <1>1 DEF KeyOpsInv, TypeOK, DbTypeOK, ReservationStates, Closed, RowsMatchProvisions,
                KeysWith
  <2>3. resv[r] \notin Closed
    BY <1>1, <2>1 DEF Rests, AllFaulty, GamivoRestInv, NoneFaulty, KeysWith
  <2> QED BY <2>1, <2>2, <2>3 DEF Rests, Final
<1> QED BY <1>1, GamivoKeyOps, GamivoRowsRest, PTL

-------------------------------------------------------------------------------
(* Refunds stay within what Gamivo announced, whatever fails, when requests  *)
(* about one reservation follow each other.                                  *)

\* what is refunded and what is still asked for stay within an announced count
Within(r, asked) == \E count \in RefundCounts[r] : RefundedCount(r) + asked <= count

Announces(l, j) ==
  /\ l = "refund_read" => j.qty \in RefundCounts[j.row]
  /\ l = "ret_read" => j.qty >= 1 /\ Within(j.row, j.qty)
  /\ l \in {"ret_restock", "ret_flip"} => Within(j.row, Cardinality(j.keys))

Refunding == {"refund_read", "ret_read", "ret_restock", "ret_flip"}

AnnouncedInv == Alone /\ RefundedAsAnnounced /\ \A t \in Tasks : Announces(pc[t], job[t])

\* Announced counts are numbers.
LEMMA CountsAre ==
  ASSUME NEW r \in Reservations
  PROVE  /\ RefundedCount(r) \in Nat /\ \A count \in RefundCounts[r] : count \in Nat
BY CountsAreNat, RefundCountsType

\* A step refunds nothing, or stays within the announced count on its own row.
LEMMA StaysAnnounced ==
  ASSUME KeyOpsInv, AnnouncedInv, NEW t \in Tasks, StepOf(t), Alone', NEW r, r = Row(t),
         \A q \in Reservations : \/ RefundedCount(q)' <= RefundedCount(q)
                                 \/ q = r /\ \E count \in RefundCounts[q] : RefundedCount(q)' <= count,
         \A q \in Reservations : RefundedCount(q)' \in Nat,
         NEW l, l = pc'[t], NEW i, i = job'[t], Announces(l, i)'
  PROVE  AnnouncedInv'
<1>1. RefundedAsAnnounced'
  <2> SUFFICES ASSUME NEW q \in Reservations
               PROVE  \/ RefundedCount(q)' = 0
                      \/ \E count \in RefundCounts[q] : RefundedCount(q)' <= count
    BY DEF RefundedAsAnnounced
  <2>1. \/ RefundedCount(q) = 0
        \/ \E count \in RefundCounts[q] : RefundedCount(q) <= count
    BY DEF AnnouncedInv, RefundedAsAnnounced
  <2>2. PICK n \in Nat, m \in Nat : n = RefundedCount(q) /\ m = RefundedCount(q)'
    BY CountsAre
  <2>3. CASE m <= n
    BY <2>1, <2>2, <2>3, CountsAre
  <2> QED BY <2>2, <2>3
<1>2. ASSUME NEW u \in Tasks
      PROVE  Announces(pc[u], job[u])'
  <2>1. CASE u = t
    BY <2>1
  <2>2. CASE u # t
    <3>1. PICK m, j : m = pc[u] /\ j = job[u]
      OBVIOUS
    <3>2. pc'[u] = m /\ job'[u] = j /\ Announces(m, j)
      BY <2>2, <3>1 DEF StepOf, AnnouncedInv
    <3>3. m \in Refunding => j.row \in Reservations /\ j.row # r
      <4>1. m \in Refunding => j.row \in Reservations
        BY <3>1, Mover DEF Relies, Rowless, Refunding
      <4> QED BY <2>2, <3>1, <4>1 DEF AnnouncedInv, Alone, Busy, Row
    <3>4. \A a \in Nat : m \in Refunding /\ Within(j.row, a) => Within(j.row, a)'
      <4> SUFFICES ASSUME NEW a \in Nat, m \in Refunding, Within(j.row, a)
                   PROVE  Within(j.row, a)'
        OBVIOUS
      <4>1. PICK count \in RefundCounts[j.row] : RefundedCount(j.row) + a <= count
        BY DEF Within
      <4>2. PICK x \in Nat, y \in Nat : x = RefundedCount(j.row) /\ y = RefundedCount(j.row)'
        BY <3>3, CountsAre
      <4>3. y <= x /\ count \in Nat
        BY <3>3, <4>2, CountsAre
      <4>4. y + a <= count
        BY <4>1, <4>2, <4>3
      <4> QED BY <4>2, <4>4 DEF Within
    <3>5. j.qty \in Nat /\ Cardinality(j.keys) \in Nat
      BY <3>1, Mover, KeysCount DEF Jobs
    <3>6. Announces(m, j)'
      BY <3>2, <3>4, <3>5 DEF Announces, Refunding
    <3> QED BY <3>2, <3>6
  <2> QED BY <2>1, <2>2
<1> QED BY <1>1, <1>2 DEF AnnouncedInv

\* No provision gets refunded, so no count grows.
LEMMA NotMore ==
  ASSUME \A q \in Reservations, k \in Keys : prov'[q][k] = "refunded" => prov[q][k] = "refunded"
  PROVE  \A q \in Reservations : RefundedCount(q)' <= RefundedCount(q) /\ RefundedCount(q)' \in Nat
<1> SUFFICES ASSUME NEW q \in Reservations
             PROVE  RefundedCount(q)' <= RefundedCount(q) /\ RefundedCount(q)' \in Nat
  OBVIOUS
<1>1. PICK S \in SUBSET Keys, D \in SUBSET Keys :
        S = KeysWith(q, "refunded")' /\ D = KeysWith(q, "refunded")
  BY DEF KeysWith
<1>2. S \in SUBSET D
  BY <1>1 DEF KeysWith
<1>3. Cardinality(S) <= Cardinality(D) /\ Cardinality(S) \in Nat
  BY <1>2, PartCount
<1> QED BY <1>1, <1>3 DEF RefundedCount

\* A step that refunds nothing and asks for nothing.
LEMMA RefundsNothing ==
  ASSUME KeyOpsInv, AnnouncedInv, NEW t \in Tasks, StepOf(t), Alone', pc'[t] \notin Refunding,
         \A q \in Reservations, k \in Keys : prov'[q][k] = "refunded" => prov[q][k] = "refunded"
  PROVE  AnnouncedInv'
<1>1. PICK r, l, i : r = Row(t) /\ l = pc'[t] /\ i = job'[t]
  OBVIOUS
<1>2. Announces(l, i)'
  BY <1>1 DEF Announces, Refunding
<1> QED BY <1>1, <1>2, NotMore, StaysAnnounced

\* A count that is announced, or what it adds, is asked for.
LEMMA AsksWithin ==
  ASSUME KeyOpsInv, AnnouncedInv, NEW t \in Tasks, UNCHANGED prov, NEW l, NEW j,
         Continue(t, l, j), l # "idle", Alone', Announces(l, j)
  PROVE  AnnouncedInv'
<1>1. StepOf(t) /\ pc'[t] = l /\ job'[t] = j
  BY DEF Continue, StepOf, KeyOpsInv, TypeOK
<1>2. \A q \in Reservations, k \in Keys : prov'[q][k] = "refunded" => prov[q][k] = "refunded"
  OBVIOUS
<1>3. \A q, n : Within(q, n) => Within(q, n)'
  BY DEF Within, RefundedCount, KeysWith
<1>4. Announces(l, j)'
  BY <1>3 DEF Announces
<1>5. PICK r : r = Row(t)
  OBVIOUS
<1> QED BY <1>1, <1>2, <1>4, <1>5, NotMore, StaysAnnounced

\* Provisions are left as they are, or become pending, delivered or failed.
LEMMA OtherStatus ==
  ASSUME KeyOpsInv, NEW r \in Reservations, NEW S, NEW s, s # "refunded", SetProvisions(r, S, s)
  PROVE  \A q \in Reservations, k \in Keys : prov'[q][k] = "refunded" => prov[q][k] = "refunded"
BY DEF SetProvisions, KeyOpsInv, TypeOK, DbTypeOK

\* Only a refund takes back keys.
LEMMA OtherStepsAnnounced ==
  ASSUME KeyOpsInv, AnnouncedInv, NEW t \in Tasks, NEW l \in {"idle", "cron_next"},
         \/ ClaimSteps(t) \/ OrderSteps(t) \/ Release(t, l) \/ ReleaseStatus(t, l) \/ Crash(t)
         \/ ReturnTotals(t) \/ LedgerRead(t) \/ LedgerInsert(t) \/ LedgerStatus(t) \/ ReturnFinal(t)
  PROVE  AnnouncedInv'
<1>1. TypeOK /\ Alone
  BY DEF KeyOpsInv, AnnouncedInv
<1>2. KeepsRows(t)
  BY <1>1, KeyStepsStay DEF ClaimSteps, OrderSteps, ReturnSteps
<1>3. StepOf(t) /\ Alone'
  BY <1>1, <1>2, StaysAlone DEF KeepsRows
<1>4. \E m : /\ pc'[t] = m
             /\ m \in {"idle", "cron_next", "claim", "jit", "claim_retry", "prov_finalize",
                       "prov_decrypt", "release", "sale_check", "sale_insert", "sale_credit",
                       "sale_link", "reply", "release_status", "ledger_read", "ledger_insert",
                       "ledger_status", "ret_final"}
  <2>1. ASSUME NEW m, NEW j, Continue(t, m, j)
        PROVE  pc'[t] = m
    BY <1>1, <2>1 DEF Continue, TypeOK
  <2>2. ASSUME NEW m, Goto(t, m)
        PROVE  pc'[t] = m
    BY <2>1, <2>2 DEF Goto
  <2>3. CASE ClaimSteps(t)
    BY <2>1, <2>2, <2>3 DEF ClaimSteps, ClaimKeys, JitPurchase, ClaimRetry, ClaimFrom
  <2>4. CASE OrderSteps(t)
    BY <2>1, <2>2, <2>4 DEF OrderSteps, ProvisionRead, ProvisionFinalize, ProvisionDecrypt,
       SaleSteps, SaleCheck, SaleInsert, SaleCredit, SaleLink, Replay, Reply
  <2>5. CASE Release(t, l) \/ ReleaseStatus(t, l) \/ Crash(t)
    BY <2>2, <2>5 DEF Release, ReleaseStatus, Crash
  <2>6. CASE ReturnTotals(t) \/ LedgerRead(t) \/ LedgerInsert(t) \/ LedgerStatus(t) \/ ReturnFinal(t)
    BY <2>1, <2>2, <2>6 DEF ReturnTotals, LedgerRead, LedgerInsert, LedgerStatus, ReturnFinal
  <2> QED BY <2>3, <2>4, <2>5, <2>6
<1>5. pc'[t] \notin Refunding
  BY <1>4 DEF Refunding
<1>6. \/ UNCHANGED prov
      \/ pc[t] \notin Rowless /\ \E S, s : s # "refunded" /\ SetProvisions(Row(t), S, s)
  <2>1. CASE ClaimSteps(t)
    BY <2>1 DEF ClaimSteps, ClaimKeys, JitPurchase, ClaimRetry, ClaimFrom, ClaimAndReserve,
       dbVars, rowVars, Rowless
  <2>2. CASE OrderSteps(t)
    BY <2>2 DEF OrderSteps, ProvisionRead, ProvisionFinalize, ProvisionDecrypt, FinalizeProvisions,
       SaleSteps, SaleCheck, SaleInsert, SaleCredit, SaleLink, SetOrder, Replay, Reply, dbVars,
       rowVars, Rowless
  <2>3. CASE Release(t, l) \/ ReleaseStatus(t, l) \/ Crash(t)
    BY <2>3 DEF Release, ReleaseReserved, ReleaseStatus, Crash, dbVars, Rowless
  <2>4. CASE ReturnTotals(t) \/ LedgerRead(t) \/ LedgerInsert(t) \/ LedgerStatus(t) \/ ReturnFinal(t)
    BY <2>4 DEF ReturnTotals, LedgerRead, LedgerInsert, LedgerStatus, ReturnFinal, SetOrder,
       dbVars, rowVars
  <2> QED BY <2>1, <2>2, <2>3, <2>4
<1>7. \A q \in Reservations, k \in Keys : prov'[q][k] = "refunded" => prov[q][k] = "refunded"
  <2>1. CASE UNCHANGED prov
    BY <2>1
  <2>2. CASE pc[t] \notin Rowless /\ \E S, s : s # "refunded" /\ SetProvisions(Row(t), S, s)
    <3>1. PICK r \in Reservations : r = Row(t)
      BY <2>2, Mover DEF Relies, Row
    <3> QED BY <2>2, <3>1, OtherStatus
  <2> QED BY <1>6, <2>1, <2>2
<1> QED BY <1>3, <1>5, <1>7, RefundsNothing

\* The keys returned are no more than asked for.
LEMMA ReturnReadAnnounced ==
  ASSUME KeyOpsInv, AnnouncedInv, NEW t \in Tasks, ReturnRead(t)
  PROVE  AnnouncedInv'
<1>1. pc[t] = "ret_read" /\ UNCHANGED prov /\ job[t] \in Jobs /\ Alone
  BY Mover DEF ReturnRead, dbVars, AnnouncedInv
<1>2. PICK r \in Reservations : r = Row(t) /\ r = job[t].row
  BY <1>1, Mover DEF Relies, Rowless, Row
<1>3. job[t].qty \in Nat /\ job[t].qty >= 1 /\ Within(r, job[t].qty)
  BY <1>1, <1>2 DEF AnnouncedInv, Announces, Jobs
<1>4. PICK d \in Nat : d = Cardinality(KeysWith(r, "delivered"))
  BY KeysCount DEF KeysWith
<1>5. PICK S \in SUBSET KeysWith(r, "delivered") :
        /\ Cardinality(S) = MinOf(job[t].qty, d)
        /\ Continue(t, IF S = {} THEN "ret_totals" ELSE "ret_restock", [job[t] EXCEPT !.keys = S])
  <2>1. job[t].qty # 0
    BY <1>3
  <2> QED BY <1>2, <1>4, <2>1 DEF ReturnRead
<1>6. PICK j : j = [job[t] EXCEPT !.keys = S]
  OBVIOUS
<1>7. j.row = r /\ j.keys = S
  BY <1>1, <1>2, <1>6 DEF Jobs
<1>8. Cardinality(S) <= job[t].qty /\ Cardinality(S) \in Nat
  BY <1>3, <1>4, <1>5 DEF MinOf
<1>9. Within(r, Cardinality(S))
  <2>1. PICK count \in RefundCounts[r] : RefundedCount(r) + job[t].qty <= count
    BY <1>3 DEF Within
  <2>2. PICK x \in Nat : x = RefundedCount(r)
    BY CountsAre
  <2>3. RefundedCount(r) + Cardinality(S) <= count
    BY <1>3, <1>8, <2>1, <2>2, CountsAre
  <2> QED BY <2>3 DEF Within
<1>10. PICK l \in {"ret_totals", "ret_restock"} : Continue(t, l, j)
  BY <1>5, <1>6
<1>11. Announces(l, j)
  BY <1>7, <1>9 DEF Announces
<1>12. Alone'
  <2>1. ReturnSteps(t) /\ TypeOK
    BY DEF ReturnSteps, KeyOpsInv
  <2> QED BY <1>1, <2>1, KeyStepsStay, StaysAlone
<1> QED BY <1>1, <1>10, <1>11, <1>12, AsksWithin

\* Restocking refunds nothing yet.
LEMMA ReturnRestockAnnounced ==
  ASSUME KeyOpsInv, AnnouncedInv, NEW t \in Tasks, ReturnRestock(t)
  PROVE  AnnouncedInv'
<1>1. pc[t] = "ret_restock" /\ UNCHANGED prov /\ job[t] \in Jobs /\ Alone
  BY Mover DEF ReturnRestock, RestockKeys, AnnouncedInv
<1>2. PICK S : Continue(t, IF S = {} THEN "ret_totals" ELSE "ret_flip",
                        [job[t] EXCEPT !.count = Cardinality(S)])
  BY DEF ReturnRestock
<1>3. PICK j : j = [job[t] EXCEPT !.count = Cardinality(S)]
  OBVIOUS
<1>7. PICK l \in {"ret_totals", "ret_flip"} : Continue(t, l, j)
  BY <1>2, <1>3
<1>4. j.row = job[t].row /\ j.keys = job[t].keys
  BY <1>1, <1>3 DEF Jobs
<1>5. Announces(l, j)
  BY <1>1, <1>4 DEF AnnouncedInv, Announces
<1>6. Alone'
  <2>1. ReturnSteps(t) /\ TypeOK
    BY DEF ReturnSteps, KeyOpsInv
  <2> QED BY <1>1, <2>1, KeyStepsStay, StaysAlone
<1> QED BY <1>1, <1>5, <1>6, <1>7, AsksWithin

\* Each key that is flipped was asked for.
LEMMA ReturnFlipAnnounced ==
  ASSUME KeyOpsInv, AnnouncedInv, NEW t \in Tasks, ReturnFlip(t)
  PROVE  AnnouncedInv'
<1>1. pc[t] = "ret_flip" /\ job[t] \in Jobs /\ Alone
  BY Mover DEF ReturnFlip, AnnouncedInv
<1>2. PICK r \in Reservations : r = Row(t) /\ r = job[t].row
  BY <1>1, Mover DEF Relies, Rowless, Row
<1>3. PICK T \in SUBSET Keys : T = job[t].keys
  BY <1>1 DEF Jobs
<1>4. PICK k \in T :
       /\ \/ SetProvisions(r, {k} \intersect KeysWith(r, "delivered"), "refunded")
          \/ UNCHANGED prov
       /\ Continue(t, IF T = {k} THEN "ret_totals" ELSE "ret_flip", [job[t] EXCEPT !.keys = @ \ {k}])
  BY <1>2, <1>3 DEF ReturnFlip
<1>5. PICK j : j = [job[t] EXCEPT !.keys = @ \ {k}]
  OBVIOUS
<1>6. j.row = r /\ j.keys = T \ {k}
  BY <1>1, <1>2, <1>3, <1>5 DEF Jobs
<1>7. PICK D \in SUBSET Keys, E \in SUBSET Keys :
        D = KeysWith(r, "refunded") /\ E = KeysWith(r, "refunded")'
  BY DEF KeysWith
<1>8. E \subseteq D \union {k}
  BY <1>4, <1>7 DEF SetProvisions, KeysWith, KeyOpsInv, TypeOK, DbTypeOK
<1>9. /\ Cardinality(E) \in Nat /\ Cardinality(D) \in Nat
      /\ Cardinality(E) <= Cardinality(D) + 1
      /\ Cardinality(T) \in Nat /\ Cardinality(T \ {k}) = Cardinality(T) - 1
  <2>1. IsFiniteSet(D) /\ IsFiniteSet(T) /\ IsFiniteSet(E) /\ IsFiniteSet(D \union {k})
    BY KeysFinite, FS_Subset, FS_AddElement
  <2>2. /\ Cardinality(E) \in Nat /\ Cardinality(D) \in Nat /\ Cardinality(T) \in Nat
        /\ Cardinality(E) <= Cardinality(D \union {k})
    BY <1>8, <2>1, FS_CardinalityType, FS_Subset
  <2>3. Cardinality(D \union {k}) <= Cardinality(D) + 1
    BY <2>1, <2>2, FS_AddElement
  <2>4. Cardinality(T \ {k}) = Cardinality(T) - 1
    BY <2>1, FS_RemoveElement
  <2>5. Cardinality(D \union {k}) \in Nat
    BY <2>1, FS_CardinalityType
  <2> QED BY <2>2, <2>3, <2>4, <2>5
<1>10. RefundedCount(r) = Cardinality(D) /\ RefundedCount(r)' = Cardinality(E)
  BY <1>7 DEF RefundedCount
<1>11. PICK count \in RefundCounts[r] : Cardinality(D) + Cardinality(T) <= count
  BY <1>1, <1>2, <1>3, <1>10 DEF AnnouncedInv, Announces, Within
<1>12. count \in Nat /\ Cardinality(E) <= count /\ Cardinality(E) + Cardinality(T \ {k}) <= count
  <2>1. count \in Nat
    BY CountsAre
  <2>2. Cardinality(T) >= 1
    <3>1. Cardinality(T \ {k}) \in Nat
      BY <1>3, KeysCount
    <3> QED BY <1>9, <3>1
  <2> QED BY <1>9, <1>11, <2>1, <2>2
<1>13. /\ \A q \in Reservations : q # r => RefundedCount(q)' <= RefundedCount(q)
       /\ \A q \in Reservations : RefundedCount(q)' \in Nat
  <2>1. \A q \in Reservations : q # r => prov'[q] = prov[q]
    BY <1>4 DEF SetProvisions, KeyOpsInv, TypeOK, DbTypeOK
  <2>2. \A q \in Reservations : q # r => RefundedCount(q)' = RefundedCount(q)
    BY <2>1 DEF RefundedCount, KeysWith
  <2>3. \A q \in Reservations : RefundedCount(q) \in Nat
    BY CountsAre
  <2>4. RefundedCount(r)' \in Nat
    BY <1>9, <1>10
  <2>5. ASSUME NEW q \in Reservations
        PROVE  (q # r => RefundedCount(q)' <= RefundedCount(q)) /\ RefundedCount(q)' \in Nat
    <3>1. PICK x \in Nat : x = RefundedCount(q)
      BY <2>3
    <3> QED BY <2>2, <2>4, <3>1
  <2> QED BY <2>5
<1>14. PICK l \in {"ret_totals", "ret_flip"} : Continue(t, l, j)
  BY <1>4, <1>5
<1>15. StepOf(t) /\ pc'[t] = l /\ job'[t] = j
  BY <1>14 DEF Continue, StepOf, KeyOpsInv, TypeOK
<1>16. Announces(l, j)'
  BY <1>6, <1>10, <1>12 DEF Announces, Within
<1>17. Alone'
  <2>1. ReturnSteps(t) /\ TypeOK
    BY DEF ReturnSteps, KeyOpsInv
  <2> QED BY <1>1, <2>1, KeyStepsStay, StaysAlone
<1> QED BY <1>2, <1>10, <1>12, <1>13, <1>15, <1>16, <1>17, StaysAnnounced

\* What the count adds is within the count.
LEMMA RefundReadAnnounced ==
  ASSUME KeyOpsInv, AnnouncedInv, NEW t \in Tasks, RefundRead(t)
  PROVE  AnnouncedInv'
<1>1. pc[t] = "refund_read" /\ UNCHANGED prov /\ job[t] \in Jobs /\ Alone
  BY Mover DEF RefundRead, dbVars, AnnouncedInv
<1>2. PICK r \in Reservations : r = Row(t) /\ r = job[t].row
  BY <1>1, Mover DEF Relies, Rowless, Row
<1>3. CASE Goto(t, "idle")
  <2>1. StepOf(t) /\ pc'[t] = "idle" /\ job'[t] = NoJob
    BY <1>3 DEF Goto, Continue, StepOf, KeyOpsInv, TypeOK
  <2>2. Alone'
    BY <1>1, <2>1, StaysAlone DEF KeepsRows
  <2> QED BY <1>1, <2>1, <2>2, RefundsNothing DEF Refunding
<1>4. CASE ~Goto(t, "idle")
  <2>1. PICK n \in Nat, p \in Nat, q \in Nat :
          n = RefundedCount(r) /\ p = ProvisionedCount(r) /\ q = job[t].qty
    BY <1>1, CountsAreNat DEF Jobs
  <2>2. PICK m : m = MinOf(q, p)
    OBVIOUS
  <2>3. m \in Nat /\ m <= q /\ m > n
    BY <1>4, <1>2, <2>1, <2>2 DEF RefundRead, MinOf
  <2>4. PICK j : j = [job[t] EXCEPT !.qty = m - n, !.event = m]
    OBVIOUS
  <2>5. Continue(t, "ret_read", j)
    BY <1>4, <1>2, <2>1, <2>2, <2>4 DEF RefundRead
  <2>6. j.row = r /\ j.batch = job[t].batch /\ j.qty = m - n
    BY <1>1, <1>2, <2>4 DEF Jobs
  <2>7. q \in RefundCounts[r]
    BY <1>1, <1>2, <2>1 DEF AnnouncedInv, Announces
  <2>8. n + (m - n) <= q /\ m - n >= 1
    BY <2>3
  <2>9. Announces("ret_read", j)
    BY <2>1, <2>6, <2>7, <2>8 DEF Announces, Within
  <2>10. StepOf(t) /\ job'[t] = j
    BY <2>5 DEF Continue, StepOf, KeyOpsInv, TypeOK
  <2>11. Alone'
    BY <1>1, <1>2, <2>6, <2>10, AloneStays DEF Alone, Busy
  <2> QED BY <1>1, <2>5, <2>9, <2>11, AsksWithin
<1> QED BY <1>3, <1>4

\* A cancellation refunds nothing.
LEMMA RefundCancelAnnounced ==
  ASSUME KeyOpsInv, AnnouncedInv, NEW t \in Tasks, RefundCancel(t)
  PROVE  AnnouncedInv'
<1>1. StepOf(t) /\ pc'[t] = "idle" /\ job'[t] = NoJob /\ UNCHANGED prov /\ Alone
  BY DEF RefundCancel, Goto, Continue, StepOf, KeyOpsInv, TypeOK, AnnouncedInv
<1>2. Alone'
  BY <1>1, StaysAlone DEF KeepsRows
<1> QED BY <1>1, <1>2, RefundsNothing DEF Refunding

\* A request announces a count, or asks for nothing.
LEMMA RequestAnnounced ==
  ASSUME ~Overlap, KeyOpsInv, AnnouncedInv, NEW t \in Tasks, Request(t)
  PROVE  AnnouncedInv'
<1>1. PICK r \in Reservations : Reserve(t, r) \/ Order(t, r) \/ GetKeys(t, r) \/ Refund(t, r)
  BY DEF Request
<1>2. PICK l, j : /\ Begin(t, r, l, j) /\ l # "idle"
                  /\ \/ l \notin Refunding
                     \/ l = "refund_read" /\ \E count \in RefundCounts[r] : j = [NoJob EXCEPT !.qty = count]
                  /\ \E q, s : j \in {[NoJob EXCEPT !.qty = q], [NoJob EXCEPT !.target = s], NoJob}
  BY <1>1 DEF Reserve, Order, GetKeys, Refund, Refunding
<1>3. PICK i : i = [j EXCEPT !.row = r]
  OBVIOUS
<1>4. i.row = r /\ i.batch = {} /\ (l = "refund_read" => i.qty \in RefundCounts[r])
  <2>1. j.batch = {} /\ (l = "refund_read" => j.qty \in RefundCounts[r])
    BY <1>2 DEF NoJob, Refunding
  <2>2. i.row = r /\ i.batch = j.batch /\ i.qty = j.qty
    BY <1>2, <1>3 DEF NoJob
  <2> QED BY <2>1, <2>2
<1>5. Continue(t, l, i) /\ UNCHANGED prov /\ \A u \in Tasks : ~Busy(u, r)
  BY <1>2, <1>3 DEF Begin, Start, dbVars, MayStart, Working, Busy
<1>6. Announces(l, i)
  BY <1>2, <1>4 DEF Announces, Refunding
<1>7. StepOf(t) /\ job'[t] = i
  BY <1>2, <1>5 DEF Continue, StepOf, KeyOpsInv, TypeOK
<1>8. Alone'
  BY <1>4, <1>5, <1>7, AloneStays DEF AnnouncedInv
<1> QED BY <1>2, <1>5, <1>6, <1>8, AsksWithin

\* The sweep asks for nothing.
LEMMA SweepAnnounced ==
  ASSUME ~Overlap, KeyOpsInv, AnnouncedInv, CronStart \/ SweepNext \/ SweepRelease
  PROVE  AnnouncedInv'
<1>1. Cron \in Tasks /\ Alone /\ job[Cron] \in Jobs
  BY TasksAre DEF AnnouncedInv, KeyOpsInv, TypeOK
<1>2. CASE CronStart
  <2>1. PICK batch \in SUBSET {r \in Reservations : MayStart(r)} :
          Start(Cron, "cron_next", [NoJob EXCEPT !.batch = batch])
    BY <1>2 DEF CronStart, SweepStart
  <2>2. PICK j : j = [NoJob EXCEPT !.batch = batch]
    OBVIOUS
  <2>3. j.batch = batch /\ j.row = NoRow
    BY <2>2 DEF NoJob
  <2>4. StepOf(Cron) /\ pc'[Cron] = "cron_next" /\ job'[Cron] = j /\ UNCHANGED prov
    BY <1>1, <1>2, <2>1, <2>2 DEF CronStart, SweepStart, Start, Continue, StepOf, KeyOpsInv, TypeOK, dbVars
  <2>5. Alone'
    BY <1>1, <2>1, <2>3, <2>4, NoRowIsNoRow, AloneStays DEF MayStart, Working, Busy
  <2> QED BY <1>1, <2>4, <2>5, RefundsNothing DEF Refunding
<1>3. CASE SweepNext
  <2>1. StepOf(Cron) /\ UNCHANGED prov
    BY <1>3 DEF SweepNext, Goto, Continue, StepOf, KeyOpsInv, TypeOK, dbVars
  <2>2. CASE Goto(Cron, "idle")
    <3>1. pc'[Cron] = "idle" /\ job'[Cron] = NoJob
      BY <1>1, <2>2 DEF Goto, Continue, KeyOpsInv, TypeOK
    <3>2. Alone'
      BY <1>1, <2>1, <3>1, AloneStays, NothingLeft DEF Alone, Busy
    <3> QED BY <1>1, <2>1, <3>1, <3>2, RefundsNothing DEF Refunding
  <2>3. CASE ~Goto(Cron, "idle")
    <3>1. PICK r \in job[Cron].batch :
            Continue(Cron, "release", [NoJob EXCEPT !.row = r, !.target = "expired",
                                                    !.batch = job[Cron].batch \ {r}])
      BY <1>3, <2>3 DEF SweepNext
    <3>2. PICK j : j = [NoJob EXCEPT !.row = r, !.target = "expired",
                                     !.batch = job[Cron].batch \ {r}]
      OBVIOUS
    <3>3. j.row \in job[Cron].batch /\ j.batch \subseteq job[Cron].batch
      BY <3>2 DEF NoJob
    <3>4. pc'[Cron] = "release" /\ job'[Cron] = j
      BY <1>1, <3>1, <3>2 DEF Continue, KeyOpsInv, TypeOK
    <3>5. Alone'
      BY <1>1, <2>1, <3>3, <3>4, AloneStays DEF Alone, Busy
    <3> QED BY <1>1, <2>1, <3>4, <3>5, RefundsNothing DEF Refunding
  <2> QED BY <2>2, <2>3
<1>4. CASE SweepRelease
  BY <1>1, <1>4, OtherStepsAnnounced DEF SweepRelease
<1> QED BY <1>2, <1>3, <1>4

\* Every step stays within the announced counts.
LEMMA NextAnnounced ==
  ASSUME ~Overlap, KeyOpsInv, AnnouncedInv, [Next]_vars
  PROVE  AnnouncedInv'
<1>1. ASSUME NEW t \in Workers, Request(t)
      PROVE  AnnouncedInv'
  BY <1>1, TasksAre, RequestAnnounced
<1>2. ASSUME NEW t \in Workers, WorkerStep(t)
      PROVE  AnnouncedInv'
  BY <1>2, TasksAre, OtherStepsAnnounced, RefundReadAnnounced, RefundCancelAnnounced,
     ReturnReadAnnounced, ReturnRestockAnnounced, ReturnFlipAnnounced
     DEF WorkerStep, RefundSteps, ReturnSteps
<1>3. CASE CronStart \/ SweepNext \/ SweepRelease
  BY <1>3, SweepAnnounced
<1>4. CASE \E t \in Tasks : Crash(t)
  BY <1>4, OtherStepsAnnounced
<1>5. CASE UNCHANGED vars
  BY <1>5 DEF vars, AnnouncedInv, Alone, Busy, Row, RefundedAsAnnounced, RefundedCount, KeysWith,
     Announces, Within
<1> QED BY <1>1, <1>2, <1>3, <1>4, <1>5 DEF Next

\* However often and in whatever order the cumulative counts are announced, and
\* whatever fails, no more keys are taken back than the largest of them says.
THEOREM GamivoRefundedAsAnnounced ==
  ASSUME ~Overlap
  PROVE  Spec => []RefundedAsAnnounced
<1>1. ASSUME Init
      PROVE  AnnouncedInv
  <2>1. \A t \in Tasks : pc[t] = "idle" /\ job[t] = NoJob
    BY <1>1 DEF Init
  <2>2. Alone
    BY <2>1, NothingLeft DEF Alone, Busy, Row
  <2>3. \A r \in Reservations : RefundedCount(r) = 0
    <3>1. \A r \in Reservations : KeysWith(r, "refunded") = {}
      BY <1>1 DEF Init, DbInit, KeysWith
    <3> QED BY <3>1, FS_EmptySet DEF RefundedCount
  <2> QED BY <2>1, <2>2, <2>3 DEF AnnouncedInv, RefundedAsAnnounced, Announces
<1>2. KeyOpsInv /\ AnnouncedInv /\ [Next]_vars => AnnouncedInv'
  BY NextAnnounced
<1>3. AnnouncedInv => RefundedAsAnnounced
  BY DEF AnnouncedInv
<1> QED BY <1>1, <1>2, <1>3, GamivoKeyOps, PTL DEF Spec
===============================================================================
