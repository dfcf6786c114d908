---------------------- MODULE SellerKeyOperations_proofs ----------------------
(***************************************************************************)
(* KeyOpsInv is preserved by every action of SellerKeyOperations and of    *)
(* the expiry sweep, for any number of keys, reservations and tasks, any   *)
(* overlap of requests and any faults.  The modules of the handlers        *)
(* combine these lemmas into theorems about their specifications.          *)
(***************************************************************************)
EXTENDS ReservationExpiry, FiniteSetTheorems, TLAPS

-------------------------------------------------------------------------------
(* What every step does to the rows in use, and what that means for the      *)
(* tasks that do not take it.                                                *)

Monotone ==
  \A r \in Reservations :
    /\ resv[r] # "none" =>
         /\ resv'[r] # "none"
         /\ \A k \in Keys : /\ prov'[r][k] = "pending" => prov[r][k] = "pending"
                            /\ prov[r][k] \in {"delivered", "refunded"} =>
                                 prov'[r][k] \in {"delivered", "refunded"}
    /\ resv[r] \in Closed => resv'[r] \in Closed

\* only task t moves
StepOf(t) == \A u \in Tasks : u # t => pc'[u] = pc[u] /\ job'[u] = job[u]

\* the order of a row another task is selling keeps its sale
SalesKept(t) ==
  \A u \in Tasks : u # t /\ pc[u] \in Selling =>
    /\ orders'[job[u].row].rows = orders[job[u].row].rows
    /\ orders'[job[u].row].credit = orders[job[u].row].credit
    /\ orders'[job[u].row].total = orders[job[u].row].total

\* The number of keys of any set of keys is a natural number.
LEMMA KeysCount ==
  ASSUME NEW S \in SUBSET Keys
  PROVE  Cardinality(S) \in Nat
  BY KeysFinite, FS_Subset, FS_CardinalityType

\* A monotone step leaves alone what the other tasks rely on.
LEMMA OthersRely ==
  ASSUME NEW l \in Labels, NEW j \in Jobs, Relies(l, j), RowsMatchProvisions, Monotone
  PROVE  Relies(l, j)'
<1> USE DEF Monotone, Relies
<1>1. ASSUME NEW r \in Reservations, resv[r] # "none", NEW k \in Keys
      PROVE  /\ k \in KeysWith(r, "pending")' => k \in KeysWith(r, "pending")
             /\ k \in Final(r) => k \in Final(r)'
  BY <1>1 DEF KeysWith, Final
<1>2. l \notin Rowless => j.row \in Reservations
  OBVIOUS
<1>3. l \in {"prov_read", "prov_finalize", "release"} => resv'[j.row] # "none"
  BY <1>2 DEF Rowless
<1>4. l = "prov_finalize" => KeysWith(j.row, "pending")' \subseteq j.keys
  BY <1>1, <1>2 DEF Rowless, KeysWith
<1>5. l \in Selling \union AfterPending => Quiet(j.row)'
  BY <1>1, <1>2 DEF Rowless, Selling, AfterPending, Quiet, KeysWith
<1>6. l \in Answering => j.keys \subseteq Final(j.row)'
  <2> SUFFICES ASSUME l \in Answering, NEW k \in j.keys
               PROVE  k \in Final(j.row)'
    OBVIOUS
  <2>1. j.row \in Reservations /\ k \in Final(j.row)
    BY <1>2 DEF Rowless, Answering, Selling
  <2>2. resv[j.row] # "none"
    BY <2>1 DEF RowsMatchProvisions, Final, KeysWith
  <2> QED
    BY <1>1, <2>1, <2>2 DEF Final, KeysWith
<1>7. \A r \in j.batch : resv'[r] # "none"
  BY DEF Jobs
<1> QED
  BY <1>2, <1>3, <1>4, <1>5, <1>6, <1>7

-------------------------------------------------------------------------------
(* One step of task t keeps the invariant if it keeps the tables consistent, *)
(* is monotone, and leaves t at a label whose assumptions hold.              *)
LEMMA StepKeeps ==
  ASSUME KeyOpsInv, NEW t \in Tasks, StepOf(t), TypeOK', Monotone,
         RowsMatchProvisions', OnePendingPerKey', SalesBounded',
         SalesKept(t),
         Relies(pc[t], job[t])', SaleRelies(pc[t], job[t])',
         pc'[t] \in Selling =>
           \A u \in Tasks : u # t /\ pc[u] \in Selling => job[u].row # job'[t].row
  PROVE  KeyOpsInv'
<1>1. ASSUME NEW u \in Tasks, u # t
      PROVE  Relies(pc[u], job[u])' /\ SaleRelies(pc[u], job[u])'
  <2>1. /\ pc[u] \in Labels /\ job[u] \in Jobs
        /\ Relies(pc[u], job[u]) /\ SaleRelies(pc[u], job[u])
        /\ pc'[u] = pc[u] /\ job'[u] = job[u]
    BY <1>1 DEF KeyOpsInv, TypeOK, StepOf
  <2>2. \A l \in Labels : \A j \in Jobs : Relies(l, j) => Relies(l, j)'
    BY OthersRely DEF KeyOpsInv
  <2>3. Relies(pc[u], job[u])'
    BY <2>1, <2>2 DEF Relies
  <2>4. SaleRelies(pc[u], job[u])'
    BY <1>1, <2>1 DEF SaleRelies, SalesKept, Selling, Unsold
  <2> QED
    BY <2>3, <2>4
<1>2. OneSeller'
  BY DEF OneSeller, KeyOpsInv, StepOf, Row
<1> QED
  BY <1>1, <1>2 DEF KeyOpsInv

\* What the invariant says of the task that moves.
LEMMA Mover ==
  ASSUME KeyOpsInv, NEW t \in Tasks
  PROVE  /\ pc[t] \in Labels /\ job[t] \in Jobs
         /\ Relies(pc[t], job[t]) /\ SaleRelies(pc[t], job[t])
         /\ RowsMatchProvisions
  BY DEF KeyOpsInv, TypeOK

\* Continue moves one task, and keeps labels and locals well typed.
LEMMA ContinueMoves ==
  ASSUME KeyOpsInv, NEW t \in Tasks, NEW l \in Labels, NEW j \in Jobs, Continue(t, l, j)
  PROVE  /\ pc' \in [Tasks -> Labels] /\ job' \in [Tasks -> Jobs]
         /\ StepOf(t)
         /\ pc'[t] = l /\ job'[t] = IF l = "idle" THEN NoJob ELSE j
<1>1. NoJob \in Jobs
  BY DEF Jobs, NoJob, ReservationStates
<1>2. pc \in [Tasks -> Labels] /\ job \in [Tasks -> Jobs]
  BY DEF KeyOpsInv, TypeOK
<1> QED
  BY <1>1, <1>2 DEF Continue, StepOf

-------------------------------------------------------------------------------
(* Steps that leave provisions, reservations and orders alone.               *)

\* A task that goes on to a label whose assumptions hold keeps the invariant,
\* whatever it does to keys.
LEMMA KeysKeep ==
  ASSUME KeyOpsInv, NEW t \in Tasks, NEW l \in Labels, NEW j \in Jobs,
         Continue(t, l, j), DbTypeOK', UNCHANGED <<prov, resv, orders>>,
         l # "idle" => Relies(l, j) /\ SaleRelies(l, j),
         l \in Selling => pc[t] \in Selling /\ j.row = job[t].row
  PROVE  KeyOpsInv' /\ Monotone
<1> DEFINE k == IF l = "idle" THEN NoJob ELSE j
<1>3. TypeOK'
  BY ContinueMoves DEF TypeOK
<1>4. pc'[t] = l /\ job'[t] = k /\ StepOf(t)
  BY ContinueMoves
<1>5. Monotone /\ SalesKept(t)
  BY DEF Monotone, SalesKept
<1>6. /\ RowsMatchProvisions' /\ OnePendingPerKey' /\ SalesBounded'
  BY DEF KeyOpsInv, RowsMatchProvisions, KeysWith, OnePendingPerKey, SalesBounded, Unsold, Quiet
<1>7. Relies(l, k) /\ SaleRelies(l, k)
  BY DEF Relies, SaleRelies, NoJob, Rowless, Selling, AfterPending, Answering
<1>8. Relies(pc[t], job[t])' /\ SaleRelies(pc[t], job[t])'
  BY <1>4, <1>7 DEF Relies, SaleRelies, Unsold, Quiet, Final, KeysWith
<1>9. pc'[t] \in Selling =>
        \A u \in Tasks : u # t /\ pc[u] \in Selling => job[u].row # job'[t].row
  <2> SUFFICES ASSUME l \in Selling, NEW u \in Tasks, u # t, pc[u] \in Selling,
                      job[u].row = job'[t].row
               PROVE  FALSE
    BY <1>4
  <2>1. job'[t].row = job[t].row /\ pc[t] \in Selling
    BY <1>4 DEF Selling
  <2> QED
    BY <2>1 DEF KeyOpsInv, OneSeller, Row
<1> QED
  BY <1>3, <1>4, <1>5, <1>6, <1>8, <1>9, StepKeeps

\* The same for a step that changes no table at all.
LEMMA MoveKeeps ==
  ASSUME KeyOpsInv, NEW t \in Tasks, NEW l \in Labels, NEW j \in Jobs,
         Continue(t, l, j), UNCHANGED dbVars,
         l # "idle" => Relies(l, j) /\ SaleRelies(l, j),
         l \in Selling => pc[t] \in Selling /\ j.row = job[t].row
  PROVE  KeyOpsInv' /\ Monotone
<1>1. DbTypeOK' /\ UNCHANGED <<prov, resv, orders>>
  BY DEF KeyOpsInv, TypeOK, DbTypeOK, dbVars
<1> QED
  BY <1>1, KeysKeep

\* A task that ends keeps the invariant.
LEMMA StopKeeps ==
  ASSUME KeyOpsInv, NEW t \in Tasks, Goto(t, "idle"), UNCHANGED dbVars
  PROVE  KeyOpsInv' /\ Monotone
<1>1. "idle" \in Labels /\ job[t] \in Jobs /\ "idle" \notin Selling
  BY DEF Labels, KeyOpsInv, TypeOK, Selling
<1> QED
  BY <1>1, MoveKeeps DEF Goto

\* A crash loses the locals of a task and nothing else.
LEMMA CrashKeeps ==
  ASSUME KeyOpsInv, NEW t \in Tasks, Crash(t)
  PROVE  KeyOpsInv' /\ Monotone
  BY StopKeeps DEF Crash

\* The answer ends the task.
LEMMA ReplyKeeps ==
  ASSUME KeyOpsInv, NEW t \in Tasks, Reply(t)
  PROVE  KeyOpsInv' /\ Monotone
  BY StopKeeps DEF Reply

\* A replay answers keys whose provision is delivered.
LEMMA ReplayKeeps ==
  ASSUME KeyOpsInv, NEW t \in Tasks, Replay(t)
  PROVE  KeyOpsInv' /\ Monotone
<1>1. CASE Goto(t, "idle")
  BY <1>1, StopKeeps DEF Replay
<1>2. CASE ~Goto(t, "idle")
  <2> DEFINE j == [job[t] EXCEPT !.keys = KeysWith(Row(t), "delivered")]
  <2>1. Continue(t, "reply", j) /\ UNCHANGED dbVars
    BY <1>2 DEF Replay
  <2>2. j \in Jobs /\ "reply" \in Labels
    BY Mover DEF Jobs, Labels, KeysWith
  <2>3. Relies("reply", j) /\ SaleRelies("reply", j)
    BY Mover DEF Relies, SaleRelies, Jobs, Row, Final, Replay, Rowless, Selling, AfterPending
  <2> QED
    BY <2>1, <2>2, <2>3, MoveKeeps DEF Selling
<1> QED
  BY <1>1, <1>2

-------------------------------------------------------------------------------
(* Where a failing provision may go: the end, or the release of the row as   *)
(* the status in target.                                                     *)
MayRaise(t, raised) == raised = "idle" \/ (raised = "release" /\ job[t].target \in Closed)

\* A provision that fails ends, or releases the row and closes it later.
LEMMA RaiseKeeps ==
  ASSUME KeyOpsInv, NEW t \in Tasks, NEW raised, MayRaise(t, raised),
         Goto(t, raised), UNCHANGED dbVars,
         pc[t] \in {"prov_read", "prov_finalize", "prov_decrypt"}
  PROVE  KeyOpsInv' /\ Monotone
<1>1. CASE raised = "idle"
  BY <1>1, StopKeeps
<1>2. CASE raised = "release" /\ job[t].target \in Closed
  <2>1. resv[job[t].row] # "none" /\ job[t].row \in Reservations
    BY Mover DEF Relies, Quiet, Selling, Rowless
  <2>2. Relies("release", job[t]) /\ SaleRelies("release", job[t])
    BY <1>2, <2>1, Mover DEF Relies, SaleRelies, Rowless, Selling, AfterPending, Answering
  <2>3. "release" \in Labels /\ "release" \notin Selling /\ job[t] \in Jobs
    BY Mover DEF Labels, Selling
  <2> QED
    BY <1>2, <2>2, <2>3, MoveKeeps DEF Goto
<1> QED
  BY <1>1, <1>2 DEF MayRaise

\* The read of the pending provisions hands all of them to finalize: rows in
\* use get no new ones.
LEMMA ProvisionReadKeeps ==
  ASSUME KeyOpsInv, NEW t \in Tasks, NEW raised, MayRaise(t, raised), ProvisionRead(t, raised)
  PROVE  KeyOpsInv' /\ Monotone
<1>1. CASE KeysWith(Row(t), "pending") = {}
  BY <1>1, RaiseKeeps DEF ProvisionRead
<1>2. CASE KeysWith(Row(t), "pending") # {}
  <2> DEFINE j == [job[t] EXCEPT !.keys = KeysWith(Row(t), "pending")]
  <2>1. Continue(t, "prov_finalize", j) /\ UNCHANGED dbVars
    BY <1>2 DEF ProvisionRead
  <2>2. j \in Jobs /\ "prov_finalize" \in Labels
    BY Mover DEF Jobs, Labels, KeysWith
  <2>3. Relies("prov_finalize", j) /\ SaleRelies("prov_finalize", j)
    BY Mover DEF Relies, SaleRelies, Jobs, Row, ProvisionRead, Rowless, Selling,
                 AfterPending, Answering
  <2> QED
    BY <2>1, <2>2, <2>3, MoveKeeps DEF Selling
<1> QED
  BY <1>1, <1>2

\* Decrypting changes no table: the keys stay final, whether it works or not.
LEMMA ProvisionDecryptKeeps ==
  ASSUME KeyOpsInv, NEW t \in Tasks, NEW ok \in {"sale_check", "reply"},
         NEW raised, MayRaise(t, raised), ProvisionDecrypt(t, ok, raised)
  PROVE  KeyOpsInv' /\ Monotone
<1>1. CASE Goto(t, raised)
  BY <1>1, RaiseKeeps DEF ProvisionDecrypt
<1>2. CASE Goto(t, ok)
  <2>1. Relies(ok, job[t]) /\ SaleRelies(ok, job[t])
    BY Mover DEF Relies, SaleRelies, ProvisionDecrypt, Rowless, Selling, AfterPending, Answering
  <2>2. ok \in Labels /\ job[t] \in Jobs /\ pc[t] \in Selling
    BY Mover DEF Labels, Selling, ProvisionDecrypt
  <2>3. Continue(t, ok, job[t]) /\ UNCHANGED dbVars
    BY <1>2 DEF Goto, ProvisionDecrypt
  <2> QED
    BY <2>1, <2>2, <2>3, MoveKeeps
<1> QED
  BY <1>1, <1>2 DEF ProvisionDecrypt

-------------------------------------------------------------------------------
(* A step that adds no provision and changes no status but to close a quiet  *)
(* row.                                                                      *)

\* A reservation without pending provisions can be closed.
LEMMA CloseKeeps ==
  ASSUME KeyOpsInv, NEW t \in Tasks, NEW l \in {"idle", "cron_next"},
         NEW r \in Reservations, NEW status \in Closed,
         Quiet(r), SetReservation(r, status), Goto(t, l),
         UNCHANGED <<keyVars, prov, createdAt, orders>>
  PROVE  KeyOpsInv' /\ Monotone
<1> USE DEF keyVars, SetReservation
<1>0. l \in Labels /\ job[t] \in Jobs
  BY Mover DEF Labels
<1>1. resv' = [resv EXCEPT ![r] = status] /\ resv \in [Reservations -> ReservationStates]
  BY DEF KeyOpsInv, TypeOK, DbTypeOK
<1>2. status \in ReservationStates /\ status # "none" /\ status # "pending"
  BY DEF Closed, ReservationStates
<1>3. TypeOK'
  <2>1. DbTypeOK'
    BY <1>1, <1>2 DEF KeyOpsInv, TypeOK, DbTypeOK
  <2>2. pc' \in [Tasks -> Labels] /\ job' \in [Tasks -> Jobs]
    BY <1>0, ContinueMoves DEF Goto
  <2> QED
    BY <2>1, <2>2 DEF TypeOK
<1>4. /\ StepOf(t) /\ pc'[t] = l
      /\ job'[t] = IF l = "idle" THEN NoJob ELSE job[t]
  BY <1>0, ContinueMoves DEF Goto
<1>5. Monotone /\ SalesKept(t)
  BY <1>1, <1>2 DEF Monotone, SalesKept
<1>6. RowsMatchProvisions'
  BY <1>1, <1>2, Mover DEF RowsMatchProvisions, KeysWith, Quiet
<1>7. OnePendingPerKey' /\ SalesBounded'
  BY <1>1, <1>2 DEF KeyOpsInv, OnePendingPerKey, SalesBounded, Unsold, Quiet, KeysWith
<1>8. Relies(pc[t], job[t])' /\ SaleRelies(pc[t], job[t])'
  <2>1. \A q \in job[t].batch : resv'[q] # "none"
    BY <1>1, <1>2, Mover DEF Relies, Jobs
  <2> QED
    BY <1>4, <2>1 DEF Relies, SaleRelies, NoJob, Rowless, Selling, AfterPending, Answering
<1> QED
  BY <1>3, <1>4, <1>5, <1>6, <1>7, <1>8, StepKeeps DEF Selling

\* A task may end or go on with its sweep when it leaves the tables alone.
LEMMA LeaveKeeps ==
  ASSUME KeyOpsInv, NEW t \in Tasks, NEW l \in {"idle", "cron_next"},
         Goto(t, l), UNCHANGED dbVars
  PROVE  KeyOpsInv' /\ Monotone
<1>1. Relies("cron_next", job[t]) /\ SaleRelies("cron_next", job[t])
  BY Mover DEF Relies, SaleRelies, Rowless, Selling, AfterPending, Answering
<1>2. "cron_next" \in Labels /\ "cron_next" \notin Selling /\ job[t] \in Jobs
  BY Mover DEF Labels, Selling
<1> QED
  BY <1>1, <1>2, StopKeeps, MoveKeeps DEF Goto

\* The release has left no pending provision, so the row can be closed.
LEMMA ReleaseStatusKeeps ==
  ASSUME KeyOpsInv, NEW t \in Tasks, NEW done \in {"idle", "cron_next"}, ReleaseStatus(t, done)
  PROVE  KeyOpsInv' /\ Monotone
<1>1. /\ Row(t) \in Reservations /\ Quiet(Row(t)) /\ job[t].target \in Closed
  BY Mover DEF ReleaseStatus, Relies, Row, Rowless, AfterPending
<1>2. CASE SetReservation(Row(t), job[t].target)
  BY <1>1, <1>2, CloseKeeps DEF ReleaseStatus
<1>3. CASE UNCHANGED resv
  BY <1>3, LeaveKeeps DEF ReleaseStatus, dbVars, keyVars
<1> QED
  BY <1>2, <1>3 DEF ReleaseStatus

\* A returned row has no pending provision, so it can be closed.
LEMMA ReturnFinalKeeps ==
  ASSUME KeyOpsInv, NEW t \in Tasks, ReturnFinal(t)
  PROVE  KeyOpsInv' /\ Monotone
<1>1. /\ Row(t) \in Reservations /\ Quiet(Row(t)) /\ "cancelled" \in Closed
  BY Mover DEF ReturnFinal, Relies, Row, Rowless, AfterPending, Closed
<1>2. CASE SetReservation(Row(t), "cancelled")
  BY <1>1, <1>2, CloseKeeps DEF ReturnFinal
<1>3. CASE UNCHANGED resv
  BY <1>3, LeaveKeeps DEF ReturnFinal, dbVars, keyVars
<1> QED
  BY <1>2, <1>3 DEF ReturnFinal

-------------------------------------------------------------------------------
(* The steps of a return that only read or touch keys: the row stays quiet.  *)

\* A return goes on to any of its labels, with any of the row's keys.
LEMMA ReturnGoesOn ==
  ASSUME KeyOpsInv, NEW t \in Tasks, pc[t] \in AfterPending,
         NEW l \in AfterPending \ {"release_status"}, NEW j \in Jobs, Continue(t, l, j),
         j.row = job[t].row, j.batch = job[t].batch,
         DbTypeOK', UNCHANGED <<prov, resv, orders>>
  PROVE  KeyOpsInv' /\ Monotone
<1>1. Relies(l, j) /\ SaleRelies(l, j)
  BY Mover DEF Relies, SaleRelies, Rowless, Selling, AfterPending, Answering
<1>2. l \in Labels /\ l \notin Selling
  BY DEF Labels, Selling, AfterPending
<1> QED
  BY <1>1, <1>2, KeysKeep

\* Choosing the keys to return changes no table.
LEMMA ReturnReadKeeps ==
  ASSUME KeyOpsInv, NEW t \in Tasks, ReturnRead(t)
  PROVE  KeyOpsInv' /\ Monotone
<1>1. DbTypeOK' /\ UNCHANGED <<prov, resv, orders>>
  BY DEF KeyOpsInv, TypeOK, DbTypeOK, dbVars, ReturnRead
<1>2. PICK S \in SUBSET KeysWith(Row(t), "delivered") :
        Continue(t, IF S = {} THEN "ret_totals" ELSE "ret_restock", [job[t] EXCEPT !.keys = S])
  BY DEF ReturnRead
<1> DEFINE j == [job[t] EXCEPT !.keys = S]
<1>3. /\ j \in Jobs /\ j.row = job[t].row /\ j.batch = job[t].batch
  BY Mover DEF Jobs, KeysWith
<1>4. {"ret_read", "ret_totals", "ret_restock"} \subseteq AfterPending \ {"release_status"}
  BY DEF AfterPending
<1> QED
  BY <1>1, <1>2, <1>3, <1>4, ReturnGoesOn DEF ReturnRead

\* The numbers of keys given and taken back.
LEMMA CountsAreNat ==
  ASSUME NEW r
  PROVE  RefundedCount(r) \in Nat /\ ProvisionedCount(r) \in Nat
<1>1. /\ Cardinality(KeysWith(r, "refunded")) \in Nat
      /\ Cardinality(KeysWith(r, "delivered")) \in Nat
  BY KeysCount DEF KeysWith
<1> QED
  BY <1>1 DEF RefundedCount, ProvisionedCount

\* The fraction of a refund is a pair of natural numbers.
LEMMA ReturnTotalsKeeps ==
  ASSUME KeyOpsInv, NEW t \in Tasks, ReturnTotals(t)
  PROVE  KeyOpsInv' /\ Monotone
<1>1. DbTypeOK' /\ UNCHANGED <<prov, resv, orders>>
  BY DEF KeyOpsInv, TypeOK, DbTypeOK, dbVars, ReturnTotals
<1>2. job[t] \in Jobs
  BY Mover
<1>3. /\ RefundedCount(Row(t)) \in Nat /\ ProvisionedCount(Row(t)) \in Nat
      /\ Cardinality(job[t].keys) \in Nat
  BY <1>2, KeysCount, CountsAreNat DEF Jobs
<1> DEFINE refunded == RefundedCount(Row(t))
           provisioned == ProvisionedCount(Row(t))
           asked == Cardinality(job[t].keys)
           effective == IF refunded = 0 /\ job[t].count = 0 THEN asked ELSE refunded
           num == MinOf(effective, provisioned)
           j == [job[t] EXCEPT !.num = num, !.den = provisioned]
<1>4. Continue(t, "ledger_read", j)
  BY DEF ReturnTotals
<1>6. num \in Nat /\ provisioned \in Nat
  BY <1>3 DEF MinOf
<1> HIDE DEF refunded, provisioned, asked, effective, num
<1>5. /\ j \in Jobs /\ j.row = job[t].row /\ j.batch = job[t].batch
  BY <1>2, <1>6 DEF Jobs
<1> QED
  BY <1>1, <1>4, <1>5, ReturnGoesOn DEF ReturnTotals, AfterPending

\* A restock, whole or partial, touches the state of keys only.
LEMMA ReturnRestockKeeps ==
  ASSUME KeyOpsInv, NEW t \in Tasks, ReturnRestock(t)
  PROVE  KeyOpsInv' /\ Monotone
<1>1. PICK S \in SUBSET Restockable(job[t].keys) :
        /\ RestockKeys(S)
        /\ Continue(t, IF S = {} THEN "ret_totals" ELSE "ret_flip",
                    [job[t] EXCEPT !.count = Cardinality(S)])
  BY DEF ReturnRestock
<1>2. job[t] \in Jobs /\ S \in SUBSET Keys
  BY <1>1, Mover DEF Restockable, Jobs
<1> DEFINE j == [job[t] EXCEPT !.count = Cardinality(S)]
<1>3. /\ j \in Jobs /\ j.row = job[t].row /\ j.batch = job[t].batch
  BY <1>2, KeysCount DEF Jobs
<1>4. DbTypeOK' /\ UNCHANGED <<prov, resv, orders>>
  BY <1>1 DEF KeyOpsInv, TypeOK, DbTypeOK, RestockKeys, SetKeys, KeyStates
<1>5. {"ret_restock", "ret_totals", "ret_flip"} \subseteq AfterPending \ {"release_status"}
  BY DEF AfterPending
<1> QED
  BY <1>1, <1>3, <1>4, <1>5, ReturnGoesOn DEF ReturnRestock

\* The debit to write is a natural number.
LEMMA LedgerReadKeeps ==
  ASSUME KeyOpsInv, NEW t \in Tasks, LedgerRead(t)
  PROVE  KeyOpsInv' /\ Monotone
<1>1. DbTypeOK' /\ UNCHANGED <<prov, resv, orders>>
  BY DEF KeyOpsInv, TypeOK, DbTypeOK, dbVars, LedgerRead
<1>2. job[t] \in Jobs /\ Row(t) \in Reservations
  BY Mover DEF LedgerRead, Relies, Row, Rowless
<1>3. orders[Row(t)] \in OrderRows
  BY <1>2 DEF KeyOpsInv, TypeOK, DbTypeOK
<1>4. RefundTarget(t) \in Nat /\ orders[Row(t)].refunded \in Nat
  BY <1>2, <1>3 DEF RefundTarget, OrderRows, Jobs
<1>5. PICK refunded \in {orders[Row(t)].refunded} \union (IF CanFail("refunds") THEN {0} ELSE {}) :
        LET order == orders[Row(t)]
            delta == IF RefundTarget(t) > refunded THEN RefundTarget(t) - refunded ELSE 0
        IN Continue(t, IF order.status \in {"none", "refunded"} THEN "ret_final"
                       ELSE IF delta = 0 THEN "ledger_status" ELSE "ledger_insert",
                    [job[t] EXCEPT !.delta = delta])
  BY DEF LedgerRead
<1> DEFINE delta == IF RefundTarget(t) > refunded THEN RefundTarget(t) - refunded ELSE 0
           j == [job[t] EXCEPT !.delta = delta]
<1>6. delta \in Nat
  BY <1>4
<1>7. PICK l \in {"ret_final", "ledger_status", "ledger_insert"} : Continue(t, l, j)
  BY <1>5
<1> HIDE DEF delta
<1>8. /\ j \in Jobs /\ j.row = job[t].row /\ j.batch = job[t].batch
  BY <1>2, <1>6 DEF Jobs
<1>9. /\ l \in AfterPending \ {"release_status"}
      /\ pc[t] \in AfterPending
  BY DEF AfterPending, LedgerRead
<1> QED
  BY <1>1, <1>7, <1>8, <1>9, ReturnGoesOn

-------------------------------------------------------------------------------
(* The steps that write an order after its sale was recorded.                *)

\* An update of an order that keeps its sale.
LEMMA LedgerKeeps ==
  ASSUME KeyOpsInv, NEW t \in Tasks, NEW r \in Reservations, NEW o \in OrderRows,
         SetOrder(r, o),
         o.rows = orders[r].rows, o.credit = orders[r].credit, o.total = orders[r].total,
         NEW l \in Labels \ Selling, NEW j \in Jobs, Continue(t, l, j),
         l # "idle" => Relies(l, j)
  PROVE  KeyOpsInv' /\ Monotone
<1>0. /\ orders \in [Reservations -> OrderRows]
      /\ orders' = [orders EXCEPT ![r] = o] /\ UNCHANGED <<keyState, keyOrder, prov, resv, createdAt>>
  BY DEF KeyOpsInv, TypeOK, DbTypeOK, SetOrder, keyVars, rowVars
<1>1. \A q \in Reservations : /\ orders'[q].rows = orders[q].rows
                              /\ orders'[q].credit = orders[q].credit
                              /\ orders'[q].total = orders[q].total
  BY <1>0
<1>2. /\ StepOf(t) /\ pc'[t] = l /\ job'[t] = IF l = "idle" THEN NoJob ELSE j
      /\ pc' \in [Tasks -> Labels] /\ job' \in [Tasks -> Jobs]
  BY ContinueMoves
<1>3. TypeOK'
  BY <1>0, <1>2 DEF KeyOpsInv, TypeOK, DbTypeOK
<1>4. Monotone
  BY <1>0 DEF Monotone
<1>5. SalesKept(t)
  <2>1. \A u \in Tasks : pc[u] \in Selling => job[u].row \in Reservations
    BY Mover DEF Relies, Rowless, Selling
  <2> QED
    BY <1>1, <2>1 DEF SalesKept
<1>6. RowsMatchProvisions' /\ OnePendingPerKey' /\ SalesBounded'
  BY <1>0, <1>1 DEF KeyOpsInv, RowsMatchProvisions, OnePendingPerKey, SalesBounded, Unsold,
                    Quiet, KeysWith
<1>7. Relies(l, IF l = "idle" THEN NoJob ELSE j)
  BY DEF Relies, NoJob, Rowless, Selling, AfterPending, Answering
<1>8. Relies(pc[t], job[t])' /\ SaleRelies(pc[t], job[t])'
  BY <1>0, <1>2, <1>7 DEF Relies, SaleRelies, Selling, Quiet, KeysWith, Final
<1> QED
  BY <1>2, <1>3, <1>4, <1>5, <1>6, <1>8, StepKeeps

\* A refund debit leaves the sale it belongs to alone.
LEMMA LedgerInsertKeeps ==
  ASSUME KeyOpsInv, NEW t \in Tasks, LedgerInsert(t)
  PROVE  KeyOpsInv' /\ Monotone
<1>1. /\ job[t] \in Jobs /\ Row(t) \in Reservations /\ Relies("ledger_status", job[t])
      /\ pc[t] \in AfterPending
  BY Mover DEF LedgerInsert, Relies, Row, Rowless, Selling, AfterPending, Answering
<1>2. orders[Row(t)] \in OrderRows /\ Continue(t, "ledger_status", job[t])
  BY <1>1 DEF KeyOpsInv, TypeOK, DbTypeOK, LedgerInsert, Goto
<1>3. "ledger_status" \in Labels \ Selling /\ "ledger_status" \in AfterPending \ {"release_status"}
  BY DEF Labels, Selling, AfterPending
<1>4. CASE UNCHANGED dbVars
  <2>1. DbTypeOK' /\ UNCHANGED <<prov, resv, orders>>
    BY <1>4 DEF KeyOpsInv, TypeOK, DbTypeOK, dbVars
  <2> QED
    BY <2>1, <1>1, <1>2, <1>3, ReturnGoesOn
<1>5. CASE SetOrder(Row(t), [orders[Row(t)] EXCEPT
               !.refunded = @ + job[t].delta,
               !.events = IF job[t].event = 0 THEN @ ELSE @ \union {job[t].event}])
  <2> DEFINE o == [orders[Row(t)] EXCEPT
               !.refunded = @ + job[t].delta,
               !.events = IF job[t].event = 0 THEN @ ELSE @ \union {job[t].event}]
  <2>1. o \in OrderRows
    <3>1. /\ orders[Row(t)].refunded + job[t].delta \in Nat
          /\ orders[Row(t)].events \union {job[t].event} \in SUBSET Nat
      BY <1>1, <1>2 DEF OrderRows, Jobs
    <3> QED
      BY <1>2, <3>1 DEF OrderRows
  <2>2. /\ o.rows = orders[Row(t)].rows /\ o.credit = orders[Row(t)].credit
        /\ o.total = orders[Row(t)].total
    BY <1>2 DEF OrderRows
  <2>3. SetOrder(Row(t), o)
    BY <1>5
  <2> HIDE DEF o
  <2> QED
    BY <1>1, <1>2, <1>3, <2>1, <2>2, <2>3, LedgerKeeps
<1> QED
  BY <1>4, <1>5 DEF LedgerInsert

\* The status of a refunded order leaves its sale alone.
LEMMA LedgerStatusKeeps ==
  ASSUME KeyOpsInv, NEW t \in Tasks, LedgerStatus(t)
  PROVE  KeyOpsInv' /\ Monotone
<1>1. /\ job[t] \in Jobs /\ Row(t) \in Reservations /\ Relies("ret_final", job[t])
      /\ pc[t] \in AfterPending
  BY Mover DEF LedgerStatus, Relies, Row, Rowless, Selling, AfterPending, Answering
<1>2. orders[Row(t)] \in OrderRows /\ Continue(t, "ret_final", job[t])
  BY <1>1 DEF KeyOpsInv, TypeOK, DbTypeOK, LedgerStatus, Goto
<1>3. "ret_final" \in Labels \ Selling /\ "ret_final" \in AfterPending \ {"release_status"}
  BY DEF Labels, Selling, AfterPending
<1>4. CASE UNCHANGED dbVars
  <2>1. DbTypeOK' /\ UNCHANGED <<prov, resv, orders>>
    BY <1>4 DEF KeyOpsInv, TypeOK, DbTypeOK, dbVars
  <2> QED
    BY <2>1, <1>1, <1>2, <1>3, ReturnGoesOn
<1>5. CASE ~UNCHANGED dbVars
  <2> DEFINE o == [orders[Row(t)] EXCEPT
                     !.status = IF FullRefund(t) THEN "refunded" ELSE "partially_refunded"]
  <2>1. SetOrder(Row(t), o)
    BY <1>5 DEF LedgerStatus
  <2>2. o \in OrderRows
    BY <1>2 DEF OrderRows, OrderStates
  <2>3. /\ o.rows = orders[Row(t)].rows /\ o.credit = orders[Row(t)].credit
        /\ o.total = orders[Row(t)].total
    BY <1>2 DEF OrderRows
  <2> HIDE DEF o
  <2> QED
    BY <1>1, <1>2, <1>3, <2>1, <2>2, <2>3, LedgerKeeps
<1> QED
  BY <1>4, <1>5

-------------------------------------------------------------------------------
(* Steps that change provisions.                                             *)

\* Provisions of a row in use move on: pending ones may fail, or be delivered
\* or refunded, final ones stay final.  The row's status is not written.
LEMMA ProvisionsKeep ==
  ASSUME KeyOpsInv, NEW t \in Tasks, NEW r \in Reservations, resv[r] # "none",
         NEW S \in SUBSET Keys, NEW status \in {"failed", "refunded"},
         SetProvisions(r, S, status),
         \A k \in S : prov[r][k] = IF status = "failed" THEN "pending" ELSE "delivered",
         keyState' \in [Keys -> KeyStates], UNCHANGED <<keyOrder, resv, createdAt, orders>>,
         NEW l \in Labels \ Selling, NEW j \in Jobs, Continue(t, l, j),
         Relies(l, IF l = "idle" THEN NoJob ELSE j)'
  PROVE  KeyOpsInv' /\ Monotone
<1>1. /\ prov' = [prov EXCEPT ![r] = [k \in Keys |-> IF k \in S THEN status ELSE prov[r][k]]]
      /\ prov \in [Reservations -> [Keys -> ProvisionStates]]
  BY DEF SetProvisions, KeyOpsInv, TypeOK, DbTypeOK
<1>2. \A q \in Reservations : \A k \in Keys :
        prov'[q][k] = IF q = r /\ k \in S THEN status ELSE prov[q][k]
  BY <1>1
<1>3. prov' \in [Reservations -> [Keys -> ProvisionStates]]
  BY <1>1 DEF ProvisionStates
<1>4. \A q \in Reservations : \A k \in Keys :
        /\ prov'[q][k] = "pending" => prov[q][k] = "pending"
        /\ prov[q][k] \in {"delivered", "refunded"} => prov'[q][k] \in {"delivered", "refunded"}
        /\ resv[q] = "none" => prov'[q][k] = prov[q][k]
  BY <1>2
<1>5. /\ StepOf(t) /\ pc'[t] = l /\ job'[t] = IF l = "idle" THEN NoJob ELSE j
      /\ pc' \in [Tasks -> Labels] /\ job' \in [Tasks -> Jobs]
  BY ContinueMoves
<1>6. TypeOK'
  BY <1>3, <1>5 DEF KeyOpsInv, TypeOK, DbTypeOK
<1>7. Monotone /\ SalesKept(t)
  BY <1>4 DEF Monotone, SalesKept
<1>8. RowsMatchProvisions' /\ OnePendingPerKey'
  BY <1>4 DEF KeyOpsInv, RowsMatchProvisions, OnePendingPerKey, KeysWith
<1>9. SalesBounded'
  BY <1>4 DEF KeyOpsInv, SalesBounded, Unsold, Quiet, KeysWith
<1>10. Relies(pc[t], job[t])' /\ SaleRelies(pc[t], job[t])'
  BY <1>5 DEF Relies, SaleRelies, Selling
<1> QED
  BY <1>5, <1>6, <1>7, <1>8, <1>9, <1>10, StepKeeps

\* A flip turns delivered into refunded: the keys stay answerable.
LEMMA ReturnFlipKeeps ==
  ASSUME KeyOpsInv, NEW t \in Tasks, ReturnFlip(t)
  PROVE  KeyOpsInv' /\ Monotone
<1>1. PICK k \in job[t].keys :
        /\ \/ SetProvisions(Row(t), {k} \intersect KeysWith(Row(t), "delivered"), "refunded")
           \/ UNCHANGED prov
        /\ Continue(t, IF job[t].keys = {k} THEN "ret_totals" ELSE "ret_flip",
                    [job[t] EXCEPT !.keys = @ \ {k}])
  BY DEF ReturnFlip
<1>2. PICK l \in {"ret_totals", "ret_flip"} : Continue(t, l, [job[t] EXCEPT !.keys = @ \ {k}])
  BY <1>1
<1>3. [job[t] EXCEPT !.keys = @ \ {k}] \in Jobs
  BY Mover DEF Jobs
<1>4. PICK j \in Jobs : j = [job[t] EXCEPT !.keys = @ \ {k}]
  BY <1>3
<1>5. Continue(t, l, j) /\ j.row = job[t].row /\ j.batch = job[t].batch
  BY <1>2, <1>4, Mover DEF Jobs
<1>6. PICK r \in Reservations : r = Row(t)
  BY Mover DEF ReturnFlip, Relies, Row, Rowless
<1>7. /\ Quiet(r) /\ j.row = r
      /\ \A q \in j.batch : resv[q] # "none"
      /\ pc[t] \in AfterPending
  BY <1>5, <1>6, Mover DEF ReturnFlip, Relies, Row, AfterPending
<1>8. l \in Labels \ Selling /\ l \in AfterPending \ {"release_status"} /\ l # "idle"
  BY DEF Labels, Selling, AfterPending
<1>9. UNCHANGED <<keyState, keyOrder, resv, createdAt, orders>>
  BY DEF ReturnFlip, keyVars
<1>10. CASE UNCHANGED prov
  <2>1. DbTypeOK' /\ UNCHANGED <<prov, resv, orders>>
    BY <1>9, <1>10 DEF KeyOpsInv, TypeOK, DbTypeOK
  <2> QED
    BY <1>5, <1>7, <1>8, <2>1, ReturnGoesOn
<1>11. CASE SetProvisions(Row(t), {k} \intersect KeysWith(Row(t), "delivered"), "refunded")
  <2>1. PICK S \in SUBSET Keys : S = {k} \intersect KeysWith(r, "delivered")
    BY DEF KeysWith
  <2>2. SetProvisions(r, S, "refunded") /\ \A s \in S : prov[r][s] = "delivered"
    BY <1>6, <1>11, <2>1 DEF KeysWith
  <2>3. KeysWith(r, "pending")' = {}
    BY <1>7, <2>2 DEF SetProvisions, Quiet, KeysWith, KeyOpsInv, TypeOK, DbTypeOK
  <2>4. Relies(l, j)'
    BY <1>7, <1>8, <1>9, <2>3 DEF Relies, Quiet, Rowless, Selling, AfterPending, Answering
  <2>5. keyState' \in [Keys -> KeyStates]
    BY <1>9 DEF KeyOpsInv, TypeOK, DbTypeOK
  <2>6. resv[r] # "none" /\ Relies(l, IF l = "idle" THEN NoJob ELSE j)'
    BY <1>7, <1>8, <2>4 DEF Quiet
  <2> QED
    BY <1>5, <1>8, <1>9, <2>2, <2>5, <2>6, ProvisionsKeep
<1> QED
  BY <1>1, <1>6, <1>10, <1>11

\* A return keeps the invariant.
LEMMA ReturnStepsKeep ==
  ASSUME KeyOpsInv, NEW t \in Tasks, ReturnSteps(t)
  PROVE  KeyOpsInv' /\ Monotone
  BY ReturnReadKeeps, ReturnRestockKeeps, ReturnFlipKeeps, ReturnTotalsKeeps, LedgerReadKeeps,
     LedgerInsertKeeps, LedgerStatusKeeps, ReturnFinalKeeps DEF ReturnSteps

\* A release leaves no pending provision behind, and the status it will set
\* closes the row.
LEMMA ReleaseKeeps ==
  ASSUME KeyOpsInv, NEW t \in Tasks, NEW raised \in {"idle", "cron_next"}, Release(t, raised)
  PROVE  KeyOpsInv' /\ Monotone
<1>2. CASE Goto(t, raised) /\ UNCHANGED dbVars
  BY <1>2, LeaveKeeps
<1>3. CASE ReleaseReserved(Row(t)) /\ Goto(t, "release_status")
  <2>1. PICK r \in Reservations, j \in Jobs : r = Row(t) /\ j = job[t]
    BY Mover DEF Release, Relies, Row, Rowless
  <2>2. /\ j.row = r /\ resv[r] # "none" /\ j.target \in Closed
        /\ \A q \in j.batch : resv[q] # "none"
    BY <2>1, Mover DEF Release, Relies, Row
  <2>3. PICK S \in SUBSET Keys : S = KeysWith(r, "pending")
    BY DEF KeysWith
  <2>4. /\ SetProvisions(r, S, "failed") /\ UNCHANGED <<keyOrder, resv, createdAt, orders>>
        /\ keyState' \in [Keys -> KeyStates]
    BY <1>3, <2>1, <2>3 DEF ReleaseReserved, SetKeys, KeyOpsInv, TypeOK, DbTypeOK, KeyStates
  <2>5. \A k \in S : prov[r][k] = "pending"
    BY <2>3 DEF KeysWith
  <2>6. KeysWith(r, "pending")' = {}
    BY <2>3, <2>4 DEF SetProvisions, KeysWith, KeyOpsInv, TypeOK, DbTypeOK
  <2>7. Relies("release_status", j)'
    BY <2>2, <2>4, <2>6 DEF Relies, Quiet, Rowless, Selling, AfterPending, Answering
  <2>8. Continue(t, "release_status", j) /\ "release_status" \in Labels \ Selling
    BY <1>3, <2>1 DEF Goto, Labels, Selling
  <2> QED
    BY <2>2, <2>4, <2>5, <2>7, <2>8, ProvisionsKeep
<1> QED
  BY <1>2, <1>3 DEF Release

\* Finalizing needs a pending provision, so nobody sold the row before, and
\* takes all of them, so none is left behind.
LEMMA ProvisionFinalizeKeeps ==
  ASSUME KeyOpsInv, NEW t \in Tasks, NEW raised, MayRaise(t, raised), ProvisionFinalize(t, raised)
  PROVE  KeyOpsInv' /\ Monotone
<1>1. CASE Goto(t, raised) /\ UNCHANGED dbVars
  BY <1>1, RaiseKeeps DEF ProvisionFinalize
<1>2. CASE /\ CanFinalize(Row(t), job[t].keys)
           /\ FinalizeProvisions(Row(t), job[t].keys)
           /\ Goto(t, "prov_decrypt")
  <2>1. PICK r \in Reservations, j \in Jobs : r = Row(t) /\ j = job[t]
    BY Mover DEF ProvisionFinalize, Relies, Row, Rowless
  <2>2. /\ pc[t] = "prov_finalize" /\ j.row = r /\ j.keys \in SUBSET Keys
        /\ KeysWith(r, "pending") \subseteq j.keys
        /\ \A q \in j.batch : resv[q] # "none"
    BY <2>1, Mover DEF ProvisionFinalize, Relies, Row, Jobs
  <2>3. j.keys # {} /\ KeysWith(r, "pending") = j.keys /\ resv[r] = "pending"
    BY <1>2, <2>1, <2>2, Mover DEF CanFinalize, KeysWith, RowsMatchProvisions
  <2>4. /\ prov \in [Reservations -> [Keys -> ProvisionStates]]
        /\ resv \in [Reservations -> ReservationStates]
        /\ keyState \in [Keys -> KeyStates]
    BY DEF KeyOpsInv, TypeOK, DbTypeOK
  <2>5. /\ prov' = [prov EXCEPT ![r] =
                      [k \in Keys |-> IF k \in j.keys THEN "delivered" ELSE prov[r][k]]]
        /\ resv' = [resv EXCEPT ![r] = "provisioned"]
        /\ keyState' = [k \in Keys |-> IF k \in j.keys THEN "seller_provisioned" ELSE keyState[k]]
        /\ UNCHANGED <<keyOrder, createdAt, orders>>
    BY <1>2, <2>1 DEF FinalizeProvisions, SetKeys, SetProvisions, SetReservation
  <2>6. \A q \in Reservations : \A k \in Keys :
          prov'[q][k] = IF q = r /\ k \in j.keys THEN "delivered" ELSE prov[q][k]
    BY <2>4, <2>5
  <2>7. \A q \in Reservations : resv'[q] = IF q = r THEN "provisioned" ELSE resv[q]
    BY <2>4, <2>5
  <2>8. KeysWith(r, "pending")' = {} /\ j.keys \subseteq Final(r)'
    BY <2>2, <2>3, <2>6 DEF KeysWith, Final
  <2>9. Continue(t, "prov_decrypt", j) /\ "prov_decrypt" \in Labels
    BY <1>2, <2>1 DEF Goto, Labels
  <2>10. /\ StepOf(t) /\ pc'[t] = "prov_decrypt" /\ job'[t] = j
         /\ pc' \in [Tasks -> Labels] /\ job' \in [Tasks -> Jobs]
    BY <2>9, ContinueMoves
  <2>11. TypeOK'
    <3>1. /\ prov' \in [Reservations -> [Keys -> ProvisionStates]]
          /\ resv' \in [Reservations -> ReservationStates]
          /\ keyState' \in [Keys -> KeyStates]
      BY <2>4, <2>5 DEF ProvisionStates, ReservationStates, KeyStates
    <3> QED
      BY <2>5, <2>10, <3>1 DEF KeyOpsInv, TypeOK, DbTypeOK
  <2>12. Monotone
    BY <2>3, <2>6, <2>7 DEF Monotone, Closed
  <2>13. RowsMatchProvisions'
    BY <2>6, <2>7, <2>8, Mover DEF RowsMatchProvisions, KeysWith
  <2>14. OnePendingPerKey'
    BY <2>6 DEF KeyOpsInv, OnePendingPerKey
  <2>15. Unsold(r) /\ \A u \in Tasks : pc[u] \in Selling => job[u].row # r
    BY <2>3, Mover DEF KeyOpsInv, SalesBounded, Quiet, Relies
  <2>16. SalesBounded'
    BY <2>5, <2>6, <2>7, <2>8 DEF KeyOpsInv, SalesBounded, Unsold, Quiet, KeysWith
  <2>17. Relies(pc[t], job[t])'
    <3>1. Quiet(r)' /\ \A q \in j.batch : resv'[q] # "none"
      BY <2>2, <2>7, <2>8 DEF Quiet, Jobs
    <3> QED
      BY <2>2, <2>8, <2>10, <3>1 DEF Relies, Rowless, Selling, AfterPending, Answering
  <2>18. SaleRelies(pc[t], job[t])' /\ SalesKept(t)
    BY <2>2, <2>5, <2>10, <2>15 DEF SaleRelies, SalesKept, Unsold
  <2> QED
    BY <2>2, <2>10, <2>11, <2>12, <2>13, <2>14, <2>15, <2>16, <2>17, <2>18, StepKeeps
<1> QED
  BY <1>1, <1>2 DEF ProvisionFinalize

-------------------------------------------------------------------------------
(* Claims and sales.                                                         *)

\* A claim opens a new row, with keys no other row has pending.
LEMMA ClaimFromKeeps ==
  ASSUME KeyOpsInv, NEW t \in Tasks, NEW pool, pc[t] \in {"claim", "claim_retry"},
         ClaimFrom(t, pool, "idle")
  PROVE  KeyOpsInv' /\ Monotone
<1>1. PICK r \in Reservations : r = Row(t)
  BY Mover DEF Relies, Row, Rowless
<1>2. PICK S \in SUBSET Claimable(pool) : ClaimAndReserve(r, S)
  BY <1>1 DEF ClaimFrom
<1>3. /\ resv[r] = "none" /\ S \in SUBSET Keys
      /\ \A k \in S : \A q \in Reservations : prov[q][k] # "pending"
  BY <1>1 DEF ClaimFrom, Claimable
<1>4. /\ prov \in [Reservations -> [Keys -> ProvisionStates]]
      /\ resv \in [Reservations -> ReservationStates]
      /\ keyState \in [Keys -> KeyStates]
      /\ createdAt \in [Reservations -> Nat]
  BY DEF KeyOpsInv, TypeOK, DbTypeOK
<1>5. /\ prov' = [prov EXCEPT ![r] = [k \in Keys |-> IF k \in S THEN "pending" ELSE prov[r][k]]]
      /\ resv' = [resv EXCEPT ![r] = "pending"]
      /\ keyState' = [k \in Keys |-> IF k \in S THEN "seller_reserved" ELSE keyState[k]]
      /\ createdAt' = [createdAt EXCEPT ![r] = Cardinality(Existing) + 1]
      /\ UNCHANGED <<keyOrder, orders>>
  BY <1>2 DEF ClaimAndReserve, SetKeys, SetProvisions, SetReservation
<1>6. \A q \in Reservations : \A k \in Keys :
        prov'[q][k] = IF q = r /\ k \in S THEN "pending" ELSE prov[q][k]
  BY <1>4, <1>5
<1>7. \A q \in Reservations : resv'[q] = IF q = r THEN "pending" ELSE resv[q]
  BY <1>4, <1>5
<1>8. \A k \in Keys : prov[r][k] = "none"
  BY <1>3, Mover DEF RowsMatchProvisions
<1>9. /\ StepOf(t) /\ pc'[t] = "idle" /\ job'[t] = NoJob
      /\ pc' \in [Tasks -> Labels] /\ job' \in [Tasks -> Jobs]
  <2>1. Continue(t, "idle", job[t]) /\ "idle" \in Labels /\ job[t] \in Jobs
    BY Mover DEF ClaimFrom, Goto, Labels
  <2> QED
    BY <2>1, ContinueMoves
<1>10. TypeOK'
  <2>1. Cardinality(Existing) \in Nat
    BY ReservationsFinite, FS_Subset, FS_CardinalityType DEF Existing
  <2>2. /\ prov' \in [Reservations -> [Keys -> ProvisionStates]]
        /\ resv' \in [Reservations -> ReservationStates]
        /\ keyState' \in [Keys -> KeyStates]
        /\ createdAt' \in [Reservations -> Nat]
    BY <1>4, <1>5, <2>1 DEF ProvisionStates, ReservationStates, KeyStates
  <2> QED
    BY <1>5, <1>9, <2>2 DEF KeyOpsInv, TypeOK, DbTypeOK
<1>11. Monotone
  BY <1>3, <1>6, <1>7 DEF Monotone, Closed
<1>12. RowsMatchProvisions'
  BY <1>6, <1>7, <1>8, Mover DEF RowsMatchProvisions, KeysWith
<1>13. OnePendingPerKey'
  BY <1>3, <1>6 DEF KeyOpsInv, OnePendingPerKey
<1>14. SalesBounded'
  <2>1. Unsold(r)
    BY <1>3 DEF KeyOpsInv, SalesBounded, Quiet
  <2>2. \A q \in Reservations : q # r /\ Quiet(q) => Quiet(q)'
    BY <1>6, <1>7 DEF Quiet, KeysWith
  <2> QED
    BY <1>5, <2>1, <2>2 DEF KeyOpsInv, SalesBounded, Unsold
<1>15. Relies(pc[t], job[t])' /\ SaleRelies(pc[t], job[t])' /\ SalesKept(t)
  BY <1>5, <1>9 DEF Relies, SaleRelies, SalesKept, NoJob, Rowless, Selling, AfterPending, Answering
<1> QED
  BY <1>9, <1>10, <1>11, <1>12, <1>13, <1>14, <1>15, StepKeeps DEF Selling

\* A claim that goes on to another source keeps the invariant.
LEMMA ClaimKeysKeeps ==
  ASSUME KeyOpsInv, NEW t \in Tasks, ClaimKeys(t, "idle", "idle")
  PROVE  KeyOpsInv' /\ Monotone
<1>1. CASE ClaimFrom(t, job[t].pool, "idle")
  BY <1>1, ClaimFromKeeps DEF ClaimKeys
<1>2. CASE Goto(t, "idle") /\ UNCHANGED dbVars
  BY <1>2, StopKeeps
<1>3. CASE Goto(t, "jit") /\ UNCHANGED dbVars
  <2>1. Relies("jit", job[t]) /\ SaleRelies("jit", job[t])
    BY Mover DEF ClaimKeys, Relies, SaleRelies, Rowless, Selling, AfterPending, Answering
  <2>2. "jit" \in Labels \ Selling /\ job[t] \in Jobs
    BY Mover DEF Labels, Selling
  <2> QED
    BY <1>3, <2>1, <2>2, MoveKeeps DEF Goto
<1>4. CASE Continue(t, "claim", [job[t] EXCEPT !.pool = @ + 1]) /\ UNCHANGED dbVars
  <2> DEFINE j == [job[t] EXCEPT !.pool = @ + 1]
  <2>1. j \in Jobs /\ j.row = job[t].row /\ j.batch = job[t].batch
    BY Mover DEF Jobs
  <2>2. Relies("claim", j) /\ SaleRelies("claim", j)
    BY <2>1, Mover DEF ClaimKeys, Relies, SaleRelies, Rowless, Selling, AfterPending, Answering
  <2>3. "claim" \in Labels \ Selling
    BY DEF Labels, Selling
  <2> HIDE DEF j
  <2> QED
    BY <1>4, <2>1, <2>2, <2>3, MoveKeeps DEF j
<1> QED
  BY <1>1, <1>2, <1>3, <1>4 DEF ClaimKeys

\* The claim after a purchase is a claim like the first.
LEMMA ClaimRetryKeeps ==
  ASSUME KeyOpsInv, NEW t \in Tasks, ClaimRetry(t, "idle", "idle")
  PROVE  KeyOpsInv' /\ Monotone
  BY ClaimFromKeeps, StopKeeps DEF ClaimRetry

\* A purchase adds keys and nothing else.
LEMMA JitPurchaseKeeps ==
  ASSUME KeyOpsInv, NEW t \in Tasks, JitPurchase(t, "idle")
  PROVE  KeyOpsInv' /\ Monotone
<1>1. CASE Goto(t, "idle") /\ UNCHANGED dbVars
  BY <1>1, StopKeeps
<1>2. CASE ~(Goto(t, "idle") /\ UNCHANGED dbVars)
  <2>1. PICK S \in SUBSET Keys :
          /\ SetKeys(S, "available")
          /\ Continue(t, "claim_retry", job[t])
          /\ UNCHANGED <<keyOrder, rowVars, orders>>
    BY <1>2 DEF JitPurchase, Goto
  <2>2. Relies("claim_retry", job[t]) /\ SaleRelies("claim_retry", job[t])
    BY Mover DEF JitPurchase, Relies, SaleRelies, Rowless, Selling, AfterPending, Answering
  <2>3. "claim_retry" \in Labels \ Selling /\ job[t] \in Jobs
    BY Mover DEF Labels, Selling
  <2>4. DbTypeOK' /\ UNCHANGED <<prov, resv, orders>>
    BY <2>1 DEF rowVars, SetKeys, KeyOpsInv, TypeOK, DbTypeOK, KeyStates
  <2> QED
    BY <2>1, <2>2, <2>3, <2>4, KeysKeep
<1> QED
  BY <1>1, <1>2

\* A write to the order of the row a task sells, which nobody else sells.
LEMMA SaleWriteKeeps ==
  ASSUME KeyOpsInv, NEW t \in Tasks, pc[t] \in Selling,
         NEW r \in Reservations, r = job[t].row, NEW o \in OrderRows, SetOrder(r, o),
         o.rows <= 1, o.credit <= o.total,
         NEW l \in {"sale_credit", "sale_link"}, Goto(t, l),
         l = "sale_credit" => o.credit = 0 /\ o.total = Cardinality(job[t].keys)
  PROVE  KeyOpsInv' /\ Monotone
<1>1. /\ orders \in [Reservations -> OrderRows] /\ orders' = [orders EXCEPT ![r] = o]
      /\ UNCHANGED <<keyState, keyOrder, prov, resv, createdAt>>
  BY DEF KeyOpsInv, TypeOK, DbTypeOK, SetOrder, keyVars, rowVars
<1>2. PICK j \in Jobs : j = job[t]
  BY Mover
<1>3. /\ Quiet(r) /\ j.keys \subseteq Final(r) /\ j.row = r
      /\ \A q \in j.batch : resv[q] # "none"
  BY <1>2, Mover DEF Relies, Selling, Answering
<1>4. /\ StepOf(t) /\ pc'[t] = l /\ job'[t] = j
      /\ pc' \in [Tasks -> Labels] /\ job' \in [Tasks -> Jobs]
  <2>1. Continue(t, l, j) /\ l \in Labels /\ l # "idle"
    BY <1>2 DEF Goto, Labels
  <2> QED
    BY <2>1, ContinueMoves
<1>5. TypeOK'
  BY <1>1, <1>4 DEF KeyOpsInv, TypeOK, DbTypeOK
<1>6. Monotone
  BY <1>1 DEF Monotone
<1>7. \A u \in Tasks : u # t /\ pc[u] \in Selling => job[u].row # r
  BY DEF KeyOpsInv, OneSeller, Row
<1>8. SalesKept(t)
  <2>1. \A u \in Tasks : pc[u] \in Selling => job[u].row \in Reservations
    BY Mover DEF Relies, Rowless, Selling
  <2> QED
    BY <1>1, <1>7, <2>1 DEF SalesKept
<1>9. RowsMatchProvisions' /\ OnePendingPerKey'
  BY <1>1 DEF KeyOpsInv, RowsMatchProvisions, OnePendingPerKey, KeysWith
<1>10. SalesBounded'
  <2>1. Quiet(r)' /\ \A q \in Reservations : Quiet(q) => Quiet(q)'
    BY <1>1, <1>3 DEF Quiet, KeysWith
  <2> QED
    BY <1>1, <2>1 DEF KeyOpsInv, SalesBounded, Unsold
<1>11. Relies(pc[t], job[t])'
  BY <1>1, <1>3, <1>4 DEF Relies, Quiet, Final, KeysWith, Rowless, Selling, AfterPending, Answering
<1>12. SaleRelies(pc[t], job[t])'
  BY <1>1, <1>2, <1>3, <1>4 DEF SaleRelies
<1> QED
  BY <1>3, <1>4, <1>5, <1>6, <1>7, <1>8, <1>9, <1>10, <1>11, <1>12, StepKeeps

\* A seller that leaves the books alone goes on to the answer.
LEMMA AnswerKeeps ==
  ASSUME KeyOpsInv, NEW t \in Tasks, pc[t] \in Selling \union {"sale_link"},
         NEW l \in {"sale_insert", "sale_link", "reply"}, Goto(t, l),
         l = "sale_insert" => pc[t] = "sale_check",
         DbTypeOK', UNCHANGED <<prov, resv, orders>>
  PROVE  KeyOpsInv' /\ Monotone
<1>1. Relies(l, job[t]) /\ SaleRelies(l, job[t])
  BY Mover DEF Relies, SaleRelies, Rowless, Selling, AfterPending, Answering
<1>2. l \in Labels /\ job[t] \in Jobs /\ (l \in Selling => pc[t] \in Selling)
  BY Mover DEF Labels, Selling
<1> QED
  BY <1>1, <1>2, KeysKeep DEF Goto

\* Recording the sale: the row has one seller, and its order is unsold until
\* that seller writes it.
LEMMA SaleStepsKeep ==
  ASSUME KeyOpsInv, NEW t \in Tasks, SaleSteps(t)
  PROVE  KeyOpsInv' /\ Monotone
<1>1. UNCHANGED dbVars => DbTypeOK' /\ UNCHANGED <<prov, resv, orders>>
  BY DEF KeyOpsInv, TypeOK, DbTypeOK, dbVars
<1>2. CASE SaleCheck(t, "reply")
  <2>1. PICK l \in {"sale_insert", "reply"} : Goto(t, l)
    BY <1>2 DEF SaleCheck
  <2>2. pc[t] = "sale_check" /\ UNCHANGED dbVars /\ pc[t] \in Selling
    BY <1>2 DEF SaleCheck, Selling
  <2> QED
    BY <1>1, <2>1, <2>2, AnswerKeeps
<1>3. ASSUME pc[t] \in Selling
      PROVE  /\ job[t].row \in Reservations /\ Row(t) = job[t].row
             /\ orders[Row(t)] \in OrderRows /\ Cardinality(job[t].keys) \in Nat
  <2>1. job[t] \in Jobs /\ job[t].row \in Reservations
    BY <1>3, Mover DEF Relies, Rowless, Selling
  <2> QED
    BY <2>1, KeysCount DEF KeyOpsInv, TypeOK, DbTypeOK, Row, Jobs
<1>4. CASE SaleInsert(t, "reply")
  <2>1. pc[t] = "sale_insert" /\ pc[t] \in Selling
    BY <1>4 DEF SaleInsert, Selling
  <2>2. CASE Goto(t, "reply") /\ UNCHANGED dbVars
    BY <1>1, <2>1, <2>2, AnswerKeeps
  <2>3. CASE ~(Goto(t, "reply") /\ UNCHANGED dbVars)
    <3> DEFINE o == [orders[Row(t)] EXCEPT !.status = "fulfilled",
                                           !.total  = Cardinality(job[t].keys),
                                           !.rows   = @ + 1]
    <3>1. SetOrder(Row(t), o) /\ Goto(t, "sale_credit")
      BY <1>4, <2>3 DEF SaleInsert
    <3>2. orders[Row(t)].rows = 0 /\ orders[Row(t)].credit = 0
      BY <1>3, <2>1, Mover DEF SaleRelies, Unsold
    <3>3. /\ o \in OrderRows /\ o.rows = 1 /\ o.credit = 0
          /\ o.total = Cardinality(job[t].keys)
      <4>1. orders[Row(t)].rows + 1 = 1 /\ "fulfilled" \in OrderStates
        BY <3>2 DEF OrderStates
      <4>2. orders[Row(t)] \in OrderRows /\ Cardinality(job[t].keys) \in Nat
        BY <1>3, <2>1
      <4>3. PICK ord \in OrderRows : ord = orders[Row(t)]
        BY <4>2
      <4>4. PICK n \in Nat : n = Cardinality(job[t].keys)
        BY <4>2
      <4>5. o = [ord EXCEPT !.status = "fulfilled", !.total = n, !.rows = ord.rows + 1]
        BY <4>3, <4>4
      <4>6. ord.rows + 1 = 1 /\ ord.rows + 1 \in Nat /\ ord.credit = 0
        BY <3>2, <4>1, <4>3
      <4> HIDE DEF o
      <4>7. o \in OrderRows
        BY <4>1, <4>5, <4>6 DEF OrderRows
      <4>8. o.rows = 1 /\ o.credit = 0 /\ o.total = n
        BY <4>3, <4>5, <4>6 DEF OrderRows
      <4> QED
        BY <4>4, <4>7, <4>8
    <3>4. o.credit <= o.total
      BY <1>3, <2>1, <3>3
    <3> HIDE DEF o
    <3> QED
      BY <1>3, <2>1, <3>1, <3>3, <3>4, SaleWriteKeeps
  <2> QED
    BY <2>2, <2>3
<1>5. CASE SaleCredit(t)
  <2>1. pc[t] = "sale_credit" /\ pc[t] \in Selling /\ Goto(t, "sale_link")
    BY <1>5 DEF SaleCredit, Selling
  <2>2. CASE UNCHANGED dbVars
    BY <1>1, <2>1, <2>2, AnswerKeeps
  <2>3. CASE ~UNCHANGED dbVars
    <3> DEFINE o == [orders[Row(t)] EXCEPT !.credit = @ + Cardinality(job[t].keys)]
    <3>1. SetOrder(Row(t), o)
      BY <1>5, <2>3 DEF SaleCredit
    <3>2. /\ orders[Row(t)].credit = 0
          /\ orders[Row(t)].total = Cardinality(job[t].keys)
      BY <1>3, <2>1, Mover DEF SaleRelies
    <3>3. /\ o \in OrderRows /\ o.rows = orders[Row(t)].rows /\ o.credit = o.total
      BY <1>3, <2>1, <3>2 DEF OrderRows
    <3>4. o.rows <= 1 /\ o.credit <= o.total
      BY <1>3, <2>1, <3>3 DEF KeyOpsInv, SalesBounded, OrderRows
    <3> HIDE DEF o
    <3> QED
      BY <1>3, <2>1, <3>1, <3>3, <3>4, SaleWriteKeeps
  <2> QED
    BY <2>2, <2>3
<1>6. CASE SaleLink(t, "reply")
  <2>1. /\ pc[t] = "sale_link" /\ Goto(t, "reply")
        /\ UNCHANGED <<keyState, prov, resv, createdAt, orders>>
    BY <1>6 DEF SaleLink, rowVars
  <2>2. job[t].row \in Reservations
    BY <2>1, Mover DEF Relies, Rowless
  <2>3. DbTypeOK'
    BY <1>6, <2>1, <2>2 DEF SaleLink, KeyOpsInv, TypeOK, DbTypeOK, Row
  <2> QED
    BY <2>1, <2>3, AnswerKeeps
<1> QED
  BY <1>2, <1>4, <1>5, <1>6 DEF SaleSteps

-------------------------------------------------------------------------------
(* The expiry sweep.                                                         *)

\* A sweep starts with rows in use.
LEMMA SweepStartKeeps ==
  ASSUME KeyOpsInv, NEW rows \in SUBSET Reservations, SweepStart(rows)
  PROVE  KeyOpsInv' /\ Monotone
<1>1. PICK batch \in SUBSET Reservations :
        /\ \A r \in batch : resv[r] = "pending"
        /\ Start(Cron, "cron_next", [NoJob EXCEPT !.batch = batch])
  BY DEF SweepStart
<1> DEFINE j == [NoJob EXCEPT !.batch = batch]
<1>2. j \in Jobs /\ j.batch = batch
  BY DEF NoJob, Jobs, ReservationStates
<1>3. Relies("cron_next", j) /\ SaleRelies("cron_next", j)
  BY <1>1, <1>2 DEF Relies, SaleRelies, Rowless, Selling, AfterPending, Answering
<1>4. Cron \in Tasks /\ "cron_next" \in Labels \ Selling
  BY TasksAre DEF Labels, Selling
<1>5. Continue(Cron, "cron_next", j) /\ UNCHANGED dbVars
  BY <1>1 DEF SweepStart, Start
<1> HIDE DEF j
<1> QED
  BY <1>2, <1>3, <1>4, <1>5, MoveKeeps

\* The sweep takes one row of its batch, to be expired.
LEMMA SweepNextKeeps ==
  ASSUME KeyOpsInv, SweepNext
  PROVE  KeyOpsInv' /\ Monotone
<1>1. Cron \in Tasks
  BY TasksAre
<1>2. CASE Goto(Cron, "idle") /\ UNCHANGED dbVars
  BY <1>1, <1>2, StopKeeps
<1>3. CASE ~(Goto(Cron, "idle") /\ UNCHANGED dbVars)
  <2>1. PICK r \in job[Cron].batch :
          Continue(Cron, "release", [NoJob EXCEPT !.row = r, !.target = "expired",
                                                  !.batch = job[Cron].batch \ {r}])
    BY <1>3 DEF SweepNext
  <2> DEFINE j == [NoJob EXCEPT !.row = r, !.target = "expired",
                                !.batch = job[Cron].batch \ {r}]
  <2>2. /\ job[Cron] \in Jobs /\ r \in Reservations
        /\ \A q \in job[Cron].batch : resv[q] # "none"
    BY <1>1, Mover DEF Relies, Jobs
  <2>3. /\ j \in Jobs /\ j.row = r /\ j.target \in Closed
        /\ j.batch = job[Cron].batch \ {r}
    BY <2>2 DEF NoJob, Jobs, ReservationStates, Closed
  <2>4. Relies("release", j) /\ SaleRelies("release", j)
    BY <2>2, <2>3 DEF Relies, SaleRelies, Rowless, Selling, AfterPending, Answering
  <2>5. "release" \in Labels \ Selling
    BY DEF Labels, Selling
  <2>6. Continue(Cron, "release", j) /\ UNCHANGED dbVars
    BY <2>1 DEF SweepNext
  <2> HIDE DEF j
  <2> QED
    BY <1>1, <2>3, <2>4, <2>5, <2>6, MoveKeeps
<1> QED
  BY <1>2, <1>3

\* The sweep releases a row like any handler.
LEMMA SweepReleaseKeeps ==
  ASSUME KeyOpsInv, SweepRelease
  PROVE  KeyOpsInv' /\ Monotone
  BY TasksAre, ReleaseKeeps, ReleaseStatusKeeps DEF SweepRelease

-------------------------------------------------------------------------------
(* What the modules of the handlers need besides.                            *)

\* The claim of a handler whose failures end the request.
LEMMA ClaimStepsKeep ==
  ASSUME KeyOpsInv, NEW t \in Tasks,
         \/ ClaimKeys(t, "idle", "idle") \/ JitPurchase(t, "idle")
         \/ ClaimRetry(t, "idle", "idle")
  PROVE  KeyOpsInv' /\ Monotone
  BY ClaimKeysKeeps, JitPurchaseKeeps, ClaimRetryKeeps

\* A row that is provisioned, or whose provisions are all settled, is quiet.
LEMMA QuietRows ==
  ASSUME KeyOpsInv, NEW r \in Reservations, resv[r] \notin {"none", "pending"}
  PROVE  Quiet(r)
  BY DEF KeyOpsInv, RowsMatchProvisions, Quiet

\* A step that changes nothing keeps the invariant.
LEMMA StutterKeeps ==
  ASSUME KeyOpsInv, UNCHANGED vars
  PROVE  KeyOpsInv' /\ Monotone
<1>1. /\ keyState' = keyState /\ keyOrder' = keyOrder /\ prov' = prov /\ resv' = resv
      /\ createdAt' = createdAt /\ orders' = orders /\ pc' = pc /\ job' = job
  BY DEF vars
<1>2. TypeOK' /\ RowsMatchProvisions' /\ OnePendingPerKey' /\ OneSeller' /\ SalesBounded'
  BY <1>1 DEF KeyOpsInv, TypeOK, DbTypeOK, RowsMatchProvisions, KeysWith, OnePendingPerKey,
              OneSeller, Row, SalesBounded, Unsold, Quiet
<1>3. \A t \in Tasks : (Relies(pc[t], job[t]) /\ SaleRelies(pc[t], job[t]))'
  BY <1>1 DEF KeyOpsInv, Relies, SaleRelies, Quiet, Final, KeysWith, Unsold
<1>4. Monotone
  BY <1>1 DEF Monotone
<1> QED
  BY <1>2, <1>3, <1>4 DEF KeyOpsInv

\* The empty tables and idle tasks satisfy the invariant.
LEMMA InitKeyOps ==
  ASSUME Init
  PROVE  KeyOpsInv
<1> USE DEF Init, DbInit
<1>1. NoJob \in Jobs /\ "idle" \in Labels
  BY DEF Jobs, NoJob, ReservationStates, Labels
<1>2. NoOrderRow \in OrderRows
  BY DEF NoOrderRow, OrderRows, OrderStates
<1>3. TypeOK
  BY <1>1, <1>2 DEF TypeOK, DbTypeOK, KeyStates, ProvisionStates, ReservationStates
<1>4. RowsMatchProvisions /\ OnePendingPerKey
  BY DEF RowsMatchProvisions, OnePendingPerKey, KeysWith
<1>5. \A t \in Tasks : Relies(pc[t], job[t]) /\ SaleRelies(pc[t], job[t])
  BY DEF Relies, SaleRelies, NoJob, Rowless, Selling, AfterPending, Answering
<1>6. OneSeller
  BY DEF OneSeller, Selling
<1>7. SalesBounded
  BY DEF SalesBounded, Unsold, NoOrderRow
<1> QED
  BY <1>3, <1>4, <1>5, <1>6, <1>7 DEF KeyOpsInv

\* What the invariant says of the properties.
LEMMA KeyOpsImplies ==
  ASSUME KeyOpsInv
  PROVE  TypeOK /\ NoPhantomProvision /\ SaleRecordedOnce /\ AnswersAreFinal
<1>1. TypeOK
  BY DEF KeyOpsInv
<1>2. NoPhantomProvision
  BY DEF KeyOpsInv, RowsMatchProvisions, NoPhantomProvision
<1>3. SaleRecordedOnce
  BY DEF KeyOpsInv, SalesBounded, SaleRecordedOnce
<1>4. AnswersAreFinal
  BY DEF KeyOpsInv, Relies, Answering, Row, Final, AnswersAreFinal
<1> QED
  BY <1>1, <1>2, <1>3, <1>4

===============================================================================
