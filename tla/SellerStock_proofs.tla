-------------------------- MODULE SellerStock_proofs --------------------------
(***************************************************************************)
(* What every action of SellerKeyOperations and of the expiry sweep keeps  *)
(* beside KeyOpsInv, for any number of keys, reservations and tasks, when  *)
(* some failures are left out: StockInv, of keys and their holders,        *)
(* RecordInv, of the sales behind delivered keys, and RestInv, of rows     *)
(* that nobody works on.                                                   *)
(***************************************************************************)
EXTENDS SellerKeyOperations_proofs

\* states of a key that a claim can take, now or once it is bought
Free == {"absent", "available"}

\* from the start of a return to its last flip
Taking == {"refund_read", "ret_read", "ret_restock", "ret_flip"}

\* one task at most takes keys back from a row
OneReturner ==
  \A t, u \in Tasks : pc[t] \in Taking /\ pc[u] \in Taking /\ Row(t) = Row(u) => t = u

\* what a return is about to restock is still delivered to its row
ReturnsOwnKeys ==
  \A t \in Tasks : pc[t] = "ret_restock" => job[t].keys \subseteq KeysWith(Row(t), "delivered")

FreeIsUnheld == \A k \in Keys : keyState[k] \in Free => \A r \in Reservations : ~Holds(r, k)

StockInv == OneReturner /\ ReturnsOwnKeys /\ OneHolder /\ FreeIsUnheld

-------------------------------------------------------------------------------
(* Steps that promise no key and take none back.                             *)

\* the task neither takes keys back nor goes on to, and no key becomes free
Calm(t) ==
  /\ StepOf(t)
  /\ pc[t] # "ret_flip" /\ pc'[t] \notin Taking
  /\ UNCHANGED prov
  /\ \A k \in Keys : keyState'[k] \in Free => keyState[k] \in Free

\* A reservation holds no more than before, if its provisions are kept and no
\* return is about to flip one or ends.
LEMMA HoldersStay ==
  ASSUME NEW t \in Tasks, StepOf(t), UNCHANGED prov, pc[t] # "ret_flip"
  PROVE  \A r \in Reservations, k \in Keys : Holds(r, k)' => Holds(r, k)
<1>1. \A r \in Reservations, k \in Keys : Returning(r, k) => Returning(r, k)'
  BY DEF Returning, Row, StepOf
<1> QED
  BY <1>1 DEF Holds

\* A calm step keeps keys and their holders.
LEMMA CalmKeeps ==
  ASSUME StockInv, NEW t \in Tasks, Calm(t)
  PROVE  StockInv'
<1>1. \A r \in Reservations, k \in Keys : Holds(r, k)' => Holds(r, k)
  BY HoldersStay DEF Calm
<1>2. OneHolder' /\ FreeIsUnheld'
  BY <1>1 DEF StockInv, OneHolder, FreeIsUnheld, Calm
<1>3. OneReturner'
  BY DEF StockInv, OneReturner, Calm, StepOf, Row
<1>4. ReturnsOwnKeys'
  BY DEF StockInv, ReturnsOwnKeys, Calm, StepOf, Row, Taking, KeysWith
<1> QED
  BY <1>2, <1>3, <1>4 DEF StockInv

\* Going on to a label outside a return is calm when no table is written.
LEMMA GoesOnCalmly ==
  ASSUME TypeOK, NEW t \in Tasks, NEW l, NEW j, Continue(t, l, j), UNCHANGED dbVars,
         pc[t] # "ret_flip", l \notin Taking
  PROVE  Calm(t)
  BY DEF Calm, StepOf, Continue, TypeOK, dbVars

\* Other returns still have their keys after a step that takes none back.
LEMMA ReturnsStay ==
  ASSUME KeyOpsInv, StockInv, NEW t \in Tasks, StepOf(t), pc'[t] \notin Taking,
         \A q \in Reservations, k \in Keys :
           prov[q][k] = "delivered" => prov'[q][k] = "delivered"
  PROVE  OneReturner' /\ ReturnsOwnKeys'
<1>1. OneReturner'
  BY DEF StockInv, OneReturner, StepOf, Row
<1>2. ASSUME NEW u \in Tasks, pc'[u] = "ret_restock", NEW k \in job'[u].keys
      PROVE  k \in KeysWith(Row(u), "delivered")'
  <2>1. u # t /\ pc[u] = "ret_restock" /\ job'[u] = job[u]
    BY <1>2 DEF StepOf, Taking
  <2>2. k \in Keys /\ prov[job[u].row][k] = "delivered"
    BY <1>2, <2>1 DEF StockInv, ReturnsOwnKeys, Row, KeysWith
  <2>3. job[u].row \in Reservations
    BY <2>1, Mover DEF Relies, Rowless
  <2> QED
    BY <2>1, <2>2, <2>3 DEF KeysWith, Row
<1> QED
  BY <1>1, <1>2 DEF ReturnsOwnKeys

-------------------------------------------------------------------------------
(* Claims.                                                                   *)

\* A claim promises keys that nobody holds to a row that had none.
LEMMA ClaimFromStock ==
  ASSUME KeyOpsInv, StockInv, NEW t \in Tasks, NEW pool,
         pc[t] \in {"claim", "claim_retry"}, ClaimFrom(t, pool, "idle")
  PROVE  StockInv'
<1>1. PICK r \in Reservations : r = Row(t)
  BY Mover DEF Relies, Rowless, Row
<1>2. PICK S \in SUBSET Claimable(pool) : ClaimAndReserve(r, S)
  BY <1>1 DEF ClaimFrom
<1>3. /\ resv[r] = "none" /\ \A k \in Keys : prov[r][k] = "none"
      /\ prov \in [Reservations -> [Keys -> ProvisionStates]] /\ pc \in [Tasks -> Labels]
  BY <1>1 DEF ClaimFrom, KeyOpsInv, RowsMatchProvisions, TypeOK, DbTypeOK
<1>4. \A q \in Reservations, k \in Keys :
        prov'[q][k] = IF q = r /\ k \in S THEN "pending" ELSE prov[q][k]
  BY <1>2, <1>3 DEF ClaimAndReserve, SetProvisions
<1>5. \A k \in Keys : keyState'[k] = IF k \in S THEN "seller_reserved" ELSE keyState[k]
  BY <1>2 DEF ClaimAndReserve, SetKeys
<1>6. \A k \in S : k \in Keys /\ keyState[k] \in Free
  BY <1>2 DEF Claimable, Free
<1>7. StepOf(t) /\ pc'[t] = "idle"
  BY <1>3 DEF ClaimFrom, Goto, Continue, StepOf, KeyOpsInv, TypeOK
<1>8. \A q \in Reservations, k \in Keys : Returning(q, k) => Returning(q, k)'
  BY <1>7 DEF Returning, StepOf, Row
<1>9. \A q \in Reservations, k \in Keys : Holds(q, k)' => Holds(q, k) \/ (q = r /\ k \in S)
  BY <1>4, <1>8 DEF Holds
<1>10. \A k \in S : \A q \in Reservations : ~Holds(q, k)
  BY <1>6 DEF StockInv, FreeIsUnheld
<1>11. OneHolder' /\ FreeIsUnheld'
  BY <1>5, <1>9, <1>10 DEF StockInv, OneHolder, FreeIsUnheld, Free
<1>12. OneReturner' /\ ReturnsOwnKeys'
  BY <1>3, <1>4, <1>7, ReturnsStay DEF Taking
<1> QED
  BY <1>11, <1>12 DEF StockInv

\* Every step of a claim.
LEMMA ClaimStepsStock ==
  ASSUME KeyOpsInv, StockInv, NEW t \in Tasks,
         \/ ClaimKeys(t, "idle", "idle") \/ JitPurchase(t, "idle")
         \/ ClaimRetry(t, "idle", "idle")
  PROVE  StockInv'
<1>1. TypeOK /\ {"idle", "claim", "jit", "claim_retry"} \intersect Taking = {}
  BY DEF KeyOpsInv, Taking
<1>2. pc[t] \in {"claim", "jit", "claim_retry"}
  BY DEF ClaimKeys, JitPurchase, ClaimRetry
<1>3. CASE \E pool : pc[t] # "jit" /\ ClaimFrom(t, pool, "idle")
  BY <1>2, <1>3, ClaimFromStock
<1>4. CASE \E l \in {"idle", "claim", "jit"} : \E j : Continue(t, l, j) /\ UNCHANGED dbVars
  BY <1>1, <1>2, <1>4, GoesOnCalmly, CalmKeeps
<1>5. CASE /\ \E S \in SUBSET {k \in Keys : keyState[k] = "absent"} : SetKeys(S, "available")
           /\ Goto(t, "claim_retry") /\ UNCHANGED <<keyOrder, rowVars, orders>>
  <2>1. \A k \in Keys : keyState'[k] \in Free => keyState[k] \in Free
    BY <1>5 DEF SetKeys, Free
  <2>2. Calm(t)
    BY <1>1, <1>2, <1>5, <2>1 DEF Calm, StepOf, Goto, Continue, TypeOK, rowVars
  <2> QED
    BY <2>2, CalmKeeps
<1>6. ClaimKeys(t, "idle", "idle") \/ ClaimRetry(t, "idle", "idle") =>
        \/ \E pool : pc[t] # "jit" /\ ClaimFrom(t, pool, "idle")
        \/ \E l \in {"idle", "claim", "jit"} : \E j : Continue(t, l, j) /\ UNCHANGED dbVars
  BY DEF ClaimKeys, ClaimRetry, Goto
<1>7. JitPurchase(t, "idle") =>
        \/ /\ \E S \in SUBSET {k \in Keys : keyState[k] = "absent"} : SetKeys(S, "available")
           /\ Goto(t, "claim_retry") /\ UNCHANGED <<keyOrder, rowVars, orders>>
        \/ \E l \in {"idle", "claim", "jit"} : \E j : Continue(t, l, j) /\ UNCHANGED dbVars
  BY DEF JitPurchase, Goto
<1> QED
  BY <1>3, <1>4, <1>5, <1>6, <1>7

-------------------------------------------------------------------------------
(* Provisions, answers and sales.                                            *)

\* Provisions that are finalized are still held by their row, and its alone.
LEMMA FinalizeStock ==
  ASSUME KeyOpsInv, StockInv, NEW t \in Tasks, pc[t] = "prov_finalize",
         CanFinalize(Row(t), job[t].keys), FinalizeProvisions(Row(t), job[t].keys),
         Goto(t, "prov_decrypt")
  PROVE  StockInv'
<1>1. PICK r \in Reservations : r = Row(t)
  BY Mover DEF Relies, Rowless, Row
<1>2. PICK S \in SUBSET Keys : S = job[t].keys
  BY Mover DEF Jobs
<1>3. /\ prov \in [Reservations -> [Keys -> ProvisionStates]]
      /\ \A k \in S : prov[r][k] = "pending"
  BY <1>1, <1>2 DEF KeyOpsInv, TypeOK, DbTypeOK, CanFinalize
<1>4. \A q \in Reservations, k \in Keys :
        prov'[q][k] = IF q = r /\ k \in S THEN "delivered" ELSE prov[q][k]
  BY <1>1, <1>2, <1>3 DEF FinalizeProvisions, SetProvisions
<1>5. \A k \in Keys : keyState'[k] = IF k \in S THEN "seller_provisioned" ELSE keyState[k]
  BY <1>2 DEF FinalizeProvisions, SetKeys
<1>6. StepOf(t) /\ pc'[t] = "prov_decrypt"
  BY DEF Goto, Continue, StepOf, KeyOpsInv, TypeOK
<1>7. \A q \in Reservations, k \in Keys : Returning(q, k) => Returning(q, k)'
  BY <1>6 DEF Returning, StepOf, Row
<1>8. \A q \in Reservations, k \in Keys : Holds(q, k)' => Holds(q, k)
  BY <1>3, <1>4, <1>7 DEF Holds
<1>9. OneHolder' /\ FreeIsUnheld'
  BY <1>5, <1>8 DEF StockInv, OneHolder, FreeIsUnheld, Free
<1>10. OneReturner' /\ ReturnsOwnKeys'
  BY <1>4, <1>6, ReturnsStay DEF Taking
<1> QED
  BY <1>9, <1>10 DEF StockInv

\* Every step that provisions, replays or answers.
LEMMA ProvideStepsStock ==
  ASSUME KeyOpsInv, StockInv, NEW t \in Tasks,
         NEW ok, NEW raised, {ok, raised} \intersect Taking = {},
         \/ ProvisionRead(t, raised) \/ ProvisionFinalize(t, raised)
         \/ ProvisionDecrypt(t, ok, raised) \/ Replay(t) \/ Reply(t)
  PROVE  StockInv'
<1>1. TypeOK /\ {"idle", "prov_finalize", "reply", ok, raised} \intersect Taking = {}
  BY DEF KeyOpsInv, Taking
<1>2. pc[t] # "ret_flip"
  BY DEF ProvisionRead, ProvisionFinalize, ProvisionDecrypt, Replay, Reply
<1>3. CASE \E l \in {"idle", "prov_finalize", "reply", ok, raised} :
             \E j : Continue(t, l, j) /\ UNCHANGED dbVars
  BY <1>1, <1>2, <1>3, GoesOnCalmly, CalmKeeps
<1>4. CASE ProvisionFinalize(t, raised)
  BY <1>3, <1>4, FinalizeStock DEF ProvisionFinalize, Goto
<1>5. CASE ProvisionRead(t, raised)
  BY <1>3, <1>5 DEF ProvisionRead, Goto
<1>6. CASE ProvisionDecrypt(t, ok, raised)
  BY <1>3, <1>6 DEF ProvisionDecrypt, Goto
<1>7. CASE Replay(t)
  BY <1>3, <1>7 DEF Replay, Goto
<1>8. CASE Reply(t)
  BY <1>3, <1>8 DEF Reply, Goto
<1> QED
  BY <1>4, <1>5, <1>6, <1>7, <1>8

\* Recording a sale touches orders and the link of keys to them.
LEMMA SaleStepsStock ==
  ASSUME KeyOpsInv, StockInv, NEW t \in Tasks, SaleSteps(t)
  PROVE  StockInv'
<1>1. TypeOK /\ {"sale_insert", "sale_credit", "sale_link", "reply"} \intersect Taking = {}
  BY DEF KeyOpsInv, Taking
<1>2. pc[t] # "ret_flip"
  BY DEF SaleSteps, SaleCheck, SaleInsert, SaleCredit, SaleLink
<1>3. \E l \in {"sale_insert", "sale_credit", "sale_link", "reply"} : Goto(t, l)
  BY DEF SaleSteps, SaleCheck, SaleInsert, SaleCredit, SaleLink
<1>4. UNCHANGED <<keyState, prov>>
  BY DEF SaleSteps, SaleCheck, SaleInsert, SaleCredit, SaleLink, SetOrder, dbVars, keyVars, rowVars
<1>5. Calm(t)
  BY <1>1, <1>2, <1>3, <1>4 DEF Calm, StepOf, Goto, Continue, TypeOK
<1> QED
  BY <1>5, CalmKeeps

-------------------------------------------------------------------------------
(* Releases and the sweep.                                                   *)

\* A release frees keys that only its row was promised.
LEMMA ReleaseReservedStock ==
  ASSUME KeyOpsInv, StockInv, NEW t \in Tasks, pc[t] = "release",
         ReleaseReserved(Row(t)), Goto(t, "release_status")
  PROVE  StockInv'
<1>1. PICK r \in Reservations : r = Row(t)
  BY Mover DEF Relies, Rowless, Row
<1>2. prov \in [Reservations -> [Keys -> ProvisionStates]]
  BY DEF KeyOpsInv, TypeOK, DbTypeOK
<1>3. \A q \in Reservations, k \in Keys :
        prov'[q][k] = IF q = r /\ prov[r][k] = "pending" THEN "failed" ELSE prov[q][k]
  BY <1>1, <1>2 DEF ReleaseReserved, SetProvisions, KeysWith
<1>4. \A k \in Keys : keyState'[k] \in Free =>
        keyState[k] \in Free \/ prov[r][k] = "pending"
  BY <1>1 DEF ReleaseReserved, SetKeys, KeysWith
<1>5. StepOf(t) /\ pc'[t] = "release_status"
  BY DEF Goto, Continue, StepOf, KeyOpsInv, TypeOK
<1>6. \A q \in Reservations, k \in Keys : Returning(q, k) => Returning(q, k)'
  BY <1>5 DEF Returning, StepOf, Row
<1>7. \A q \in Reservations, k \in Keys :
        Holds(q, k)' => Holds(q, k) /\ ~(q = r /\ prov[r][k] = "pending")
  BY <1>3, <1>6 DEF Holds
<1>8. \A k \in Keys : prov[r][k] = "pending" => \A q \in Reservations : Holds(q, k) => q = r
  BY DEF StockInv, OneHolder, Holds
<1>9. OneHolder' /\ FreeIsUnheld'
  BY <1>4, <1>7, <1>8 DEF StockInv, OneHolder, FreeIsUnheld
<1>10. OneReturner' /\ ReturnsOwnKeys'
  BY <1>3, <1>5, ReturnsStay DEF Taking
<1> QED
  BY <1>9, <1>10 DEF StockInv

\* Every step of a release.
LEMMA ReleaseStepsStock ==
  ASSUME KeyOpsInv, StockInv, NEW t \in Tasks, NEW l \in {"idle", "cron_next"},
         Release(t, l) \/ ReleaseStatus(t, l)
  PROVE  StockInv'
<1>1. TypeOK /\ l \notin Taking
  BY DEF KeyOpsInv, Taking
<1>2. CASE Release(t, l)
  <2>1. CASE ReleaseReserved(Row(t)) /\ Goto(t, "release_status")
    BY <1>2, <2>1, ReleaseReservedStock DEF Release
  <2>2. CASE Goto(t, l) /\ UNCHANGED dbVars
    BY <1>1, <1>2, <2>2, GoesOnCalmly, CalmKeeps DEF Release, Goto
  <2> QED
    BY <1>2, <2>1, <2>2 DEF Release
<1>3. CASE ReleaseStatus(t, l)
  <2>1. Calm(t)
    BY <1>1, <1>3 DEF ReleaseStatus, Calm, StepOf, Goto, Continue, TypeOK, keyVars
  <2> QED
    BY <2>1, CalmKeeps
<1> QED
  BY <1>2, <1>3

\* Every step of the sweep.
LEMMA SweepStock ==
  ASSUME KeyOpsInv, StockInv,
         (\E rows : SweepStart(rows)) \/ SweepNext \/ SweepRelease
  PROVE  StockInv'
<1>1. /\ TypeOK /\ Cron \in Tasks
      /\ {"idle", "cron_next", "release"} \intersect Taking = {}
  BY TasksAre DEF KeyOpsInv, Taking
<1>2. CASE (\E rows : SweepStart(rows)) \/ SweepNext
  <2>1. /\ pc[Cron] # "ret_flip" /\ UNCHANGED dbVars
        /\ \E l \in {"idle", "cron_next", "release"} : \E j : Continue(Cron, l, j)
    BY <1>2 DEF SweepStart, SweepNext, Start, Goto
  <2> QED
    BY <1>1, <2>1, GoesOnCalmly, CalmKeeps
<1>3. CASE SweepRelease
  BY <1>1, <1>3, ReleaseStepsStock DEF SweepRelease
<1> QED
  BY <1>2, <1>3

-------------------------------------------------------------------------------
(* Returns.                                                                  *)

\* A return starts or goes on with a row that no other return works on.
LEMMA TakingGoesOn ==
  ASSUME KeyOpsInv, StockInv, NEW t \in Tasks, pc[t] # "ret_flip",
         NEW l \in Taking, NEW j, Continue(t, l, j), UNCHANGED dbVars,
         \A u \in Tasks : u # t /\ pc[u] \in Taking => Row(u) # j.row,
         l = "ret_restock" => j.keys \subseteq KeysWith(j.row, "delivered")
  PROVE  StockInv'
<1>1. StepOf(t) /\ pc'[t] = l /\ job'[t] = j
  BY DEF Continue, StepOf, KeyOpsInv, TypeOK, Taking
<1>2. \A r \in Reservations, k \in Keys : Holds(r, k)' => Holds(r, k)
  BY <1>1, HoldersStay DEF dbVars
<1>3. OneHolder' /\ FreeIsUnheld'
  BY <1>2 DEF StockInv, OneHolder, FreeIsUnheld, dbVars
<1>4. OneReturner'
  BY <1>1 DEF StockInv, OneReturner, StepOf, Row
<1>5. ReturnsOwnKeys'
  BY <1>1 DEF StockInv, ReturnsOwnKeys, StepOf, Row, KeysWith, dbVars
<1> QED
  BY <1>3, <1>4, <1>5 DEF StockInv

\* The keys read are delivered to the row.
LEMMA ReturnReadStock ==
  ASSUME KeyOpsInv, StockInv, NEW t \in Tasks, ReturnRead(t)
  PROVE  StockInv'
<1>1. PICK S \in SUBSET KeysWith(Row(t), "delivered") :
        Continue(t, IF S = {} THEN "ret_totals" ELSE "ret_restock", [job[t] EXCEPT !.keys = S])
  BY DEF ReturnRead
<1>2. pc[t] = "ret_read" /\ UNCHANGED dbVars /\ TypeOK
  BY DEF ReturnRead, KeyOpsInv
<1> DEFINE j == [job[t] EXCEPT !.keys = S]
<1>3. j.row = job[t].row /\ j.keys = S /\ S \subseteq KeysWith(job[t].row, "delivered")
  BY <1>1, Mover DEF Jobs, Row
<1>4. Continue(t, IF S = {} THEN "ret_totals" ELSE "ret_restock", j)
  BY <1>1
<1> HIDE DEF j
<1>5. CASE S = {}
  BY <1>2, <1>4, <1>5, GoesOnCalmly, CalmKeeps DEF Taking
<1>6. CASE S # {}
  <2>1. \A u \in Tasks : u # t /\ pc[u] \in Taking => Row(u) # j.row
    BY <1>2, <1>3 DEF StockInv, OneReturner, Taking, Row
  <2> QED
    BY <1>2, <1>3, <1>4, <1>6, <2>1, TakingGoesOn DEF Taking
<1> QED
  BY <1>5, <1>6

\* Keys that go back in stock were held by the row alone, which lets go of them
\* with the same step.
LEMMA ReturnRestockStock ==
  ASSUME KeyOpsInv, StockInv, NEW t \in Tasks, ReturnRestock(t)
  PROVE  StockInv'
<1>1. PICK S \in SUBSET Restockable(job[t].keys) :
        /\ RestockKeys(S)
        /\ Continue(t, IF S = {} THEN "ret_totals" ELSE "ret_flip",
                    [job[t] EXCEPT !.count = Cardinality(S)])
  BY DEF ReturnRestock
<1>2. pc[t] = "ret_restock" /\ TypeOK
  BY DEF ReturnRestock, KeyOpsInv
<1>3. PICK r \in Reservations : r = Row(t)
  BY <1>2, Mover DEF Relies, Rowless, Row
<1> DEFINE j == [job[t] EXCEPT !.count = Cardinality(S)]
<1>4. j.row = r /\ j.keys = job[t].keys /\ S \subseteq j.keys
  BY <1>1, <1>3, Mover DEF Jobs, Row, Restockable
<1>5. Continue(t, IF S = {} THEN "ret_totals" ELSE "ret_flip", j)
  BY <1>1
<1> HIDE DEF j
<1>6. UNCHANGED <<keyOrder, prov, resv, createdAt, orders>>
      /\ \A k \in Keys : keyState'[k] = IF k \in S THEN "available" ELSE keyState[k]
  BY <1>1 DEF RestockKeys, SetKeys
<1>7. StepOf(t)
  BY <1>2, <1>5 DEF Continue, StepOf, TypeOK
<1>8. CASE S = {}
  <2>1. Calm(t)
    BY <1>2, <1>5, <1>6, <1>7, <1>8 DEF Calm, Continue, TypeOK, Taking
  <2> QED
    BY <2>1, CalmKeeps
<1>9. CASE S # {}
  <2>1. pc'[t] = "ret_flip" /\ job'[t] = j
    BY <1>2, <1>5, <1>9 DEF Continue, TypeOK
  <2>2. \A q \in Reservations, k \in Keys : Holds(q, k)' => Holds(q, k)
    BY <1>2, <1>6, <1>7, HoldersStay
  <2>3. ASSUME NEW k \in S
        PROVE  \A q \in Reservations : ~Holds(q, k)'
    <3>1. k \in Keys /\ prov[r][k] = "delivered"
      BY <1>2, <1>3, <1>4 DEF StockInv, ReturnsOwnKeys, KeysWith
    <3>2. ~Returning(r, k)
      BY <1>2, <1>3 DEF Returning, StockInv, OneReturner, Taking
    <3>3. \A q \in Reservations : Holds(q, k) => q = r
      BY <3>1, <3>2 DEF StockInv, OneHolder, Holds
    <3>4. Returning(r, k)'
      BY <1>4, <2>1 DEF Returning, Row
    <3>5. ~Holds(r, k)'
      BY <1>6, <3>1, <3>4 DEF Holds
    <3> QED
      BY <2>2, <3>1, <3>3, <3>5
  <2>4. OneHolder' /\ FreeIsUnheld'
    BY <1>6, <2>2, <2>3 DEF StockInv, OneHolder, FreeIsUnheld, Free
  <2>5. OneReturner'
    BY <1>2, <1>3, <1>4, <1>7, <2>1 DEF StockInv, OneReturner, StepOf, Row, Taking
  <2>6. ReturnsOwnKeys'
    BY <1>6, <1>7, <2>1 DEF StockInv, ReturnsOwnKeys, StepOf, Row, KeysWith
  <2> QED
    BY <2>4, <2>5, <2>6 DEF StockInv
<1> QED
  BY <1>8, <1>9

\* A flip lets go of the key for good before the return forgets it.
LEMMA ReturnFlipStock ==
  ASSUME KeyOpsInv, StockInv, "write" \notin Faults, NEW t \in Tasks, ReturnFlip(t)
  PROVE  StockInv'
<1>1. PICK k \in job[t].keys :
        /\ SetProvisions(Row(t), {k} \intersect KeysWith(Row(t), "delivered"), "refunded")
        /\ Continue(t, IF job[t].keys = {k} THEN "ret_totals" ELSE "ret_flip",
                    [job[t] EXCEPT !.keys = @ \ {k}])
  BY DEF ReturnFlip, CanFail
<1>2. pc[t] = "ret_flip" /\ TypeOK /\ UNCHANGED keyState
  BY DEF ReturnFlip, KeyOpsInv, keyVars
<1>3. PICK r \in Reservations : r = Row(t)
  BY <1>2, Mover DEF Relies, Rowless, Row
<1> DEFINE j == [job[t] EXCEPT !.keys = @ \ {k}]
<1>4. j.row = r /\ j.keys = job[t].keys \ {k}
  BY <1>3, Mover DEF Jobs, Row
<1>5. Continue(t, IF job[t].keys = {k} THEN "ret_totals" ELSE "ret_flip", j)
  BY <1>1
<1> HIDE DEF j
<1>6. /\ prov \in [Reservations -> [Keys -> ProvisionStates]]
      /\ KeysWith(r, "pending") = {}
  BY <1>2, <1>3, Mover DEF TypeOK, DbTypeOK, Relies, Quiet, AfterPending, Row
<1>7. \A q \in Reservations, i \in Keys :
        prov'[q][i] = IF q = r /\ i = k /\ prov[r][k] = "delivered" THEN "refunded" ELSE prov[q][i]
  BY <1>1, <1>3, <1>6 DEF SetProvisions, KeysWith
<1>8. /\ StepOf(t)
      /\ pc'[t] = IF job[t].keys = {k} THEN "ret_totals" ELSE "ret_flip"
      /\ pc'[t] = "ret_flip" => job'[t] = j
  BY <1>2, <1>5 DEF Continue, StepOf, TypeOK
<1>9. \A q \in Reservations, i \in Keys :
        Returning(q, i) => Returning(q, i)' \/ (q = r /\ i = k)
  <2> SUFFICES ASSUME NEW q \in Reservations, NEW i \in Keys, Returning(q, i),
                      ~(q = r /\ i = k)
               PROVE  Returning(q, i)'
    OBVIOUS
  <2>1. PICK u \in Tasks : pc[u] = "ret_flip" /\ Row(u) = q /\ i \in job[u].keys
    BY DEF Returning
  <2>2. CASE u = t
    <3>1. i \in j.keys /\ pc'[t] = "ret_flip"
      BY <1>3, <1>4, <1>8, <2>1, <2>2
    <3> QED
      BY <1>3, <1>4, <1>8, <2>1, <2>2, <3>1 DEF Returning, Row
  <2>3. CASE u # t
    BY <1>8, <2>1, <2>3 DEF StepOf, Returning, Row
  <2> QED
    BY <2>2, <2>3
<1>10. \A q \in Reservations, i \in Keys : Holds(q, i)' => Holds(q, i)
  <2> SUFFICES ASSUME NEW q \in Reservations, NEW i \in Keys, Holds(q, i)'
               PROVE  Holds(q, i)
    OBVIOUS
  <2>1. CASE q = r /\ i = k
    BY <1>6, <1>7, <2>1 DEF Holds, KeysWith
  <2>2. CASE ~(q = r /\ i = k)
    BY <1>7, <1>9, <2>2 DEF Holds
  <2> QED
    BY <2>1, <2>2
<1>11. OneHolder' /\ FreeIsUnheld'
  BY <1>2, <1>10 DEF StockInv, OneHolder, FreeIsUnheld
<1>12. OneReturner'
  BY <1>2, <1>3, <1>4, <1>8 DEF StockInv, OneReturner, StepOf, Row, Taking
<1>13. ASSUME NEW u \in Tasks, pc'[u] = "ret_restock", NEW i \in job'[u].keys
       PROVE  i \in KeysWith(Row(u), "delivered")'
  <2>1. u # t /\ pc[u] = "ret_restock" /\ job'[u] = job[u]
    BY <1>8, <1>13 DEF StepOf
  <2>2. i \in Keys /\ prov[job[u].row][i] = "delivered"
    BY <1>13, <2>1 DEF StockInv, ReturnsOwnKeys, Row, KeysWith
  <2>3. job[u].row \in Reservations /\ job[u].row # r
    BY <1>2, <1>3, <2>1, Mover DEF Relies, Rowless, StockInv, OneReturner, Taking, Row
  <2> QED
    BY <1>7, <2>1, <2>2, <2>3 DEF KeysWith, Row
<1> QED
  BY <1>11, <1>12, <1>13 DEF StockInv, ReturnsOwnKeys

\* Every step of a return; those after the last flip write no key and no
\* provision.
LEMMA ReturnStepsStock ==
  ASSUME KeyOpsInv, StockInv, "write" \notin Faults, NEW t \in Tasks, ReturnSteps(t)
  PROVE  StockInv'
<1>1. CASE ReturnRead(t) \/ ReturnRestock(t) \/ ReturnFlip(t)
  BY <1>1, ReturnReadStock, ReturnRestockStock, ReturnFlipStock
<1>2. CASE \/ ReturnTotals(t) \/ LedgerRead(t) \/ LedgerInsert(t) \/ LedgerStatus(t)
           \/ ReturnFinal(t)
  <2>1. /\ TypeOK
        /\ {"ledger_read", "ledger_insert", "ledger_status", "ret_final", "idle"}
             \intersect Taking = {}
    BY DEF KeyOpsInv, Taking
  <2>2. \E l \in {"ledger_read", "ledger_insert", "ledger_status", "ret_final", "idle"} :
          \E j : Continue(t, l, j)
    BY <1>2 DEF ReturnTotals, LedgerRead, LedgerInsert, LedgerStatus, ReturnFinal, Goto
  <2>3. pc[t] # "ret_flip" /\ UNCHANGED <<keyState, prov>>
    BY <1>2 DEF ReturnTotals, LedgerRead, LedgerInsert, LedgerStatus, ReturnFinal,
                SetOrder, dbVars, keyVars, rowVars
  <2>4. Calm(t)
    BY <2>1, <2>2, <2>3 DEF Calm, StepOf, Continue, TypeOK
  <2> QED
    BY <2>4, CalmKeeps
<1> QED
  BY <1>1, <1>2 DEF ReturnSteps

\* Nothing changes.
LEMMA StutterStock ==
  ASSUME StockInv, UNCHANGED vars
  PROVE  StockInv'
  BY DEF StockInv, OneReturner, ReturnsOwnKeys, OneHolder, FreeIsUnheld, Holds, Returning, Row,
         KeysWith, vars

\* At first nobody holds a key.
LEMMA InitStock ==
  ASSUME Init
  PROVE  StockInv
<1>1. \A t \in Tasks : pc[t] = "idle"
  BY DEF Init
<1>2. \A r \in Reservations, k \in Keys : prov[r][k] = "none"
  BY DEF Init, DbInit
<1>3. \A r \in Reservations, k \in Keys : ~Holds(r, k)
  BY <1>2 DEF Holds
<1> QED
  BY <1>1, <1>3 DEF StockInv, OneReturner, ReturnsOwnKeys, OneHolder, FreeIsUnheld, Taking

\* Stock that can be claimed is nobody's, as StockIsFree says.
LEMMA StockIsFreeFollows ==
  ASSUME StockInv
  PROVE  OneHolder /\ StockIsFree
  BY DEF StockInv, FreeIsUnheld, StockIsFree, Free

-------------------------------------------------------------------------------
(* Sales.  Overlap does no harm here, but a PROVIDE must not die or fail     *)
(* between the delivery and the books.                                       *)

Recorded(r) == orders[r].rows = 1 /\ orders[r].credit = orders[r].total

\* an order has a status once it is recorded
StatusIsRecorded == \A r \in Reservations : orders[r].status = "none" <=> orders[r].rows = 0

Ledger == {"ledger_insert", "ledger_status"}

\* the ledger only writes to recorded orders, the credit belongs to one
LedgerIsRecorded ==
  \A t \in Tasks : /\ pc[t] \in Ledger => orders[Row(t)].status # "none"
                   /\ pc[t] = "sale_credit" => orders[Row(t)].rows = 1

\* the rows of S that were provisioned are recorded, or about to be
ProvisionedIsRecorded(S) ==
  \A r \in S : EverProvisioned(r) =>
    Recorded(r) \/ \E t \in Tasks : pc[t] \in Selling /\ Row(t) = r

RecordInv(S) == StatusIsRecorded /\ LedgerIsRecorded /\ ProvisionedIsRecorded(S)

\* the task sells nothing, writes no order and finalizes no provision
Aside(t) ==
  /\ StepOf(t)
  /\ pc[t] \notin Selling /\ pc'[t] \notin Selling \union Ledger
  /\ UNCHANGED orders
  /\ \A r \in Reservations : EverProvisioned(r)' => EverProvisioned(r)

\* A step aside keeps the record.
LEMMA AsideKeeps ==
  ASSUME NEW S \in SUBSET Reservations, RecordInv(S), NEW t \in Tasks, Aside(t)
  PROVE  RecordInv(S)'
<1>1. StatusIsRecorded'
  BY DEF RecordInv, StatusIsRecorded, Aside
<1>2. LedgerIsRecorded'
  BY DEF RecordInv, LedgerIsRecorded, Aside, StepOf, Row, Selling
<1>3. ProvisionedIsRecorded(S)'
  BY DEF RecordInv, ProvisionedIsRecorded, Aside, StepOf, Row, Recorded
<1> QED
  BY <1>1, <1>2, <1>3 DEF RecordInv

\* Nothing is provisioned by a step that keeps the provisions, or only settles
\* pending and delivered ones.
LEMMA NothingProvisioned ==
  ASSUME \/ UNCHANGED prov
         \/ \A q \in Reservations, k \in Keys :
              prov'[q][k] \in {"delivered", "refunded"} => prov[q][k] \in {"delivered", "refunded"}
  PROVE  \A r \in Reservations : EverProvisioned(r)' => EverProvisioned(r)
  BY DEF EverProvisioned, KeysWith

\* Going on is a step aside when no table is written.
LEMMA GoesAside ==
  ASSUME TypeOK, NEW t \in Tasks, NEW l, NEW j, Continue(t, l, j),
         UNCHANGED <<orders, prov>>, pc[t] \notin Selling, l \notin Selling \union Ledger
  PROVE  Aside(t)
<1>1. StepOf(t) /\ pc'[t] = l
  BY DEF StepOf, Continue, TypeOK
<1> QED
  BY <1>1, NothingProvisioned DEF Aside

\* Claims write no order, and their provisions are pending.
LEMMA ClaimStepsRecord ==
  ASSUME KeyOpsInv, NEW S \in SUBSET Reservations, RecordInv(S), NEW t \in Tasks,
         \/ ClaimKeys(t, "idle", "idle") \/ JitPurchase(t, "idle")
         \/ ClaimRetry(t, "idle", "idle")
  PROVE  RecordInv(S)'
<1>1. /\ TypeOK /\ pc[t] \notin Selling
      /\ {"idle", "claim", "jit", "claim_retry"} \intersect (Selling \union Ledger) = {}
  BY DEF KeyOpsInv, Selling, Ledger, ClaimKeys, JitPurchase, ClaimRetry
<1>2. CASE \E l \in {"idle", "claim", "jit", "claim_retry"} : \E j :
             Continue(t, l, j) /\ UNCHANGED <<orders, prov>>
  BY <1>1, <1>2, GoesAside, AsideKeeps
<1>3. CASE \E pool : pc[t] # "jit" /\ ClaimFrom(t, pool, "idle")
  <2>1. PICK r \in Reservations : r = Row(t)
    BY <1>3, Mover DEF Relies, Rowless, Row, ClaimKeys, ClaimRetry, JitPurchase
  <2>2. PICK K : ClaimAndReserve(r, K)
    BY <1>3, <2>1 DEF ClaimFrom
  <2>3. prov \in [Reservations -> [Keys -> ProvisionStates]]
    BY <1>1 DEF TypeOK, DbTypeOK
  <2>4. \A q \in Reservations, k \in Keys :
          prov'[q][k] \in {"delivered", "refunded"} => prov[q][k] \in {"delivered", "refunded"}
    BY <2>2, <2>3 DEF ClaimAndReserve, SetProvisions
  <2>5. StepOf(t) /\ pc'[t] = "idle" /\ UNCHANGED orders
    BY <1>1, <1>3, <2>2 DEF ClaimFrom, Goto, Continue, StepOf, TypeOK, ClaimAndReserve
  <2>6. Aside(t)
    BY <1>1, <2>4, <2>5, NothingProvisioned DEF Aside
  <2> QED
    BY <2>6, AsideKeeps
<1>4. ClaimKeys(t, "idle", "idle") \/ ClaimRetry(t, "idle", "idle") =>
        \/ \E pool : pc[t] # "jit" /\ ClaimFrom(t, pool, "idle")
        \/ \E l \in {"idle", "claim", "jit", "claim_retry"} : \E j :
             Continue(t, l, j) /\ UNCHANGED <<orders, prov>>
  BY DEF ClaimKeys, ClaimRetry, Goto, dbVars
<1>5. JitPurchase(t, "idle") =>
        \E l \in {"idle", "claim", "jit", "claim_retry"} : \E j :
          Continue(t, l, j) /\ UNCHANGED <<orders, prov>>
  BY DEF JitPurchase, Goto, dbVars, rowVars
<1> QED
  BY <1>2, <1>3, <1>4, <1>5

\* The keys of a finalized row are about to be sold.
LEMMA FinalizeRecord ==
  ASSUME KeyOpsInv, NEW S \in SUBSET Reservations, RecordInv(S), NEW t \in Tasks,
         pc[t] = "prov_finalize", FinalizeProvisions(Row(t), job[t].keys),
         Goto(t, "prov_decrypt")
  PROVE  RecordInv(S)'
<1>1. PICK r \in Reservations : r = Row(t)
  BY Mover DEF Relies, Rowless, Row
<1>2. StepOf(t) /\ pc'[t] = "prov_decrypt" /\ job'[t] = job[t] /\ UNCHANGED orders
  BY DEF Goto, Continue, StepOf, KeyOpsInv, TypeOK, FinalizeProvisions
<1>3. prov \in [Reservations -> [Keys -> ProvisionStates]]
  BY DEF KeyOpsInv, TypeOK, DbTypeOK
<1>4. \A q \in Reservations : q # r => prov'[q] = prov[q]
  BY <1>1, <1>3 DEF FinalizeProvisions, SetProvisions
<1>5. \A q \in Reservations : q # r => (EverProvisioned(q)' => EverProvisioned(q))
  BY <1>4 DEF EverProvisioned, KeysWith
<1>6. StatusIsRecorded' /\ LedgerIsRecorded'
  BY <1>2 DEF RecordInv, StatusIsRecorded, LedgerIsRecorded, StepOf, Row, Ledger
<1>7. ASSUME NEW q \in S, EverProvisioned(q)'
      PROVE  (Recorded(q) \/ \E u \in Tasks : pc[u] \in Selling /\ Row(u) = q)'
  <2>1. CASE q = r
    BY <1>1, <1>2, <2>1 DEF Selling, Row
  <2>2. CASE q # r
    <3>1. Recorded(q) \/ \E u \in Tasks : pc[u] \in Selling /\ Row(u) = q
      BY <1>5, <1>7, <2>2 DEF RecordInv, ProvisionedIsRecorded
    <3>2. \A u \in Tasks : pc[u] \in Selling => u # t
      BY DEF Selling
    <3> QED
      BY <1>2, <3>1, <3>2 DEF Recorded, StepOf, Row
  <2> QED
    BY <2>1, <2>2
<1> QED
  BY <1>6, <1>7 DEF RecordInv, ProvisionedIsRecorded

\* A sale that goes on has its row still in sale.
LEMMA SellingGoesOn ==
  ASSUME KeyOpsInv, NEW S \in SUBSET Reservations, RecordInv(S), NEW t \in Tasks,
         NEW l \in Selling \ {"sale_credit"}, Goto(t, l), UNCHANGED <<orders, prov>>
  PROVE  RecordInv(S)'
<1>1. StepOf(t) /\ pc'[t] = l /\ job'[t] = job[t]
  BY DEF Goto, Continue, StepOf, KeyOpsInv, TypeOK, Selling
<1>2. StatusIsRecorded' /\ LedgerIsRecorded'
  BY <1>1 DEF RecordInv, StatusIsRecorded, LedgerIsRecorded, StepOf, Row, Ledger, Selling
<1>3. ProvisionedIsRecorded(S)'
  <2> SUFFICES ASSUME NEW q \in S, EverProvisioned(q), ~Recorded(q)
               PROVE  \E u \in Tasks : pc'[u] \in Selling /\ job'[u].row = q
    BY DEF ProvisionedIsRecorded, EverProvisioned, KeysWith, Recorded, Row
  <2>1. PICK u \in Tasks : pc[u] \in Selling /\ Row(u) = q
    BY DEF RecordInv, ProvisionedIsRecorded
  <2> QED
    BY <1>1, <2>1 DEF StepOf, Row
<1> QED
  BY <1>2, <1>3 DEF RecordInv

\* Every step that provisions, replays or answers.  What is delivered is
\* handed to the sale, but for rows that are none of S.
LEMMA ProvideStepsRecord ==
  ASSUME KeyOpsInv, NEW S \in SUBSET Reservations, RecordInv(S), "decrypt" \notin Faults,
         NEW t \in Tasks, NEW ok, NEW raised,
         ok = "sale_check" \/ (ok = "reply" /\ Row(t) \notin S),
         raised \notin Selling \union Ledger,
         \/ ProvisionRead(t, raised) \/ ProvisionFinalize(t, raised)
         \/ ProvisionDecrypt(t, ok, raised) \/ Replay(t) \/ Reply(t)
  PROVE  RecordInv(S)'
<1>1. /\ TypeOK
      /\ {"idle", "prov_finalize", "reply", raised} \intersect (Selling \union Ledger) = {}
  BY DEF KeyOpsInv, Selling, Ledger
<1>2. CASE ProvisionDecrypt(t, ok, raised)
  <2>1. Goto(t, ok) /\ UNCHANGED <<orders, prov>> /\ pc[t] = "prov_decrypt"
    BY <1>2 DEF ProvisionDecrypt, CanFail, dbVars
  <2>2. CASE ok = "sale_check"
    BY <2>1, <2>2, SellingGoesOn DEF Selling
  <2>3. CASE ok = "reply" /\ Row(t) \notin S
    <3>1. StepOf(t) /\ pc'[t] = "reply"
      BY <1>1, <2>1, <2>3 DEF Goto, Continue, StepOf, TypeOK
    <3>2. StatusIsRecorded' /\ LedgerIsRecorded'
      BY <2>1, <3>1 DEF RecordInv, StatusIsRecorded, LedgerIsRecorded, StepOf, Row, Ledger
    <3>3. ProvisionedIsRecorded(S)'
      <4> SUFFICES ASSUME NEW q \in S, EverProvisioned(q), ~Recorded(q)
                   PROVE  \E u \in Tasks : pc'[u] \in Selling /\ job'[u].row = q
        BY <2>1 DEF ProvisionedIsRecorded, EverProvisioned, KeysWith, Recorded, Row
      <4>1. PICK u \in Tasks : pc[u] \in Selling /\ Row(u) = q
        BY DEF RecordInv, ProvisionedIsRecorded
      <4> QED
        BY <2>3, <3>1, <4>1 DEF StepOf, Row
    <3> QED
      BY <3>2, <3>3 DEF RecordInv
  <2> QED
    BY <2>2, <2>3
<1>3. CASE \E l \in {"idle", "prov_finalize", "reply", raised} : \E j :
             Continue(t, l, j) /\ UNCHANGED <<orders, prov>> /\ pc[t] \notin Selling
  BY <1>1, <1>3, GoesAside, AsideKeeps
<1>4. CASE ProvisionFinalize(t, raised)
  <2>1. CASE FinalizeProvisions(Row(t), job[t].keys) /\ Goto(t, "prov_decrypt")
    BY <1>4, <2>1, FinalizeRecord DEF ProvisionFinalize
  <2>2. CASE Goto(t, raised) /\ UNCHANGED dbVars
    BY <1>3, <1>4, <2>2 DEF ProvisionFinalize, Goto, dbVars, Selling
  <2> QED
    BY <1>4, <2>1, <2>2 DEF ProvisionFinalize
<1>5. CASE ProvisionRead(t, raised)
  BY <1>3, <1>5 DEF ProvisionRead, Goto, dbVars, Selling
<1>6. CASE Replay(t) \/ Reply(t)
  BY <1>3, <1>6 DEF Replay, Reply, Goto, dbVars, Selling
<1> QED
  BY <1>2, <1>4, <1>5, <1>6

\* An order written for a row no sale is under way for: it keeps what it says of
\* the sale.
LEMMA WriteKeepsRecord ==
  ASSUME KeyOpsInv, NEW S \in SUBSET Reservations, RecordInv(S), NEW t \in Tasks,
         NEW r \in Reservations, NEW o, orders' = [orders EXCEPT ![r] = o], UNCHANGED prov,
         o.rows = orders[r].rows, o.credit = orders[r].credit, o.total = orders[r].total,
         o.status = "none" <=> orders[r].status = "none",
         StepOf(t), pc[t] \notin Selling, pc'[t] \notin Selling,
         pc'[t] \in Ledger => job'[t].row \in Reservations /\ orders[job'[t].row].status # "none"
  PROVE  RecordInv(S)'
<1>1. \A q \in Reservations :
        /\ orders'[q].rows = orders[q].rows /\ orders'[q].credit = orders[q].credit
        /\ orders'[q].total = orders[q].total
        /\ orders'[q].status = "none" <=> orders[q].status = "none"
  BY DEF KeyOpsInv, TypeOK, DbTypeOK
<1>2. StatusIsRecorded'
  BY <1>1 DEF RecordInv, StatusIsRecorded
<1>3. ASSUME NEW u \in Tasks
      PROVE  (/\ pc[u] \in Ledger => orders[Row(u)].status # "none"
              /\ pc[u] = "sale_credit" => orders[Row(u)].rows = 1)'
  <2>1. CASE u = t
    BY <1>1, <2>1 DEF Row, Selling
  <2>2. CASE u # t
    <3>1. pc[u] \in Ledger \union {"sale_credit"} => job[u].row \in Reservations
      BY Mover DEF Relies, Rowless, Ledger
    <3> QED
      BY <1>1, <2>2, <3>1 DEF RecordInv, LedgerIsRecorded, StepOf, Row
  <2> QED
    BY <2>1, <2>2
<1>4. ProvisionedIsRecorded(S)'
  <2> SUFFICES ASSUME NEW q \in S, EverProvisioned(q), ~Recorded(q)
               PROVE  \E u \in Tasks : pc'[u] \in Selling /\ job'[u].row = q
    BY <1>1 DEF ProvisionedIsRecorded, EverProvisioned, KeysWith, Recorded, Row
  <2>1. PICK u \in Tasks : pc[u] \in Selling /\ Row(u) = q
    BY DEF RecordInv, ProvisionedIsRecorded
  <2> QED
    BY <2>1 DEF StepOf, Row
<1> QED
  BY <1>2, <1>3, <1>4 DEF RecordInv, LedgerIsRecorded

\* The order is inserted, and then credited: the sale is in the books.
LEMMA SaleStepsRecord ==
  ASSUME KeyOpsInv, NEW S \in SUBSET Reservations, RecordInv(S), "write" \notin Faults,
         NEW t \in Tasks, SaleSteps(t)
  PROVE  RecordInv(S)'
<1>1. PICK r \in Reservations : r = job[t].row
  BY Mover DEF Relies, Rowless, SaleSteps, SaleCheck, SaleInsert, SaleCredit, SaleLink
<1>2. orders[r] \in OrderRows /\ TypeOK /\ Cardinality(job[t].keys) \in Nat
  BY KeysCount, Mover DEF KeyOpsInv, TypeOK, DbTypeOK, Jobs
<1>3. CASE SaleCheck(t, "reply")
  <2>1. orders[r].status = "none"
    BY <1>1, <1>3, Mover DEF SaleCheck, SaleRelies, Unsold, RecordInv, StatusIsRecorded
  <2>2. Goto(t, "sale_insert") /\ UNCHANGED <<orders, prov>>
    BY <1>1, <1>3, <2>1 DEF SaleCheck, Row, dbVars
  <2> QED
    BY <2>2, SellingGoesOn DEF Selling
<1>4. CASE SaleInsert(t, "reply")
  <2> DEFINE o == [orders[r] EXCEPT !.status = "fulfilled",
                                    !.total = Cardinality(job[t].keys), !.rows = @ + 1]
  <2>1. orders' = [orders EXCEPT ![r] = o] /\ UNCHANGED prov /\ Goto(t, "sale_credit")
    BY <1>1, <1>4 DEF SaleInsert, SetOrder, CanFail, Row, rowVars
  <2>2. orders[r].rows = 0
    BY <1>1, <1>4, Mover DEF SaleInsert, SaleRelies, Unsold
  <2>3. o.rows = 1 /\ o.status = "fulfilled"
    BY <1>2, <2>2 DEF OrderRows
  <2> HIDE DEF o
  <2>4. \A q \in Reservations : orders'[q] = IF q = r THEN o ELSE orders[q]
    BY <1>2, <2>1 DEF TypeOK, DbTypeOK
  <2>5. StepOf(t) /\ pc'[t] = "sale_credit" /\ job'[t] = job[t]
    BY <1>2, <2>1 DEF Goto, Continue, StepOf, TypeOK
  <2>6. StatusIsRecorded'
    BY <2>3, <2>4 DEF RecordInv, StatusIsRecorded
  <2>7. ASSUME NEW u \in Tasks
        PROVE  (/\ pc[u] \in Ledger => orders[Row(u)].status # "none"
                /\ pc[u] = "sale_credit" => orders[Row(u)].rows = 1)'
    <3>1. CASE u = t
      BY <1>1, <2>3, <2>4, <2>5, <3>1 DEF Row, Ledger
    <3>2. CASE u # t
      <4>1. pc[u] \in Ledger \union {"sale_credit"} => job[u].row \in Reservations
        BY Mover DEF Relies, Rowless, Ledger
      <4> QED
        BY <2>3, <2>4, <2>5, <3>2, <4>1 DEF RecordInv, LedgerIsRecorded, StepOf, Row
    <3> QED
      BY <3>1, <3>2
  <2>8. ProvisionedIsRecorded(S)'
    <3> SUFFICES ASSUME NEW q \in S, EverProvisioned(q)
                 PROVE  Recorded(q)' \/ \E u \in Tasks : pc'[u] \in Selling /\ job'[u].row = q
      BY <2>1 DEF ProvisionedIsRecorded, EverProvisioned, KeysWith, Row
    <3>1. CASE q = r
      BY <1>1, <2>5, <3>1 DEF Selling
    <3>2. CASE q # r
      BY <2>4, <2>5, <3>2, <1>1 DEF RecordInv, ProvisionedIsRecorded, Recorded, StepOf, Row
    <3> QED
      BY <3>1, <3>2
  <2> QED
    BY <2>6, <2>7, <2>8 DEF RecordInv, LedgerIsRecorded
<1>5. CASE SaleCredit(t)
  <2> DEFINE o == [orders[r] EXCEPT !.credit = @ + Cardinality(job[t].keys)]
  <2>1. orders' = [orders EXCEPT ![r] = o] /\ UNCHANGED prov /\ Goto(t, "sale_link")
    BY <1>1, <1>5 DEF SaleCredit, SetOrder, CanFail, Row, rowVars
  <2>2. orders[r].rows = 1 /\ orders[r].credit = 0 /\ orders[r].total = Cardinality(job[t].keys)
    BY <1>1, <1>5, Mover DEF SaleCredit, SaleRelies, RecordInv, LedgerIsRecorded, Row
  <2>3. o.rows = 1 /\ o.credit = o.total /\ o.status = orders[r].status
    BY <1>2, <2>2 DEF OrderRows
  <2> HIDE DEF o
  <2>4. \A q \in Reservations : orders'[q] = IF q = r THEN o ELSE orders[q]
    BY <1>2, <2>1 DEF TypeOK, DbTypeOK
  <2>5. StepOf(t) /\ pc'[t] = "sale_link"
    BY <1>2, <2>1 DEF Goto, Continue, StepOf, TypeOK
  <2>6. StatusIsRecorded'
    BY <2>2, <2>3, <2>4 DEF RecordInv, StatusIsRecorded
  <2>7. ASSUME NEW u \in Tasks
        PROVE  (/\ pc[u] \in Ledger => orders[Row(u)].status # "none"
                /\ pc[u] = "sale_credit" => orders[Row(u)].rows = 1)'
    <3>1. CASE u = t
      BY <2>5, <3>1 DEF Ledger
    <3>2. CASE u # t
      <4>1. pc[u] \in Ledger \union {"sale_credit"} => job[u].row \in Reservations
        BY Mover DEF Relies, Rowless, Ledger
      <4> QED
        BY <2>3, <2>4, <2>5, <3>2, <4>1 DEF RecordInv, LedgerIsRecorded, StepOf, Row
    <3> QED
      BY <3>1, <3>2
  <2>8. ProvisionedIsRecorded(S)'
    <3> SUFFICES ASSUME NEW q \in S, EverProvisioned(q)
                 PROVE  Recorded(q)' \/ \E u \in Tasks : pc'[u] \in Selling /\ job'[u].row = q
      BY <2>1 DEF ProvisionedIsRecorded, EverProvisioned, KeysWith, Row
    <3>1. CASE q = r
      BY <2>3, <2>4, <3>1 DEF Recorded
    <3>2. CASE q # r
      BY <2>4, <2>5, <3>2, <1>1 DEF RecordInv, ProvisionedIsRecorded, Recorded, StepOf, Row
    <3> QED
      BY <3>1, <3>2
  <2> QED
    BY <2>6, <2>7, <2>8 DEF RecordInv, LedgerIsRecorded
<1>6. CASE SaleLink(t, "reply")
  <2>1. Continue(t, "reply", job[t]) /\ UNCHANGED <<orders, prov>> /\ pc[t] \notin Selling
    BY <1>6 DEF SaleLink, Goto, rowVars, Selling
  <2>2. "reply" \notin Selling \union Ledger
    BY DEF Selling, Ledger
  <2> QED
    BY <1>2, <2>1, <2>2, GoesAside, AsideKeeps
<1> QED
  BY <1>3, <1>4, <1>5, <1>6 DEF SaleSteps

-------------------------------------------------------------------------------
(* Releases, the sweep and returns record nothing and provision nothing.     *)

\* Every step of a release.
LEMMA ReleaseStepsRecord ==
  ASSUME KeyOpsInv, NEW S \in SUBSET Reservations, RecordInv(S), NEW t \in Tasks,
         NEW l \in {"idle", "cron_next"}, Release(t, l) \/ ReleaseStatus(t, l)
  PROVE  RecordInv(S)'
<1>1. /\ TypeOK /\ pc[t] \notin Selling
      /\ {"release_status", l} \intersect (Selling \union Ledger) = {}
  BY DEF KeyOpsInv, Selling, Ledger, Release, ReleaseStatus
<1>2. StepOf(t) /\ pc'[t] \in {"release_status", l} /\ UNCHANGED orders
  BY <1>1 DEF Release, ReleaseStatus, ReleaseReserved, Goto, Continue, StepOf, TypeOK, dbVars
<1>3. CASE UNCHANGED prov
  BY <1>1, <1>2, <1>3, NothingProvisioned, AsideKeeps DEF Aside
<1>4. CASE ~UNCHANGED prov
  <2>1. ReleaseReserved(Row(t)) /\ prov \in [Reservations -> [Keys -> ProvisionStates]]
    BY <1>1, <1>4 DEF Release, ReleaseStatus, dbVars, TypeOK, DbTypeOK
  <2>2. \A q \in Reservations, k \in Keys :
          prov'[q][k] \in {"delivered", "refunded"} => prov[q][k] \in {"delivered", "refunded"}
    BY <2>1 DEF ReleaseReserved, SetProvisions
  <2> QED
    BY <1>1, <1>2, <2>2, NothingProvisioned, AsideKeeps DEF Aside
<1> QED
  BY <1>3, <1>4

\* Every step of the sweep.
LEMMA SweepRecord ==
  ASSUME KeyOpsInv, NEW S \in SUBSET Reservations, RecordInv(S),
         (\E rows : SweepStart(rows)) \/ SweepNext \/ SweepRelease
  PROVE  RecordInv(S)'
<1>1. /\ TypeOK /\ Cron \in Tasks
      /\ {"idle", "cron_next", "release"} \intersect (Selling \union Ledger) = {}
  BY TasksAre DEF KeyOpsInv, Selling, Ledger
<1>2. CASE (\E rows : SweepStart(rows)) \/ SweepNext
  <2>1. /\ pc[Cron] \notin Selling /\ UNCHANGED <<orders, prov>>
        /\ \E l \in {"idle", "cron_next", "release"} : \E j : Continue(Cron, l, j)
    BY <1>2 DEF SweepStart, SweepNext, Start, Goto, dbVars, Selling
  <2> QED
    BY <1>1, <2>1, GoesAside, AsideKeeps
<1>3. CASE SweepRelease
  BY <1>1, <1>3, ReleaseStepsRecord DEF SweepRelease
<1> QED
  BY <1>2, <1>3

\* The ledger is only entered for a recorded order, whose sale it leaves alone.
LEMMA LedgerRecord ==
  ASSUME KeyOpsInv, NEW S \in SUBSET Reservations, RecordInv(S), NEW t \in Tasks,
         LedgerRead(t) \/ LedgerInsert(t) \/ LedgerStatus(t)
  PROVE  RecordInv(S)'
<1>1. PICK r \in Reservations : r = job[t].row
  BY Mover DEF Relies, Rowless, LedgerRead, LedgerInsert, LedgerStatus
<1>2. PICK o \in OrderRows : o = orders[r]
  BY DEF KeyOpsInv, TypeOK, DbTypeOK
<1>3. pc[t] \notin Selling /\ TypeOK /\ UNCHANGED prov
  BY DEF KeyOpsInv, Selling, LedgerRead, LedgerInsert, LedgerStatus, SetOrder, dbVars, rowVars
<1>4. orders = [orders EXCEPT ![r] = o]
  BY <1>2 DEF KeyOpsInv, TypeOK, DbTypeOK
<1>5. CASE LedgerRead(t)
  <2>1. PICK l, d :
          /\ Continue(t, l, [job[t] EXCEPT !.delta = d])
          /\ l = "ret_final" \/ (l \in Ledger /\ orders[Row(t)].status # "none")
    BY <1>5 DEF LedgerRead, Ledger
  <2> DEFINE j == [job[t] EXCEPT !.delta = d]
  <2>2. j.row = r /\ Continue(t, l, j)
    BY <1>1, <2>1, Mover DEF Jobs
  <2> HIDE DEF j
  <2>3. StepOf(t) /\ pc'[t] = l /\ (l \in Ledger => job'[t] = j) /\ l \notin Selling
    BY <1>3, <2>1, <2>2 DEF Continue, StepOf, TypeOK, Ledger, Selling
  <2>4. UNCHANGED orders
    BY <1>5 DEF LedgerRead, dbVars
  <2>5. pc'[t] \in Ledger => job'[t].row \in Reservations /\ orders[job'[t].row].status # "none"
    BY <1>1, <2>1, <2>2, <2>3 DEF Ledger, Row
  <2> QED
    BY <1>2, <1>3, <1>4, <2>3, <2>4, <2>5, WriteKeepsRecord
<1>6. CASE LedgerInsert(t)
  <2>1. StepOf(t) /\ pc'[t] = "ledger_status" /\ job'[t] = job[t]
    BY <1>3, <1>6 DEF LedgerInsert, Goto, Continue, StepOf, TypeOK
  <2>2. o.status # "none"
    BY <1>1, <1>2, <1>6 DEF LedgerInsert, RecordInv, LedgerIsRecorded, Ledger, Row
  <2>3. PICK p : /\ orders' = [orders EXCEPT ![r] = p]
                 /\ p.rows = o.rows /\ p.credit = o.credit /\ p.total = o.total
                 /\ p.status = o.status
    <3>1. CASE UNCHANGED dbVars
      BY <1>4, <3>1 DEF dbVars
    <3>2. CASE ~UNCHANGED dbVars
      <4>1. PICK x, e : orders' = [orders EXCEPT ![r] = [o EXCEPT !.refunded = x, !.events = e]]
        BY <1>1, <1>2, <1>6, <3>2 DEF LedgerInsert, SetOrder, Row
      <4> DEFINE q == [o EXCEPT !.refunded = x, !.events = e]
      <4>2. q.rows = o.rows /\ q.credit = o.credit /\ q.total = o.total /\ q.status = o.status
        BY DEF OrderRows
      <4> QED
        BY <4>1, <4>2
    <3> QED
      BY <3>1, <3>2
  <2> QED
    BY <1>1, <1>2, <1>3, <2>1, <2>2, <2>3, WriteKeepsRecord DEF Selling
<1>7. CASE LedgerStatus(t)
  <2>1. StepOf(t) /\ pc'[t] = "ret_final"
    BY <1>3, <1>7 DEF LedgerStatus, Goto, Continue, StepOf, TypeOK
  <2>2. o.status # "none"
    BY <1>1, <1>2, <1>7 DEF LedgerStatus, RecordInv, LedgerIsRecorded, Ledger, Row
  <2>3. PICK p : /\ orders' = [orders EXCEPT ![r] = p]
                 /\ p.rows = o.rows /\ p.credit = o.credit /\ p.total = o.total
                 /\ p.status # "none"
    <3>1. CASE UNCHANGED dbVars
      BY <1>4, <2>2, <3>1 DEF dbVars
    <3>2. CASE ~UNCHANGED dbVars
      <4>1. PICK x \in {"refunded", "partially_refunded"} :
              orders' = [orders EXCEPT ![r] = [o EXCEPT !.status = x]]
        BY <1>1, <1>2, <1>7, <3>2 DEF LedgerStatus, SetOrder, Row
      <4> DEFINE q == [o EXCEPT !.status = x]
      <4>2. q.rows = o.rows /\ q.credit = o.credit /\ q.total = o.total /\ q.status = x
        BY DEF OrderRows
      <4> QED
        BY <4>1, <4>2
    <3> QED
      BY <3>1, <3>2
  <2> QED
    BY <1>2, <1>3, <2>1, <2>2, <2>3, WriteKeepsRecord DEF Selling, Ledger
<1> QED
  BY <1>5, <1>6, <1>7

\* Every step of a return.
LEMMA ReturnStepsRecord ==
  ASSUME KeyOpsInv, NEW S \in SUBSET Reservations, RecordInv(S), NEW t \in Tasks, ReturnSteps(t)
  PROVE  RecordInv(S)'
<1>1. TypeOK
  BY DEF KeyOpsInv
<1>2. CASE LedgerRead(t) \/ LedgerInsert(t) \/ LedgerStatus(t)
  BY <1>2, LedgerRecord
<1>3. CASE ReturnRead(t) \/ ReturnRestock(t) \/ ReturnTotals(t) \/ ReturnFinal(t)
  <2>1. /\ pc[t] \notin Selling /\ UNCHANGED <<orders, prov>>
        /\ \E l \in {"ret_totals", "ret_restock", "ret_flip", "ledger_read", "idle"} :
             \E j : Continue(t, l, j)
    BY <1>3 DEF ReturnRead, ReturnRestock, ReturnTotals, ReturnFinal, RestockKeys, Goto, dbVars,
                Selling
  <2>2. {"ret_totals", "ret_restock", "ret_flip", "ledger_read", "idle"}
          \intersect (Selling \union Ledger) = {}
    BY DEF Selling, Ledger
  <2> QED
    BY <1>1, <2>1, <2>2, GoesAside, AsideKeeps
<1>4. CASE ReturnFlip(t)
  <2>1. PICK k : \/ SetProvisions(Row(t), {k} \intersect KeysWith(Row(t), "delivered"), "refunded")
                 \/ UNCHANGED prov
    BY <1>4 DEF ReturnFlip
  <2>2. \A q \in Reservations, i \in Keys :
          prov'[q][i] \in {"delivered", "refunded"} => prov[q][i] \in {"delivered", "refunded"}
    BY <1>1, <2>1 DEF SetProvisions, KeysWith, TypeOK, DbTypeOK
  <2>3. /\ pc[t] \notin Selling /\ UNCHANGED orders
        /\ StepOf(t) /\ pc'[t] \in {"ret_totals", "ret_flip"}
    BY <1>1, <1>4 DEF ReturnFlip, Selling, Continue, StepOf, TypeOK
  <2>4. Aside(t)
    BY <2>2, <2>3, NothingProvisioned DEF Aside, Selling, Ledger
  <2> QED
    BY <2>4, AsideKeeps
<1> QED
  BY <1>2, <1>3, <1>4 DEF ReturnSteps

\* Nothing changes.
LEMMA StutterRecord ==
  ASSUME NEW S \in SUBSET Reservations, RecordInv(S), UNCHANGED vars
  PROVE  RecordInv(S)'
  BY DEF RecordInv, StatusIsRecorded, LedgerIsRecorded, ProvisionedIsRecorded, EverProvisioned,
         KeysWith, Recorded, Row, vars

\* At first nothing was provisioned or recorded.
LEMMA InitRecord ==
  ASSUME NEW S \in SUBSET Reservations, Init
  PROVE  RecordInv(S)
<1>1. \A t \in Tasks : pc[t] = "idle"
  BY DEF Init
<1>2. \A r \in Reservations : /\ \A k \in Keys : prov[r][k] = "none"
                              /\ orders[r].status = "none" /\ orders[r].rows = 0
  BY DEF Init, DbInit, NoOrderRow
<1> QED
  BY <1>1, <1>2 DEF RecordInv, StatusIsRecorded, LedgerIsRecorded, ProvisionedIsRecorded,
                    EverProvisioned, KeysWith, Ledger

-------------------------------------------------------------------------------
(* Reservations at rest.  When requests about one row follow each other and  *)
(* no call fails, a row that is not in the middle of a sale, a release or a  *)
(* return agrees with its provisions and its order.  U holds the rows whose  *)
(* delivery is no sale.                                                      *)

Reliable == {"crash", "rpc", "write", "refunds", "decrypt"} \intersect Faults = {}

\* the order says nothing of a sale
Unbooked(r) == /\ orders[r].status = "none" /\ orders[r].total = 0
               /\ orders[r].refunded = 0 /\ orders[r].events = {}

\* the order has the whole sale, of which some may be refunded
InBooks(r) == /\ orders[r].status \in {"fulfilled", "partially_refunded"}
              /\ orders[r].total = ProvisionedCount(r)
              /\ \A e \in orders[r].events : e <= orders[r].refunded

Sold(r, U) == IF r \in U THEN Unbooked(r) ELSE InBooks(r)

AllFaulty(r) == \A k \in KeysWith(r, "delivered") : keyState[k] = "faulty"

Rests(r, U) ==
  /\ resv[r] = "none" => Unbooked(r)
  /\ resv[r] = "pending" => KeysWith(r, "pending") # {} /\ Final(r) = {} /\ Unbooked(r)
  /\ resv[r] = "provisioned" =>
       /\ KeysWith(r, "delivered") # {} /\ Sold(r, U)
       /\ r \notin U => orders[r].refunded = RefundedCount(r)
  /\ resv[r] \in Closed =>
       /\ AllFaulty(r)
       /\ \/ Unbooked(r) /\ (r \in U \/ Final(r) = {})
          \/ /\ orders[r].status = "refunded" /\ orders[r].total = ProvisionedCount(r)
             /\ orders[r].refunded = orders[r].total

\* labels between two writes that belong together
Midway == {"prov_decrypt", "sale_check", "sale_insert", "release_status", "ret_flip",
           "ret_totals", "ledger_read", "ledger_insert", "ledger_status", "ret_final"}

AllRest(U) ==
  \A r \in Reservations : (\A t \in Tasks : Row(t) = r => pc[t] \notin Midway) => Rests(r, U)

-------------------------------------------------------------------------------
(* What holds of the row of a task at label l with locals j.                 *)

OpenStage(l, j) ==
  /\ l \in {"claim", "jit", "claim_retry"} => j.qty >= 1
  /\ l = "prov_read" => resv[j.row] \in {"pending"} \union Closed
  /\ l = "prov_finalize" => j.keys = KeysWith(j.row, "pending") /\ j.keys # {}
  /\ l = "release" => resv[j.row] \in {"pending"} \union Closed
  /\ l = "refund_read" => resv[j.row] = "provisioned"
  /\ l = "refund_cancel" => resv[j.row] \in Closed
  /\ \A q \in j.batch : resv[q] = "pending"
  /\ j.row \notin j.batch

SaleStage(l, j, U) ==
  /\ l \in {"prov_decrypt", "sale_check", "sale_insert"} =>
       /\ resv[j.row] = "provisioned" /\ j.keys # {} /\ j.keys = KeysWith(j.row, "delivered")
       /\ KeysWith(j.row, "refunded") = {} /\ Unbooked(j.row)
  /\ l \in {"sale_check", "sale_insert"} => j.row \notin U
  /\ l = "release_status" =>
       \/ resv[j.row] = "pending" /\ Final(j.row) = {} /\ Unbooked(j.row)
       \/ resv[j.row] \in Closed /\ Rests(j.row, U)

\* what a return still takes back: all there is, or what a count of refunds asks for
Due(l, j) ==
  LET asked == IF l = "ret_read" THEN j.qty ELSE Cardinality(j.keys) IN
    IF j.event = 0
    THEN IF l = "ret_read" THEN j.qty = 0 ELSE j.keys = KeysWith(j.row, "delivered")
    ELSE /\ asked >= 1 /\ RefundedCount(j.row) + asked = j.event
         /\ j.event <= ProvisionedCount(j.row)

ReturnStage(l, j, U) ==
  /\ l \in {"ret_read", "ret_restock", "ret_flip"} => resv[j.row] = "provisioned" /\ Due(l, j)
  /\ l \in {"ret_restock", "ret_flip"} =>
       j.keys # {} /\ j.keys \subseteq KeysWith(j.row, "delivered")
  /\ l = "ret_flip" =>
       /\ Sold(j.row, U) /\ j.count >= 1
       /\ j.row \notin U => orders[j.row].refunded < RefundedCount(j.row) + Cardinality(j.keys)
  /\ l = "ret_totals" =>
       /\ resv[j.row] = "provisioned" /\ Sold(j.row, U)
       /\ \/ /\ j.keys = {} /\ j.count >= 1 /\ RefundedCount(j.row) >= 1
             /\ j.row \notin U => orders[j.row].refunded < RefundedCount(j.row)
             /\ j.event \in {0, RefundedCount(j.row)}
          \/ /\ j.keys # {} /\ j.keys = KeysWith(j.row, "delivered") /\ AllFaulty(j.row)
             /\ j.count = 0 /\ j.event = 0
             /\ j.row \notin U => orders[j.row].refunded = RefundedCount(j.row)

LedgerStage(l, j, U) ==
  /\ l \in {"ledger_read", "ledger_insert", "ledger_status", "ret_final"} =>
       /\ resv[j.row] = "provisioned"
       /\ j.den >= 1 /\ j.den = ProvisionedCount(j.row) /\ j.num <= j.den
       /\ j.num = RefundedCount(j.row) \/ (j.num = j.den /\ AllFaulty(j.row))
  /\ l \in {"ledger_read", "ledger_insert", "ledger_status"} => Sold(j.row, U)
  /\ l = "ledger_read" /\ j.row \notin U =>
       /\ orders[j.row].refunded <= j.num
       /\ orders[j.row].refunded < j.num => j.event \in {0, j.num}
  /\ l = "ledger_insert" =>
       /\ j.row \notin U /\ orders[j.row].refunded < j.num
       /\ j.delta = j.num - orders[j.row].refunded
       /\ j.event \in {0, j.num}
  /\ l = "ledger_status" => j.row \notin U /\ orders[j.row].refunded = j.num
  /\ l = "ret_final" =>
       IF j.row \in U THEN Unbooked(j.row)
       ELSE /\ orders[j.row].total = j.den /\ orders[j.row].refunded = j.num
            /\ \A e \in orders[j.row].events : e <= orders[j.row].refunded
            /\ orders[j.row].status = IF j.num >= j.den THEN "refunded" ELSE "partially_refunded"

Stage(l, j, U) ==
  OpenStage(l, j) /\ SaleStage(l, j, U) /\ ReturnStage(l, j, U) /\ LedgerStage(l, j, U)

\* a key that is held was not given to anyone else since, at most marked faulty
HeldStates ==
  \A r \in Reservations, k \in Keys : Holds(r, k) =>
    keyState[k] \in {IF prov[r][k] = "pending" THEN "seller_reserved" ELSE "seller_provisioned",
                     "faulty"}

Busy(t, r) == Row(t) = r \/ r \in job[t].batch

\* nobody else works on a row that somebody works on
Alone == \A t, u \in Tasks, r \in Reservations : Busy(t, r) /\ Busy(u, r) => t = u

RestInv(U) ==
  /\ HeldStates /\ Alone /\ AllRest(U)
  /\ \A t \in Tasks : Stage(pc[t], job[t], U)

-------------------------------------------------------------------------------
(* Rows a step leaves alone.                                                 *)

\* no return is flipping provisions of the row
NotTaken(q) == \A u \in Tasks : pc[u] = "ret_flip" => Row(u) # q

SameBooks(q) ==
  /\ orders'[q].status = orders[q].status /\ orders'[q].total = orders[q].total
  /\ orders'[q].refunded = orders[q].refunded /\ orders'[q].events = orders[q].events

Leaves(q) ==
  /\ prov'[q] = prov[q] /\ resv'[q] = resv[q] /\ SameBooks(q)
  /\ NotTaken(q) => \A k \in KeysWith(q, "delivered") : keyState[k] = "faulty" => keyState'[k] = "faulty"

\* What is said of a row that is left alone stays true.
LEMMA LeftAlone ==
  ASSUME NEW q, NEW U, Leaves(q)
  PROVE  /\ \A s : KeysWith(q, s)' = KeysWith(q, s)
         /\ Final(q)' = Final(q)
         /\ RefundedCount(q)' = RefundedCount(q) /\ ProvisionedCount(q)' = ProvisionedCount(q)
         /\ Unbooked(q)' = Unbooked(q) /\ InBooks(q)' = InBooks(q) /\ Sold(q, U)' = Sold(q, U)
         /\ NotTaken(q) /\ AllFaulty(q) => AllFaulty(q)'
<1>1. \A s : KeysWith(q, s)' = KeysWith(q, s)
  BY DEF Leaves, KeysWith
<1>2. RefundedCount(q)' = RefundedCount(q) /\ ProvisionedCount(q)' = ProvisionedCount(q)
  BY <1>1 DEF RefundedCount, ProvisionedCount
<1>3. Unbooked(q)' = Unbooked(q) /\ InBooks(q)' = InBooks(q)
  BY <1>2 DEF Leaves, SameBooks, Unbooked, InBooks
<1> QED BY <1>1, <1>2, <1>3 DEF Final, Sold, AllFaulty, Leaves

\* A row at rest stays at rest.
LEMMA RestsOn ==
  ASSUME NEW q, NEW U, Leaves(q), Rests(q, U), resv[q] \in Closed => NotTaken(q)
  PROVE  Rests(q, U)'
<1>1. resv'[q] = resv[q] /\ SameBooks(q)
  BY DEF Leaves
<1> QED BY <1>1, LeftAlone DEF Rests, SameBooks

\* Labels whose stage speaks of faulty keys.
Counted == {"ret_totals", "ledger_read", "ledger_insert", "ledger_status", "ret_final"}

\* So does a task whose row is left alone.
LEMMA StageStays ==
  ASSUME NEW l \in Labels, NEW j \in Jobs, NEW U, Stage(l, j, U),
         l \notin Rowless => Leaves(j.row),
         l \in Counted => NotTaken(j.row),
         l = "release_status" /\ resv[j.row] \in Closed => NotTaken(j.row),
         \A q \in j.batch : resv'[q] = resv[q]
  PROVE  Stage(l, j, U)'
<1>1. CASE l \in Rowless
  BY <1>1 DEF Rowless, Stage, OpenStage, SaleStage, ReturnStage, LedgerStage
<1>2. CASE l \notin Rowless
  <2>1. resv'[j.row] = resv[j.row] /\ SameBooks(j.row)
    BY <1>2 DEF Leaves
  <2> DEFINE r == j.row
  <2>2. /\ \A s : KeysWith(r, s)' = KeysWith(r, s)
        /\ Final(r)' = Final(r)
        /\ RefundedCount(r)' = RefundedCount(r) /\ ProvisionedCount(r)' = ProvisionedCount(r)
        /\ Unbooked(r)' = Unbooked(r) /\ InBooks(r)' = InBooks(r) /\ Sold(r, U)' = Sold(r, U)
        /\ NotTaken(r) /\ AllFaulty(r) => AllFaulty(r)'
    BY <1>2, LeftAlone
  <2>3. OpenStage(l, j)'
    BY <2>1, <2>2 DEF Stage, OpenStage
  <2>4. SaleStage(l, j, U)'
    <3>1. l = "release_status" /\ resv[r] \in Closed /\ Rests(r, U) => Rests(r, U)'
      BY <1>2, RestsOn
    <3> QED BY <2>1, <2>2, <3>1 DEF Stage, SaleStage
  <2>5. ReturnStage(l, j, U)'
    <3>1. Due(l, j)' = Due(l, j)
      BY <2>2 DEF Due
    <3> QED BY <2>1, <2>2, <3>1 DEF Stage, ReturnStage, SameBooks, Counted
  <2>6. LedgerStage(l, j, U)'
    BY <2>1, <2>2 DEF Stage, LedgerStage, SameBooks, Counted
  <2> QED BY <2>3, <2>4, <2>5, <2>6 DEF Stage
<1> QED BY <1>1, <1>2

\* The row of the task that moves.
LEMMA OwnRow ==
  ASSUME KeyOpsInv, NEW U, RestInv(U), NEW t \in Tasks, pc[t] \notin Rowless
  PROVE  /\ Row(t) \in Reservations /\ job[t].row = Row(t) /\ Stage(pc[t], job[t], U)
         /\ \A u \in Tasks : u # t => Row(u) # Row(t)
         /\ pc[t] \notin Midway => Rests(Row(t), U)
<1>1. Row(t) \in Reservations /\ job[t].row = Row(t)
  BY Mover DEF Relies, Row
<1>2. \A u \in Tasks : u # t => Row(u) # Row(t)
  BY <1>1 DEF RestInv, Alone, Busy
<1>3. pc[t] \notin Midway => Rests(Row(t), U)
  BY <1>1, <1>2 DEF RestInv, AllRest
<1> QED BY <1>1, <1>2, <1>3 DEF RestInv

\* A closed row is not being returned.
LEMMA ClosedNotTaken ==
  ASSUME NEW U, RestInv(U), NEW q, resv[q] \in Closed
  PROVE  NotTaken(q)
<1> SUFFICES ASSUME NEW u \in Tasks, pc[u] = "ret_flip", Row(u) = q
             PROVE  FALSE
  BY DEF NotTaken
<1>1. resv[q] = "provisioned"
  BY DEF RestInv, Stage, ReturnStage, Row
<1> QED BY <1>1 DEF Closed

\* A step that leaves all rows but its own alone, and its own in order, keeps
\* the rows at rest and the stages of all tasks.
LEMMA FrameKeeps ==
  ASSUME KeyOpsInv, NEW U, RestInv(U), NEW t \in Tasks, StepOf(t),
         NEW r, r = Row(t), NEW m, m = pc'[t], NEW i, i = job'[t],
         \A q \in Reservations : q # r => Leaves(q),
         r \in Reservations => Rests(r, U)' \/ (i.row = r /\ m \in Midway),
         Stage(m, i, U)', HeldStates', Alone'
  PROVE  RestInv(U)'
<1>1. AllRest(U)'
  <2> SUFFICES ASSUME NEW q \in Reservations, \A u \in Tasks : job'[u].row = q => pc'[u] \notin Midway
               PROVE  Rests(q, U)'
    BY DEF AllRest, Row
  <2>1. CASE q = r
    BY <2>1
  <2>2. CASE q # r
    <3>1. \A u \in Tasks : Row(u) = q => pc[u] \notin Midway
      BY <2>2 DEF StepOf, Row
    <3>2. Rests(q, U)
      BY <3>1 DEF RestInv, AllRest
    <3>3. resv[q] \in Closed => NotTaken(q)
      BY ClosedNotTaken
    <3> QED BY <2>2, <3>2, <3>3, RestsOn
  <2> QED BY <2>1, <2>2
<1>2. ASSUME NEW u \in Tasks
      PROVE  Stage(pc[u], job[u], U)'
  <2>1. CASE u = t
    BY <2>1
  <2>2. CASE u # t
    <3>1. PICK l \in Labels : l = pc[u]
      BY Mover
    <3>2. PICK j \in Jobs : j = job[u]
      BY Mover
    <3>3. pc'[u] = l /\ job'[u] = j /\ Stage(l, j, U)
      BY <2>2, <3>1, <3>2 DEF StepOf, RestInv
    <3>4. l \notin Rowless => j.row \in Reservations /\ Leaves(j.row)
      BY <2>2, <3>1, <3>2, OwnRow DEF Row
    <3>5. l \notin Rowless /\ l # "ret_flip" => NotTaken(j.row)
      BY <3>1, <3>2, OwnRow DEF NotTaken, Row
    <3>6. l \in Counted \union {"release_status"} => l \notin Rowless /\ l # "ret_flip"
      BY DEF Counted, Rowless
    <3>7. \A q \in j.batch : resv'[q] = resv[q]
      <4> SUFFICES ASSUME NEW q \in j.batch PROVE resv'[q] = resv[q]
        OBVIOUS
      <4>1. q \in Reservations
        BY DEF Jobs
      <4>2. q # r
        BY <2>2, <3>2, <4>1 DEF RestInv, Alone, Busy
      <4> QED BY <4>1, <4>2 DEF Leaves
    <3>8. Stage(l, j, U)'
      BY <3>3, <3>4, <3>5, <3>6, <3>7, StageStays
    <3> QED BY <3>3, <3>8
  <2> QED BY <2>1, <2>2
<1> QED BY <1>1, <1>2 DEF RestInv

\* Nobody starts on a row that another task works on.
LEMMA AloneStays ==
  ASSUME Alone, NEW t \in Tasks, StepOf(t),
         \A q \in Reservations : job'[t].row = q \/ q \in job'[t].batch =>
            \A u \in Tasks : u # t => ~Busy(u, q)
  PROVE  Alone'
<1> SUFFICES ASSUME NEW u \in Tasks, NEW v \in Tasks, NEW r \in Reservations, Busy(u, r)', Busy(v, r)'
             PROVE  u = v
  BY DEF Alone
<1>1. \A w \in Tasks : Busy(w, r)' => IF w = t THEN \A x \in Tasks : x # t => ~Busy(x, r) ELSE Busy(w, r)
  BY DEF StepOf, Busy, Row
<1> QED BY <1>1 DEF Alone

\* A task that forgets everything works on nothing.
LEMMA NothingLeft ==
  /\ \A q \in Reservations : ~(NoJob.row = q \/ q \in NoJob.batch)
  /\ NoJob.row = NoRow /\ NoJob.batch = {} /\ NoJob \in Jobs
  /\ NoJob.keys = {} /\ NoJob.event = 0 /\ NoJob.qty = 0
BY NoRowIsNoRow DEF NoJob, Jobs, ReservationStates

\* A task at rest has no stage to keep.
LEMMA IdleStage ==
  ASSUME NEW U
  PROVE  Stage("idle", NoJob, U)'
BY NothingLeft DEF Stage, OpenStage, SaleStage, ReturnStage, LedgerStage

\* Every step: it goes on with its row or leaves it at rest, and takes up rows
\* nobody else works on.
LEMMA StepRests ==
  ASSUME KeyOpsInv, NEW U, RestInv(U), NEW t \in Tasks, NEW l, NEW j, Continue(t, l, j),
         NEW r, r = Row(t),
         \A q \in Reservations : q # r => Leaves(q),
         r \in Reservations => Rests(r, U)' \/ (j.row = r /\ l \in Midway),
         l # "idle" => Stage(l, j, U)',
         l # "idle" => \A q \in Reservations : j.row = q \/ q \in j.batch =>
                          \A u \in Tasks : u # t => ~Busy(u, q),
         HeldStates'
  PROVE  RestInv(U)'
<1>1. StepOf(t) /\ pc'[t] = l /\ job'[t] = IF l = "idle" THEN NoJob ELSE j
  BY DEF Continue, StepOf, KeyOpsInv, TypeOK
<1>2. PICK i : i = IF l = "idle" THEN NoJob ELSE j
  OBVIOUS
<1>3. Stage(l, i, U)'
  BY <1>2, IdleStage
<1>4. Alone'
  BY <1>1, NothingLeft, AloneStays DEF RestInv
<1>5. r \in Reservations => Rests(r, U)' \/ (i.row = r /\ l \in Midway)
  BY <1>2 DEF Midway
<1> QED BY <1>1, <1>2, <1>3, <1>4, <1>5, FrameKeeps

\* A task's own rows are nobody else's.
LEMMA OwnRows ==
  ASSUME Alone, NEW t \in Tasks, NEW j, j.row = Row(t), j.batch \subseteq job[t].batch
  PROVE  \A q \in Reservations : j.row = q \/ q \in j.batch => \A u \in Tasks : u # t => ~Busy(u, q)
BY DEF Alone, Busy

-------------------------------------------------------------------------------
(* Steps that write nothing.                                                 *)

\* What is said of rows depends on the tables alone.
LEMMA SameTables ==
  ASSUME NEW U, UNCHANGED <<keyState, prov, resv>>, \A q \in Reservations : SameBooks(q)
  PROVE  \A q \in Reservations : Leaves(q) /\ (Rests(q, U) => Rests(q, U)')
<1> SUFFICES ASSUME NEW q \in Reservations
             PROVE  Leaves(q) /\ (Rests(q, U) => Rests(q, U)')
  OBVIOUS
<1>1. Leaves(q) /\ (AllFaulty(q) => AllFaulty(q)')
  BY DEF Leaves, AllFaulty, KeysWith
<1> QED BY <1>1, LeftAlone DEF Rests, SameBooks, Leaves

\* labels whose stage says nothing of the row but what a claim asks for
Plain == {"idle", "claim", "jit", "claim_retry", "replay", "sale_credit", "sale_link", "reply",
          "repl_read", "repl_faulty", "repl_debit", "cron_next"}

\* So do the stages.
LEMMA SameStage ==
  ASSUME NEW U, NEW l, NEW j, Stage(l, j, U),
         UNCHANGED dbVars \/ (l \in Plain /\ UNCHANGED resv)
  PROVE  Stage(l, j, U)'
<1>1. CASE UNCHANGED dbVars
  <2>1. UNCHANGED <<prov, resv, orders, keyState>>
    BY <1>1 DEF dbVars
  <2>2. \A q, s : KeysWith(q, s)' = KeysWith(q, s)
    BY <2>1 DEF KeysWith
  <2>3. \A q : /\ Final(q)' = Final(q) /\ RefundedCount(q)' = RefundedCount(q)
               /\ ProvisionedCount(q)' = ProvisionedCount(q)
    BY <2>2 DEF Final, RefundedCount, ProvisionedCount
  <2>4. \A q : /\ Unbooked(q)' <=> Unbooked(q)
               /\ InBooks(q)' <=> InBooks(q)
               /\ AllFaulty(q)' <=> AllFaulty(q)
    BY <2>1, <2>2, <2>3 DEF Unbooked, InBooks, AllFaulty
  <2>5. \A q : Sold(q, U)' <=> Sold(q, U)
    BY <2>4 DEF Sold
  <2>6. \A q : Rests(q, U)' <=> Rests(q, U)
    BY <2>1, <2>2, <2>3, <2>4, <2>5 DEF Rests
  <2>7. OpenStage(l, j)'
    BY <2>1, <2>2 DEF Stage, OpenStage
  <2>8. SaleStage(l, j, U)'
    BY <2>1, <2>2, <2>3, <2>4, <2>6 DEF Stage, SaleStage
  <2>9. ReturnStage(l, j, U)'
    <3>1. Due(l, j)' <=> Due(l, j)
      BY <2>2, <2>3 DEF Due
    <3> QED BY <2>1, <2>2, <2>3, <2>4, <2>5, <3>1 DEF Stage, ReturnStage
  <2>10. LedgerStage(l, j, U)'
    BY <2>1, <2>2, <2>3, <2>4, <2>5 DEF Stage, LedgerStage
  <2> QED BY <2>7, <2>8, <2>9, <2>10 DEF Stage
<1>2. CASE l \in Plain /\ UNCHANGED resv
  BY <1>2 DEF Plain, Stage, OpenStage, SaleStage, ReturnStage, LedgerStage
<1> QED BY <1>1, <1>2

\* What a plain label asks for.
LEMMA PlainStage ==
  ASSUME NEW U, NEW l \in Plain, NEW j,
         l \in {"claim", "jit", "claim_retry"} => j.qty >= 1,
         \A q \in j.batch : resv[q] = "pending", j.row \notin j.batch
  PROVE  Stage(l, j, U)
BY DEF Plain, Stage, OpenStage, SaleStage, ReturnStage, LedgerStage

\* Holders stay, and so do the states of their keys, unless the step writes them.
LEMMA HeldStay ==
  ASSUME HeldStates, NEW t \in Tasks, StepOf(t), pc[t] # "ret_flip", UNCHANGED prov,
         \A k \in Keys : keyState'[k] # keyState[k] =>
            keyState'[k] = "faulty" \/ \A q \in Reservations : ~Holds(q, k)
  PROVE  HeldStates'
<1>1. \A r \in Reservations, k \in Keys : Holds(r, k)' => Holds(r, k)
  BY HoldersStay
<1> QED BY <1>1 DEF HeldStates

\* A step that writes nothing of what the invariant speaks of.
LEMMA WritesNothing ==
  ASSUME KeyOpsInv, NEW U, RestInv(U), NEW t \in Tasks, NEW l, NEW j, Continue(t, l, j),
         UNCHANGED <<keyState, prov, resv>>, \A q \in Reservations : SameBooks(q),
         pc[t] # "ret_flip",
         pc[t] \in Midway => (l \in Midway /\ j.row = Row(t)) \/ Rests(Row(t), U),
         l # "idle" => Stage(l, j, U)',
         l # "idle" => \A q \in Reservations : j.row = q \/ q \in j.batch =>
                          \A u \in Tasks : u # t => ~Busy(u, q)
  PROVE  RestInv(U)'
<1>1. PICK r : r = Row(t)
  OBVIOUS
<1>2. StepOf(t)
  BY DEF Continue, StepOf, KeyOpsInv, TypeOK
<1>3. HeldStates'
  BY <1>2, HeldStay DEF RestInv
<1>4. r \in Reservations => Rests(r, U)' \/ (j.row = r /\ l \in Midway)
  <2>1. CASE pc[t] \in Midway
    BY <1>1, <2>1, SameTables
  <2>2. CASE pc[t] \notin Midway
    <3>1. r \in Reservations => Rests(r, U)
      BY <1>1, <2>2 DEF RestInv, Alone, Busy, AllRest
    <3> QED BY <3>1, SameTables
  <2> QED BY <2>1, <2>2
<1>5. \A q \in Reservations : Leaves(q)
  BY SameTables
<1> QED BY <1>1, <1>3, <1>4, <1>5, StepRests

\* A step that writes no table at all, and ends or goes on with its row.
LEMMA GoesOn ==
  ASSUME KeyOpsInv, NEW U, RestInv(U), NEW t \in Tasks, NEW l, NEW j, Continue(t, l, j),
         UNCHANGED dbVars, pc[t] # "ret_flip",
         pc[t] \in Midway => l \in Midway \/ Rests(Row(t), U),
         l # "idle" => Stage(l, j, U) /\ j.row = Row(t) /\ j.batch \subseteq job[t].batch
  PROVE  RestInv(U)'
<1>1. l # "idle" => Stage(l, j, U)'
  BY SameStage
<1>2. l # "idle" => \A q \in Reservations : j.row = q \/ q \in j.batch =>
                       \A u \in Tasks : u # t => ~Busy(u, q)
  BY OwnRows DEF RestInv
<1>3. pc[t] \in Midway => (l \in Midway /\ j.row = Row(t)) \/ Rests(Row(t), U)
  BY DEF Midway
<1>4. UNCHANGED <<keyState, prov, resv>> /\ \A q \in Reservations : SameBooks(q)
  BY DEF dbVars, SameBooks
<1> QED BY <1>1, <1>2, <1>3, <1>4, WritesNothing

\* Counting part of a set of keys.
LEMMA PartCount ==
  ASSUME NEW D \in SUBSET Keys, NEW S \in SUBSET D
  PROVE  /\ Cardinality(S) \in Nat /\ Cardinality(D) \in Nat
         /\ Cardinality(S) <= Cardinality(D)
         /\ Cardinality(S) = Cardinality(D) => S = D
         /\ Cardinality(S) = 0 <=> S = {}
<1>1. IsFiniteSet(D) /\ IsFiniteSet(S)
  BY KeysFinite, FS_Subset
<1> QED BY <1>1, KeysCount, FS_Subset, FS_EmptySet

\* The counts of a row.
LEMMA RowCounts ==
  ASSUME NEW r
  PROVE  /\ RefundedCount(r) \in Nat /\ Cardinality(KeysWith(r, "delivered")) \in Nat
         /\ ProvisionedCount(r) = RefundedCount(r) + Cardinality(KeysWith(r, "delivered"))
         /\ Cardinality(KeysWith(r, "delivered")) = 0 <=> KeysWith(r, "delivered") = {}
         /\ RefundedCount(r) = 0 <=> KeysWith(r, "refunded") = {}
<1>1. KeysWith(r, "delivered") \in SUBSET Keys /\ KeysWith(r, "refunded") \in SUBSET Keys
  BY DEF KeysWith
<1> QED BY <1>1, PartCount DEF RefundedCount, ProvisionedCount

\* A row at rest that was provisioned, while its task reads.
LEMMA RestingRow ==
  ASSUME KeyOpsInv, NEW U, RestInv(U), NEW t \in Tasks, pc[t] \notin Rowless \union Midway,
         resv[Row(t)] = "provisioned"
  PROVE  /\ KeysWith(Row(t), "delivered") # {} /\ Sold(Row(t), U)
         /\ Row(t) \notin U => orders[Row(t)].refunded = RefundedCount(Row(t))
BY OwnRow DEF Rests, Closed

\* The batch and the row of a task, as it goes on with other locals.
LEMMA OpenRows ==
  ASSUME KeyOpsInv, NEW U, RestInv(U), NEW t \in Tasks
  PROVE  (\A q \in job[t].batch : resv[q] = "pending") /\ job[t].row \notin job[t].batch
BY DEF RestInv, Stage, OpenStage

\* A task ends, having left its row at rest.
LEMMA Ends ==
  ASSUME KeyOpsInv, NEW U, RestInv(U), NEW t \in Tasks, Goto(t, "idle"), UNCHANGED dbVars,
         pc[t] \notin Midway
  PROVE  RestInv(U)'
<1>1. pc[t] # "ret_flip"
  BY DEF Midway
<1>2. PICK j : j = job[t]
  OBVIOUS
<1> QED BY <1>1, <1>2, GoesOn DEF Goto

\* A task goes on with its row and its locals at a label with a plain stage.
LEMMA PlainOn ==
  ASSUME KeyOpsInv, NEW U, RestInv(U), NEW t \in Tasks, NEW l \in Plain, NEW j,
         Continue(t, l, j), UNCHANGED dbVars, pc[t] \notin Midway,
         l \in {"claim", "jit", "claim_retry"} => j.qty >= 1,
         j.row = job[t].row, j.batch = job[t].batch
  PROVE  RestInv(U)'
<1>1. Stage(l, j, U)
  BY OpenRows, PlainStage
<1> QED BY <1>1, GoesOn DEF Row, Midway

\* A claim that finds nothing tries the next source.
LEMMA ClaimMissRests ==
  ASSUME KeyOpsInv, NEW U, RestInv(U), NEW t \in Tasks, pc[t] \in {"claim", "jit", "claim_retry"},
         UNCHANGED dbVars,
         \/ \E p : Continue(t, "claim", [job[t] EXCEPT !.pool = p])
         \/ \E l \in {"jit", "claim_retry", "idle"} : Goto(t, l)
  PROVE  RestInv(U)'
<1>1. pc[t] \notin Midway /\ job[t].qty >= 1 /\ job[t] \in Jobs
  BY Mover DEF Midway, RestInv, Stage, OpenStage
<1>2. CASE \E p : Continue(t, "claim", [job[t] EXCEPT !.pool = p])
  <2>1. PICK p : Continue(t, "claim", [job[t] EXCEPT !.pool = p])
    BY <1>2
  <2>2. PICK j : j = [job[t] EXCEPT !.pool = p]
    OBVIOUS
  <2>3. j.row = job[t].row /\ j.batch = job[t].batch /\ j.qty = job[t].qty
    BY <1>1, <2>2 DEF Jobs
  <2> QED BY <1>1, <2>1, <2>2, <2>3, PlainOn DEF Plain
<1>3. CASE \E l \in {"jit", "claim_retry", "idle"} : Goto(t, l)
  <2>1. PICK l \in {"jit", "claim_retry", "idle"} : Goto(t, l)
    BY <1>3
  <2>2. PICK j : j = job[t]
    OBVIOUS
  <2> QED BY <1>1, <2>1, <2>2, PlainOn DEF Plain, Goto
<1> QED BY <1>2, <1>3

\* What is pending is what will be finalized.
LEMMA ProvisionReadRests ==
  ASSUME KeyOpsInv, NEW U, RestInv(U), NEW t \in Tasks, NEW raised \in {"idle", "release"},
         ProvisionRead(t, raised)
  PROVE  RestInv(U)'
<1>1. /\ pc[t] = "prov_read" /\ UNCHANGED dbVars /\ job[t] \in Jobs
      /\ resv[job[t].row] \in {"pending"} \union Closed
  BY Mover DEF ProvisionRead, RestInv, Stage, OpenStage
<1>2. pc[t] \notin Midway
  BY <1>1 DEF Midway
<1>3. CASE KeysWith(Row(t), "pending") = {}
  <2>1. PICK j : j = job[t]
    OBVIOUS
  <2>2. Continue(t, raised, j)
    BY <1>3, <2>1 DEF ProvisionRead, Goto
  <2>3. Stage("release", j, U)
    BY <1>1, <2>1, OpenRows DEF Stage, OpenStage, SaleStage, ReturnStage, LedgerStage
  <2> QED BY <1>1, <1>2, <2>1, <2>2, <2>3, GoesOn DEF Row
<1>4. CASE KeysWith(Row(t), "pending") # {}
  <2>1. PICK j : j = [job[t] EXCEPT !.keys = KeysWith(Row(t), "pending")]
    OBVIOUS
  <2>2. j.row = job[t].row /\ j.batch = job[t].batch /\ j.keys = KeysWith(j.row, "pending")
    BY <1>1, <2>1 DEF Jobs, Row
  <2>3. Stage("prov_finalize", j, U)
    BY <1>1, <1>4, <2>2, OpenRows DEF Stage, OpenStage, SaleStage, ReturnStage, LedgerStage, Row
  <2> QED BY <1>1, <1>2, <1>4, <2>1, <2>2, <2>3, GoesOn DEF ProvisionRead, Row
<1> QED BY <1>3, <1>4

\* Keys that are decrypted are sold; those of a row of U are a delivery without
\* a sale.
LEMMA ProvisionDecryptRests ==
  ASSUME KeyOpsInv, NEW U, RestInv(U), "decrypt" \notin Faults, NEW t \in Tasks,
         NEW ok, NEW raised,
         (ok = "sale_check" /\ Row(t) \notin U) \/ (ok = "reply" /\ Row(t) \in U),
         ProvisionDecrypt(t, ok, raised)
  PROVE  RestInv(U)'
<1>1. pc[t] = "prov_decrypt" /\ UNCHANGED dbVars /\ Goto(t, ok)
  BY DEF ProvisionDecrypt, CanFail
<1>2. PICK j : j = job[t]
  OBVIOUS
<1>3. /\ j.row = Row(t) /\ resv[j.row] = "provisioned"
      /\ j.keys # {} /\ j.keys = KeysWith(j.row, "delivered")
      /\ KeysWith(j.row, "refunded") = {} /\ Unbooked(j.row)
  BY <1>1, <1>2 DEF RestInv, Stage, SaleStage, Row
<1>4. CASE ok = "sale_check" /\ Row(t) \notin U
  <2>1. Stage("sale_check", j, U)
    BY <1>2, <1>3, <1>4, OpenRows DEF Stage, OpenStage, SaleStage, ReturnStage, LedgerStage
  <2> QED BY <1>1, <1>2, <1>3, <1>4, <2>1, GoesOn DEF Goto, Midway
<1>5. CASE ok = "reply" /\ Row(t) \in U
  <2>1. Stage("reply", j, U)
    BY <1>2, OpenRows, PlainStage DEF Plain
  <2>2. Rests(Row(t), U)
    BY <1>3, <1>5 DEF Rests, Sold, Closed
  <2> QED BY <1>1, <1>2, <1>3, <1>5, <2>1, <2>2, GoesOn DEF Goto
<1> QED BY <1>4, <1>5

\* Answers change nothing.
LEMMA AnswerRests ==
  ASSUME KeyOpsInv, NEW U, RestInv(U), NEW t \in Tasks, Replay(t) \/ Reply(t)
  PROVE  RestInv(U)'
<1>1. UNCHANGED dbVars /\ pc[t] \notin Midway
  BY DEF Replay, Reply, Midway
<1>2. CASE Goto(t, "idle")
  BY <1>1, <1>2, Ends
<1>3. CASE Continue(t, "reply", [job[t] EXCEPT !.keys = KeysWith(Row(t), "delivered")])
  <2>1. PICK j : j = [job[t] EXCEPT !.keys = KeysWith(Row(t), "delivered")]
    OBVIOUS
  <2>2. j.row = job[t].row /\ j.batch = job[t].batch
    BY <2>1, Mover DEF Jobs
  <2> QED BY <1>1, <1>3, <2>1, <2>2, PlainOn DEF Plain
<1> QED BY <1>2, <1>3 DEF Replay, Reply

\* A step that writes the row r alone, and makes no key good again that another
\* row was given.
LEMMA LeavesOthers ==
  ASSUME NEW r,
         \A q \in Reservations : q # r =>
           /\ prov'[q] = prov[q] /\ resv'[q] = resv[q] /\ SameBooks(q)
           /\ \A k \in Keys : prov[q][k] = "delivered" /\ keyState[k] = "faulty" /\ NotTaken(q)
                                => keyState'[k] = "faulty"
  PROVE  \A q \in Reservations : q # r => Leaves(q)
BY DEF Leaves, KeysWith

\* A delivered key whose row no return is flipping is held.
LEMMA DeliveredIsHeld ==
  ASSUME NEW q \in Reservations, NEW k \in Keys, prov[q][k] = "delivered", NotTaken(q)
  PROVE  Holds(q, k)
BY DEF Holds, Returning, NotTaken

\* A claim leaves its row pending, with keys.
LEMMA ClaimFromRests ==
  ASSUME KeyOpsInv, StockInv, NEW U, RestInv(U), NEW t \in Tasks, NEW pool,
         pc[t] \in {"claim", "claim_retry"}, ClaimFrom(t, pool, "idle")
  PROVE  RestInv(U)'
<1>1. PICK r \in Reservations : r = Row(t)
  BY Mover DEF Relies, Rowless, Row
<1>2. PICK S \in SUBSET Claimable(pool) : Cardinality(S) = job[t].qty /\ ClaimAndReserve(r, S)
  BY <1>1 DEF ClaimFrom
<1>3. /\ resv[r] = "none" /\ \A k \in Keys : prov[r][k] = "none"
      /\ prov \in [Reservations -> [Keys -> ProvisionStates]]
      /\ resv \in [Reservations -> ReservationStates]
  BY <1>1 DEF ClaimFrom, KeyOpsInv, RowsMatchProvisions, TypeOK, DbTypeOK
<1>4. S # {} /\ \A k \in S : k \in Keys /\ keyState[k] \in Free
  <2>1. S \in SUBSET Keys /\ Cardinality(S) >= 1
    BY <1>2 DEF Claimable, RestInv, Stage, OpenStage
  <2> QED BY <1>2, <2>1, FS_EmptySet DEF Claimable, Free
<1>5. \A q \in Reservations, k \in Keys :
        prov'[q][k] = IF q = r /\ k \in S THEN "pending" ELSE prov[q][k]
  BY <1>2, <1>3 DEF ClaimAndReserve, SetProvisions
<1>6. \A q \in Reservations : /\ q # r => prov'[q] = prov[q]
                              /\ resv'[q] = IF q = r THEN "pending" ELSE resv[q]
                              /\ SameBooks(q)
  BY <1>2, <1>3 DEF ClaimAndReserve, SetProvisions, SetReservation, SameBooks
<1>7. \A k \in Keys : keyState'[k] = IF k \in S THEN "seller_reserved" ELSE keyState[k]
  BY <1>2 DEF ClaimAndReserve, SetKeys
<1>8. \A q \in Reservations : q # r => Leaves(q)
  BY <1>4, <1>6, <1>7, LeavesOthers DEF Free
<1>9. HeldStates'
  <2>1. StepOf(t)
    BY DEF ClaimFrom, Goto, Continue, StepOf, KeyOpsInv, TypeOK
  <2>2. \A q \in Reservations, k \in Keys : Returning(q, k) => Returning(q, k)'
    BY <2>1, <1>1 DEF ClaimFrom, Returning, StepOf, Row
  <2>3. \A q \in Reservations, k \in Keys :
          Holds(q, k)' => (Holds(q, k) /\ prov'[q][k] = prov[q][k]) \/ (q = r /\ k \in S)
    BY <1>5, <2>2 DEF Holds
  <2>4. \A k \in S : \A q \in Reservations : ~Holds(q, k)
    BY <1>4 DEF StockInv, FreeIsUnheld
  <2> QED BY <1>5, <1>7, <2>3, <2>4 DEF HeldStates, RestInv
<1>10. Rests(r, U)'
  <2>1. Unbooked(r)
    BY <1>1, <1>3, OwnRow DEF Rests, Midway, Rowless
  <2>2. Unbooked(r)'
    BY <1>2, <2>1 DEF Unbooked, ClaimAndReserve
  <2>3. KeysWith(r, "pending")' # {} /\ Final(r)' = {}
    BY <1>3, <1>4, <1>5 DEF KeysWith, Final
  <2> QED BY <1>6, <2>2, <2>3 DEF Rests, Closed
<1>11. PICK j : j = job[t]
  OBVIOUS
<1> QED BY <1>1, <1>8, <1>9, <1>10, <1>11, StepRests DEF ClaimFrom, Goto

\* Bought keys are nobody's.
LEMMA JitPurchaseRests ==
  ASSUME KeyOpsInv, StockInv, NEW U, RestInv(U), NEW t \in Tasks, JitPurchase(t, "idle")
  PROVE  RestInv(U)'
<1>1. CASE Goto(t, "idle") /\ UNCHANGED dbVars
  BY <1>1, ClaimMissRests DEF JitPurchase
<1>2. CASE ~(Goto(t, "idle") /\ UNCHANGED dbVars)
  <2>1. PICK S \in SUBSET {k \in Keys : keyState[k] = "absent"} : SetKeys(S, "available")
    BY <1>2 DEF JitPurchase
  <2>2. /\ pc[t] = "jit" /\ Goto(t, "claim_retry") /\ UNCHANGED <<prov, resv, orders>>
    BY <1>2 DEF JitPurchase, rowVars
  <2>3. PICK j : j = job[t]
    OBVIOUS
  <2>4. PICK r \in Reservations : r = Row(t)
    BY <2>2, Mover DEF Relies, Rowless, Row
  <2>5. \A k \in Keys : keyState'[k] # keyState[k] => keyState[k] = "absent"
    BY <2>1 DEF SetKeys
  <2>6. \A q \in Reservations : Leaves(q)
    BY <2>2, <2>5 DEF Leaves, SameBooks, KeysWith
  <2>7. HeldStates'
    <3>1. StepOf(t)
      BY <2>2 DEF Goto, Continue, StepOf, KeyOpsInv, TypeOK
    <3>2. \A k \in Keys : keyState'[k] # keyState[k] => \A q \in Reservations : ~Holds(q, k)
      BY <2>5 DEF StockInv, FreeIsUnheld, Free
    <3> QED BY <2>2, <3>1, <3>2, HeldStay DEF RestInv
  <2>8. Rests(r, U)'
    <3>1. Rests(r, U)
      BY <2>2, <2>4, OwnRow DEF Midway, Rowless
    <3> QED BY <2>6, <3>1, RestsOn, ClosedNotTaken
  <2>9. Stage("claim_retry", j, U)'
    <3>1. Stage("claim_retry", j, U)
      BY <2>2, <2>3, OpenRows, PlainStage DEF Plain, RestInv, Stage, OpenStage
    <3> QED BY <2>2, <3>1, SameStage DEF Plain
  <2>10. \A q \in Reservations : j.row = q \/ q \in j.batch => \A u \in Tasks : u # t => ~Busy(u, q)
    BY <2>3, OwnRows DEF RestInv, Row
  <2> QED BY <2>2, <2>3, <2>4, <2>6, <2>7, <2>8, <2>9, <2>10, StepRests DEF Goto
<1> QED BY <1>1, <1>2

\* Every step of a claim.
LEMMA ClaimStepsRest ==
  ASSUME KeyOpsInv, StockInv, NEW U, RestInv(U), NEW t \in Tasks,
         \/ ClaimKeys(t, "idle", "idle") \/ JitPurchase(t, "idle")
         \/ ClaimRetry(t, "idle", "idle")
  PROVE  RestInv(U)'
<1>1. CASE JitPurchase(t, "idle")
  BY <1>1, JitPurchaseRests
<1>2. CASE ClaimKeys(t, "idle", "idle")
  <2>1. CASE ClaimFrom(t, job[t].pool, "idle")
    BY <1>2, <2>1, ClaimFromRests DEF ClaimKeys
  <2>2. CASE ~ClaimFrom(t, job[t].pool, "idle")
    BY <1>2, <2>2, ClaimMissRests DEF ClaimKeys
  <2> QED BY <2>1, <2>2
<1>3. CASE ClaimRetry(t, "idle", "idle")
  <2>1. CASE ClaimFrom(t, 1, "idle")
    BY <1>3, <2>1, ClaimFromRests DEF ClaimRetry
  <2>2. CASE ~ClaimFrom(t, 1, "idle")
    BY <1>3, <2>2, ClaimMissRests DEF ClaimRetry
  <2> QED BY <2>1, <2>2
<1> QED BY <1>1, <1>2, <1>3

\* Everything that was pending is delivered with one step.
LEMMA ProvisionFinalizeRests ==
  ASSUME KeyOpsInv, StockInv, NEW U, RestInv(U), "rpc" \notin Faults, NEW t \in Tasks,
         NEW raised, ProvisionFinalize(t, raised)
  PROVE  RestInv(U)'
<1>1. pc[t] = "prov_finalize" /\ job[t] \in Jobs
  BY Mover DEF ProvisionFinalize
<1>2. PICK r \in Reservations : r = Row(t)
  BY <1>1, Mover DEF Relies, Rowless, Row
<1>3. PICK S \in SUBSET Keys : S = job[t].keys
  BY <1>1 DEF Jobs
<1>4. S = KeysWith(r, "pending") /\ S # {}
  BY <1>1, <1>2, <1>3 DEF RestInv, Stage, OpenStage, Row
<1>5. FinalizeProvisions(r, S) /\ Goto(t, "prov_decrypt")
  <2>1. CanFinalize(Row(t), job[t].keys)
    BY <1>2, <1>3, <1>4 DEF CanFinalize, KeysWith
  <2> QED BY <1>2, <1>3, <2>1 DEF ProvisionFinalize, CanFail
<1>6. /\ resv[r] = "pending"
      /\ prov \in [Reservations -> [Keys -> ProvisionStates]]
      /\ resv \in [Reservations -> ReservationStates]
  BY <1>4, Mover DEF RowsMatchProvisions, KeyOpsInv, TypeOK, DbTypeOK
<1>7. Final(r) = {} /\ Unbooked(r)
  BY <1>1, <1>2, <1>6, OwnRow DEF Rests, Midway, Rowless
<1>8. \A q \in Reservations, k \in Keys :
        prov'[q][k] = IF q = r /\ k \in S THEN "delivered" ELSE prov[q][k]
  BY <1>5, <1>6 DEF FinalizeProvisions, SetProvisions
<1>9. \A q \in Reservations : /\ q # r => prov'[q] = prov[q]
                              /\ resv'[q] = IF q = r THEN "provisioned" ELSE resv[q]
                              /\ SameBooks(q)
  BY <1>5, <1>6 DEF FinalizeProvisions, SetProvisions, SetReservation, SameBooks
<1>10. \A k \in Keys : keyState'[k] = IF k \in S THEN "seller_provisioned" ELSE keyState[k]
  BY <1>5 DEF FinalizeProvisions, SetKeys
<1>11. \A k \in S : \A q \in Reservations : Holds(q, k) => q = r
  BY <1>4 DEF StockInv, OneHolder, Holds, KeysWith
<1>12. \A q \in Reservations : q # r => Leaves(q)
  <2>1. \A q \in Reservations : q # r =>
          \A k \in Keys : prov[q][k] = "delivered" /\ keyState[k] = "faulty" /\ NotTaken(q)
                            => keyState'[k] = "faulty"
    BY <1>10, <1>11, DeliveredIsHeld
  <2> QED BY <1>9, <2>1, LeavesOthers
<1>13. HeldStates'
  <2>1. StepOf(t)
    BY <1>5 DEF Goto, Continue, StepOf, KeyOpsInv, TypeOK
  <2>2. \A q \in Reservations, k \in Keys : Returning(q, k) => Returning(q, k)'
    BY <1>1, <2>1 DEF Returning, StepOf, Row
  <2>3. \A q \in Reservations, k \in Keys :
          Holds(q, k)' => (Holds(q, k) /\ prov'[q][k] = prov[q][k]) \/ (q = r /\ k \in S)
    BY <1>8, <2>2 DEF Holds
  <2> QED BY <1>8, <1>10, <1>11, <2>3 DEF HeldStates, RestInv
<1>14. PICK j : j = job[t]
  OBVIOUS
<1>15. j.row = r /\ j.keys = S /\ j.batch = job[t].batch
  BY <1>2, <1>3, <1>14 DEF Row
<1>16. Stage("prov_decrypt", j, U)'
  <2>1. KeysWith(r, "delivered")' = S /\ KeysWith(r, "refunded")' = {}
    BY <1>4, <1>7, <1>8 DEF KeysWith, Final
  <2>2. Unbooked(r)'
    BY <1>7, <1>9 DEF Unbooked, SameBooks
  <2>3. \A q \in j.batch : resv'[q] = "pending"
    <3> SUFFICES ASSUME NEW q \in j.batch PROVE resv'[q] = "pending"
      OBVIOUS
    <3>1. q \in Reservations /\ resv[q] = "pending"
      BY <1>1, <1>15, OpenRows DEF Jobs
    <3> QED BY <1>9, <1>14, <1>15, <3>1, OpenRows
  <2>4. r \notin j.batch /\ resv'[r] = "provisioned"
    BY <1>9, <1>14, <1>15, OpenRows
  <2> QED BY <1>4, <1>15, <2>1, <2>2, <2>3, <2>4
          DEF Stage, OpenStage, SaleStage, ReturnStage, LedgerStage
<1>17. \A q \in Reservations : j.row = q \/ q \in j.batch => \A u \in Tasks : u # t => ~Busy(u, q)
  BY <1>2, <1>15, OwnRows DEF RestInv
<1>18. j.row = r /\ "prov_decrypt" \in Midway
  BY <1>15 DEF Midway
<1> QED BY <1>2, <1>5, <1>12, <1>13, <1>14, <1>16, <1>17, <1>18, StepRests DEF Goto

\* A step that writes one order, whose row the task works on.
LEMMA OrderWritten ==
  ASSUME KeyOpsInv, NEW U, RestInv(U), NEW t \in Tasks, NEW l, NEW j, Continue(t, l, j),
         NEW r \in Reservations, r = Row(t), pc[t] # "ret_flip",
         NEW o, orders' = [orders EXCEPT ![r] = o],
         UNCHANGED <<keyState, prov, resv>>,
         Rests(r, U)' \/ l \in Midway,
         l # "idle" => Stage(l, j, U)' /\ j.row = r /\ j.batch = job[t].batch
  PROVE  RestInv(U)'
<1>1. \A q \in Reservations : q # r => Leaves(q)
  BY DEF Leaves, SameBooks, KeysWith, KeyOpsInv, TypeOK, DbTypeOK
<1>2. HeldStates'
  <2>1. StepOf(t)
    BY DEF Continue, StepOf, KeyOpsInv, TypeOK
  <2> QED BY <2>1, HeldStay DEF RestInv
<1>3. Rests(r, U)' \/ (j.row = r /\ l \in Midway)
  BY DEF Midway
<1>4. l # "idle" => \A q \in Reservations : j.row = q \/ q \in j.batch =>
                       \A u \in Tasks : u # t => ~Busy(u, q)
  BY OwnRows DEF RestInv
<1> QED BY <1>1, <1>2, <1>3, <1>4, StepRests

\* The order is looked up: there is none yet.
LEMMA SaleCheckRests ==
  ASSUME KeyOpsInv, NEW U, RestInv(U), NEW t \in Tasks, SaleCheck(t, "reply")
  PROVE  RestInv(U)'
<1>1. pc[t] = "sale_check" /\ UNCHANGED dbVars
  BY DEF SaleCheck
<1>2. PICK j : j = job[t]
  OBVIOUS
<1>3. Stage("sale_check", j, U) /\ Unbooked(Row(t)) /\ j.row = Row(t)
  BY <1>1, <1>2 DEF RestInv, Stage, SaleStage, Row
<1>4. Goto(t, "sale_insert")
  BY <1>3 DEF SaleCheck, Unbooked
<1>5. Stage("sale_insert", j, U)
  BY <1>3 DEF Stage, OpenStage, SaleStage, ReturnStage, LedgerStage
<1> QED BY <1>1, <1>2, <1>3, <1>4, <1>5, GoesOn DEF Goto, Midway

\* The order is inserted: the row is in the books and at rest.
LEMMA SaleInsertRests ==
  ASSUME KeyOpsInv, NEW U, RestInv(U), "write" \notin Faults, NEW t \in Tasks,
         SaleInsert(t, "reply")
  PROVE  RestInv(U)'
<1>1. pc[t] = "sale_insert"
  BY DEF SaleInsert
<1>2. PICK j \in Jobs : j = job[t]
  BY Mover
<1>3. PICK r \in Reservations : r = Row(t) /\ r = j.row
  BY <1>1, <1>2, OwnRow DEF Rowless
<1>4. /\ resv[r] = "provisioned" /\ j.keys # {} /\ j.keys = KeysWith(r, "delivered")
      /\ KeysWith(r, "refunded") = {} /\ Unbooked(r) /\ r \notin U
  BY <1>1, <1>2, <1>3 DEF RestInv, Stage, SaleStage
<1>5. PICK b : b = orders[r] /\ b \in OrderRows
  BY DEF KeyOpsInv, TypeOK, DbTypeOK
<1>6. PICK o : o = [b EXCEPT !.status = "fulfilled", !.total = Cardinality(j.keys), !.rows = @ + 1]
  OBVIOUS
<1>7. /\ o.status = "fulfilled" /\ o.total = Cardinality(j.keys)
      /\ o.refunded = 0 /\ o.events = {}
  BY <1>4, <1>5, <1>6 DEF OrderRows, Unbooked
<1>8. /\ orders' = [orders EXCEPT ![r] = o] /\ UNCHANGED <<keyState, prov, resv>>
      /\ Goto(t, "sale_credit")
  BY <1>2, <1>3, <1>5, <1>6 DEF SaleInsert, SetOrder, CanFail, keyVars, rowVars
<1>9. orders'[r] = o
  BY <1>8 DEF KeyOpsInv, TypeOK, DbTypeOK
<1>10. Rests(r, U)'
  <2>1. \A s : KeysWith(r, s)' = KeysWith(r, s)
    BY <1>8 DEF KeysWith
  <2>2. RefundedCount(r)' = 0 /\ ProvisionedCount(r)' = Cardinality(j.keys)
    BY <1>4, <2>1, RowCounts DEF RefundedCount, ProvisionedCount
  <2>3. InBooks(r)'
    BY <1>7, <1>9, <2>2 DEF InBooks
  <2> QED BY <1>4, <1>7, <1>8, <1>9, <2>1, <2>2, <2>3 DEF Rests, Sold, Closed
<1>11. Stage("sale_credit", j, U)'
  <2>1. Stage("sale_credit", j, U)
    BY <1>2, OpenRows, PlainStage DEF Plain
  <2> QED BY <1>8, <2>1, SameStage DEF Plain
<1> QED BY <1>1, <1>2, <1>3, <1>8, <1>10, <1>11, OrderWritten DEF Goto

\* The credit and the links of the keys say nothing of what was sold.
LEMMA SaleBookedRests ==
  ASSUME KeyOpsInv, NEW U, RestInv(U), NEW t \in Tasks, SaleCredit(t) \/ SaleLink(t, "reply")
  PROVE  RestInv(U)'
<1>1. PICK l \in {"sale_link", "reply"} : Goto(t, l)
  BY DEF SaleCredit, SaleLink
<1>2. UNCHANGED <<keyState, prov, resv>> /\ pc[t] \in {"sale_credit", "sale_link"}
  BY DEF SaleCredit, SaleLink, SetOrder, dbVars, keyVars, rowVars
<1>3. \A q \in Reservations : SameBooks(q)
  <2>1. CASE UNCHANGED orders
    BY <2>1 DEF SameBooks
  <2>2. CASE ~UNCHANGED orders
    <3>1. PICK r \in Reservations : r = Row(t)
      BY <1>2, OwnRow DEF Rowless
    <3>2. PICK x : orders' = [orders EXCEPT ![r] = [orders[r] EXCEPT !.credit = x]]
      BY <2>2, <3>1 DEF SaleCredit, SaleLink, SetOrder, dbVars
    <3>3. orders \in [Reservations -> OrderRows] /\ orders[r] \in OrderRows
      BY DEF KeyOpsInv, TypeOK, DbTypeOK
    <3>4. \A q \in Reservations :
            orders'[q] = IF q = r THEN [orders[r] EXCEPT !.credit = x] ELSE orders[q]
      BY <3>2, <3>3
    <3> QED BY <3>3, <3>4 DEF SameBooks, OrderRows
  <2> QED BY <2>1, <2>2
<1>4. PICK j : j = job[t]
  OBVIOUS
<1>5. Stage(l, j, U)'
  <2>1. Stage(l, j, U)
    BY <1>4, OpenRows, PlainStage DEF Plain
  <2> QED BY <1>2, <2>1, SameStage DEF Plain
<1>6. \A q \in Reservations : j.row = q \/ q \in j.batch => \A u \in Tasks : u # t => ~Busy(u, q)
  BY <1>4, OwnRows DEF RestInv, Row
<1>7. pc[t] \notin Midway /\ pc[t] # "ret_flip"
  BY <1>2 DEF Midway
<1> QED BY <1>1, <1>2, <1>3, <1>4, <1>5, <1>6, <1>7, WritesNothing DEF Goto

\* Every step that records a sale.
LEMMA SaleStepsRest ==
  ASSUME KeyOpsInv, NEW U, RestInv(U), "write" \notin Faults, NEW t \in Tasks, SaleSteps(t)
  PROVE  RestInv(U)'
BY SaleCheckRests, SaleInsertRests, SaleBookedRests DEF SaleSteps

-------------------------------------------------------------------------------
(* Releases and the sweep.                                                   *)

\* A pending row loses its keys, a closed one has none to lose.
LEMMA ReleaseReservedRests ==
  ASSUME KeyOpsInv, StockInv, NEW U, RestInv(U), NEW t \in Tasks, pc[t] = "release",
         ReleaseReserved(Row(t)), Goto(t, "release_status")
  PROVE  RestInv(U)'
<1>1. PICK r \in Reservations : r = Row(t)
  BY Mover DEF Relies, Rowless, Row
<1>2. PICK j \in Jobs : j = job[t]
  BY Mover
<1>3. /\ resv[r] \in {"pending"} \union Closed /\ j.row = r
      /\ prov \in [Reservations -> [Keys -> ProvisionStates]]
  BY <1>1, <1>2 DEF RestInv, Stage, OpenStage, Row, KeyOpsInv, TypeOK, DbTypeOK
<1>4. \A q \in Reservations, k \in Keys :
        prov'[q][k] = IF q = r /\ prov[r][k] = "pending" THEN "failed" ELSE prov[q][k]
  BY <1>1, <1>3 DEF ReleaseReserved, SetProvisions, KeysWith
<1>5. \A q \in Reservations : (q # r => prov'[q] = prov[q]) /\ resv'[q] = resv[q] /\ SameBooks(q)
  BY <1>1, <1>3 DEF ReleaseReserved, SetProvisions, SameBooks
<1>6. \A k \in Keys : keyState'[k] # keyState[k] =>
        keyState[k] = "seller_reserved" /\ keyState'[k] = "available"
  BY <1>1 DEF ReleaseReserved, SetKeys
<1>7. StepOf(t) /\ pc'[t] = "release_status"
  BY DEF Goto, Continue, StepOf, KeyOpsInv, TypeOK
<1>8. \A q \in Reservations : q # r => Leaves(q)
  BY <1>5, <1>6, LeavesOthers
<1>9. HeldStates'
  <2>1. \A q \in Reservations, k \in Keys : Returning(q, k) => Returning(q, k)'
    BY <1>7 DEF Returning, StepOf, Row
  <2>2. \A q \in Reservations, k \in Keys :
          Holds(q, k)' => Holds(q, k) /\ prov'[q][k] = prov[q][k]
    BY <1>4, <2>1 DEF Holds
  <2>3. \A q \in Reservations, k \in Keys : Holds(q, k)' => keyState'[k] # "available"
    BY ReleaseReservedStock DEF StockInv, FreeIsUnheld, Free
  <2> QED BY <1>6, <2>2, <2>3 DEF HeldStates, RestInv
<1>10. Stage("release_status", j, U)'
  <2>1. (\A q \in j.batch : resv'[q] = "pending") /\ j.row \notin j.batch
    <3> SUFFICES ASSUME NEW q \in j.batch PROVE resv'[q] = "pending"
      BY <1>2, OpenRows
    <3>1. q \in Reservations
      BY DEF Jobs
    <3> QED BY <1>2, <1>5, <3>1, OpenRows
  <2>2. Rests(r, U)
    BY <1>1, OwnRow DEF Rowless, Midway
  <2>3. CASE resv[r] = "pending"
    <3>1. Final(r)' = Final(r)
      BY <1>4 DEF Final, KeysWith
    <3>2. Unbooked(r)' <=> Unbooked(r)
      BY <1>5 DEF Unbooked, SameBooks
    <3> QED BY <1>3, <1>5, <2>1, <2>2, <2>3, <3>1, <3>2
            DEF Stage, OpenStage, SaleStage, ReturnStage, LedgerStage, Rests
  <2>4. CASE resv[r] \in Closed
    <3>1. KeysWith(r, "pending") = {}
      BY <2>4, Mover DEF RowsMatchProvisions, Closed
    <3>2. prov'[r] = prov[r]
      BY <1>1, <1>3, <1>4, <3>1 DEF KeysWith, ReleaseReserved, SetProvisions
    <3>3. Leaves(r)
      BY <1>5, <1>6, <3>2 DEF Leaves, KeysWith
    <3>4. Rests(r, U)'
      BY <2>2, <2>4, <3>3, RestsOn, ClosedNotTaken
    <3> QED BY <1>3, <1>5, <2>1, <2>4, <3>4
            DEF Stage, OpenStage, SaleStage, ReturnStage, LedgerStage
  <2> QED BY <1>3, <2>3, <2>4
<1>11. \A q \in Reservations : j.row = q \/ q \in j.batch => \A u \in Tasks : u # t => ~Busy(u, q)
  BY <1>1, <1>2, <1>3, OwnRows DEF RestInv
<1>12. j.row = r /\ "release_status" \in Midway
  BY <1>3 DEF Midway
<1> QED BY <1>1, <1>2, <1>8, <1>9, <1>10, <1>11, <1>12, StepRests DEF Goto

\* A row whose keys are released is closed, and once closed it may be closed again.
LEMMA CloseRests ==
  ASSUME KeyOpsInv, NEW U, RestInv(U), NEW t \in Tasks, pc[t] # "ret_flip", pc[t] \notin Rowless,
         NEW l \in {"idle", "cron_next"}, NEW c \in Closed,
         SetReservation(Row(t), c), UNCHANGED <<keyVars, prov, orders>>, Goto(t, l),
         \/ resv[Row(t)] = "pending" /\ Final(Row(t)) = {} /\ Unbooked(Row(t))
         \/ resv[Row(t)] \in Closed /\ Rests(Row(t), U)
  PROVE  RestInv(U)'
<1>1. PICK r \in Reservations : r = Row(t)
  BY OwnRow
<1>2. PICK j \in Jobs : j = job[t]
  BY Mover
<1>3. \A q \in Reservations : resv'[q] = IF q = r THEN c ELSE resv[q]
  BY <1>1 DEF SetReservation, KeyOpsInv, TypeOK, DbTypeOK
<1>4. UNCHANGED <<keyState, prov, orders>>
  BY DEF keyVars
<1>5. \A q \in Reservations : q # r => Leaves(q)
  BY <1>3, <1>4 DEF Leaves, SameBooks, KeysWith
<1>6. StepOf(t)
  BY DEF Goto, Continue, StepOf, KeyOpsInv, TypeOK
<1>7. HeldStates'
  BY <1>4, <1>6, HeldStay DEF RestInv
<1>8. Rests(r, U)'
  <2>1. \A s : KeysWith(r, s)' = KeysWith(r, s)
    BY <1>4 DEF KeysWith
  <2>2. /\ Final(r)' = Final(r) /\ ProvisionedCount(r)' = ProvisionedCount(r)
        /\ Unbooked(r)' <=> Unbooked(r)
        /\ AllFaulty(r)' <=> AllFaulty(r)
    BY <1>4, <2>1 DEF Final, ProvisionedCount, RefundedCount, Unbooked, AllFaulty
  <2>3. Final(r) = {} => AllFaulty(r)
    BY DEF Final, AllFaulty
  <2> QED BY <1>1, <1>3, <1>4, <2>2, <2>3 DEF Rests, Closed
<1>9. l # "idle" => Stage(l, j, U)'
  <2>1. \A q \in j.batch : q \in Reservations /\ resv[q] = "pending" /\ q # r
    BY <1>1, <1>2, OpenRows DEF Jobs, Row
  <2>2. l = "cron_next" /\ j.row \notin j.batch => Stage(l, j, U)'
    BY <1>3, <2>1 DEF Stage, OpenStage, SaleStage, ReturnStage, LedgerStage
  <2> QED BY <1>2, <2>2, OpenRows
<1>10. \A q \in Reservations : j.row = q \/ q \in j.batch => \A u \in Tasks : u # t => ~Busy(u, q)
  BY <1>2, OwnRows DEF RestInv, Row
<1> QED BY <1>1, <1>2, <1>5, <1>7, <1>8, <1>9, <1>10, StepRests DEF Goto

\* Every step of a release.
LEMMA ReleaseStepsRest ==
  ASSUME KeyOpsInv, StockInv, NEW U, RestInv(U), {"rpc", "write"} \intersect Faults = {},
         NEW t \in Tasks, NEW l \in {"idle", "cron_next"},
         Release(t, l) \/ ReleaseStatus(t, l)
  PROVE  RestInv(U)'
<1>1. CASE Release(t, l)
  BY <1>1, ReleaseReservedRests DEF Release, CanFail
<1>2. CASE ReleaseStatus(t, l)
  <2>1. pc[t] = "release_status" /\ job[t].target \in Closed
    BY <1>2, Mover DEF ReleaseStatus, Relies
  <2>2. \/ resv[Row(t)] = "pending" /\ Final(Row(t)) = {} /\ Unbooked(Row(t))
        \/ resv[Row(t)] \in Closed /\ Rests(Row(t), U)
    BY <2>1 DEF RestInv, Stage, SaleStage, Row
  <2>3. /\ SetReservation(Row(t), job[t].target) /\ UNCHANGED <<keyVars, prov, orders>>
        /\ Goto(t, l)
    BY <1>2 DEF ReleaseStatus, CanFail
  <2> QED BY <2>1, <2>2, <2>3, CloseRests DEF Rowless
<1> QED BY <1>1, <1>2

\* The sweep takes the next row of its batch, which it works on already.
LEMMA SweepNextRests ==
  ASSUME KeyOpsInv, NEW U, RestInv(U), SweepNext
  PROVE  RestInv(U)'
<1>1. pc[Cron] = "cron_next" /\ UNCHANGED dbVars /\ Cron \in Tasks
  BY TasksAre DEF SweepNext
<1>2. CASE Goto(Cron, "idle")
  BY <1>1, <1>2, Ends DEF Midway
<1>3. CASE ~Goto(Cron, "idle")
  <2>1. PICK r \in job[Cron].batch :
          Continue(Cron, "release", [NoJob EXCEPT !.row = r, !.target = "expired",
                                                  !.batch = job[Cron].batch \ {r}])
    BY <1>3 DEF SweepNext
  <2>2. PICK j : j = [NoJob EXCEPT !.row = r, !.target = "expired", !.batch = job[Cron].batch \ {r}]
    OBVIOUS
  <2>3. j.row = r /\ j.batch = job[Cron].batch \ {r}
    BY <2>2 DEF NoJob
  <2>4. Stage("release", j, U)
    BY <1>1, <2>3, OpenRows DEF Stage, OpenStage, SaleStage, ReturnStage, LedgerStage
  <2>5. \A q \in Reservations : j.row = q \/ q \in j.batch => \A u \in Tasks : u # Cron => ~Busy(u, q)
    BY <1>1, <2>3 DEF RestInv, Alone, Busy
  <2>6. UNCHANGED <<keyState, prov, resv>> /\ \A q \in Reservations : SameBooks(q)
    BY <1>1 DEF dbVars, SameBooks
  <2>7. Stage("release", j, U)'
    BY <1>1, <2>4, SameStage
  <2>8. pc[Cron] \notin Midway /\ pc[Cron] # "ret_flip"
    BY <1>1 DEF Midway
  <2> QED BY <1>1, <2>1, <2>2, <2>5, <2>6, <2>7, <2>8, WritesNothing
<1> QED BY <1>2, <1>3

\* Keys that are asked for are there to be taken back.
LEMMA ReturnReadRests ==
  ASSUME KeyOpsInv, NEW U, RestInv(U), NEW t \in Tasks, ReturnRead(t)
  PROVE  RestInv(U)'
<1>1. pc[t] = "ret_read" /\ UNCHANGED dbVars
  BY DEF ReturnRead
<1>2. PICK i \in Jobs : i = job[t]
  BY Mover
<1>3. PICK r \in Reservations : r = Row(t) /\ r = i.row
  BY <1>1, <1>2, OwnRow DEF Rowless
<1>4. PICK D \in SUBSET Keys : D = KeysWith(r, "delivered")
  BY DEF KeysWith
<1>5. PICK S \in SUBSET D :
        /\ Cardinality(S) = IF i.qty = 0 THEN Cardinality(D) ELSE MinOf(i.qty, Cardinality(D))
        /\ Continue(t, IF S = {} THEN "ret_totals" ELSE "ret_restock", [i EXCEPT !.keys = S])
  BY <1>2, <1>3, <1>4 DEF ReturnRead
<1>6. PICK j : j = [i EXCEPT !.keys = S]
  OBVIOUS
<1>7. /\ j.row = r /\ j.keys = S /\ j.batch = i.batch /\ j.event = i.event
      /\ i.qty \in Nat /\ i.event \in Nat
  BY <1>2, <1>3, <1>6 DEF Jobs
<1>8. resv[r] = "provisioned" /\ Due("ret_read", i)
  BY <1>1, <1>2, <1>3 DEF RestInv, Stage, ReturnStage
<1>9. D # {} /\ Cardinality(D) \in Nat /\ Cardinality(D) >= 1
  <2>1. pc[t] \notin Rowless \union Midway
    BY <1>1 DEF Rowless, Midway
  <2>2. D # {}
    BY <1>3, <1>4, <1>8, <2>1, RestingRow
  <2> QED BY <2>2, PartCount
<1>10. S # {} /\ Due("ret_restock", j)
  <2>1. CASE i.event = 0
    <3>1. S = D
      BY <1>3, <1>5, <1>8, <2>1, PartCount DEF Due
    <3> QED BY <1>3, <1>4, <1>7, <1>9, <2>1, <3>1 DEF Due
  <2>2. CASE i.event # 0
    <3>1. /\ i.qty >= 1 /\ RefundedCount(r) + i.qty = i.event
          /\ i.event <= ProvisionedCount(r)
      BY <1>3, <1>8, <2>2 DEF Due
    <3>2. i.qty <= Cardinality(D)
      BY <1>4, <1>7, <3>1, RowCounts
    <3>3. Cardinality(S) = i.qty
      BY <1>5, <1>7, <1>9, <3>1, <3>2 DEF MinOf
    <3> QED BY <1>7, <2>2, <3>1, <3>3, PartCount DEF Due
  <2> QED BY <2>1, <2>2
<1>11. Stage("ret_restock", j, U)
  BY <1>2, <1>4, <1>7, <1>8, <1>10, OpenRows
  DEF Stage, OpenStage, SaleStage, ReturnStage, LedgerStage
<1> QED BY <1>1, <1>2, <1>3, <1>5, <1>6, <1>7, <1>10, <1>11, GoesOn DEF Midway

\* Keys that are restocked are no longer held; a key that was marked faulty stays
\* with its buyer.
LEMMA ReturnRestockRests ==
  ASSUME KeyOpsInv, StockInv, NEW U, RestInv(U), "rpc" \notin Faults, NEW t \in Tasks,
         job[t].event # 0 => \A k \in Keys : keyState[k] # "faulty",
         ReturnRestock(t)
  PROVE  RestInv(U)'
<1>1. pc[t] = "ret_restock"
  BY DEF ReturnRestock
<1>2. PICK i \in Jobs : i = job[t]
  BY Mover
<1>3. PICK r \in Reservations : r = Row(t) /\ r = i.row
  BY <1>1, <1>2, OwnRow DEF Rowless
<1>4. PICK S \in SUBSET i.keys : S = Restockable(i.keys)
  BY DEF Restockable
<1>5. /\ RestockKeys(S)
      /\ Continue(t, IF S = {} THEN "ret_totals" ELSE "ret_flip",
                  [i EXCEPT !.count = Cardinality(S)])
  BY <1>2, <1>4 DEF ReturnRestock, CanFail
<1>6. PICK j : j = [i EXCEPT !.count = Cardinality(S)]
  OBVIOUS
<1>7. /\ j.row = r /\ j.keys = i.keys /\ j.batch = i.batch /\ j.event = i.event
      /\ j.count = Cardinality(S) /\ i.keys \in SUBSET Keys
  BY <1>2, <1>3, <1>6 DEF Jobs
<1>8. /\ resv[r] = "provisioned" /\ Due("ret_restock", i)
      /\ i.keys # {} /\ i.keys \subseteq KeysWith(r, "delivered")
  BY <1>1, <1>2, <1>3 DEF RestInv, Stage, ReturnStage
<1>9. /\ UNCHANGED <<prov, resv, orders>>
      /\ \A k \in Keys : keyState'[k] = IF k \in S THEN "available" ELSE keyState[k]
  BY <1>5 DEF RestockKeys, SetKeys
<1>10. \A k \in S : keyState[k] # "faulty"
  BY <1>4 DEF Restockable, RestockableStates
<1>11. \A q \in Reservations : Leaves(q)
  BY <1>9, <1>10 DEF Leaves, SameBooks, KeysWith
<1>12. StepOf(t)
  BY <1>5 DEF Continue, StepOf, KeyOpsInv, TypeOK
<1>13. HeldStates'
  <2>1. \A q \in Reservations, k \in Keys : Holds(q, k)' => Holds(q, k) /\ prov'[q][k] = prov[q][k]
    BY <1>1, <1>9, <1>12, HoldersStay
  <2>2. \A q \in Reservations, k \in Keys : Holds(q, k)' => keyState'[k] # "available"
    BY ReturnRestockStock DEF StockInv, FreeIsUnheld, Free
  <2> QED BY <1>9, <2>1, <2>2 DEF HeldStates, RestInv
<1>14. Rests(r, U) /\ Rests(r, U)'
  <2>1. Rests(r, U)
    BY <1>1, <1>3, OwnRow DEF Rowless, Midway
  <2> QED BY <1>11, <2>1, RestsOn, ClosedNotTaken
<1>15. (\A q \in j.batch : resv'[q] = "pending") /\ r \notin j.batch
  BY <1>2, <1>3, <1>7, <1>9, OpenRows
<1>16. Sold(r, U) /\ (r \notin U => orders[r].refunded = RefundedCount(r))
  BY <1>8, <1>14 DEF Rests, Closed
<1>17. /\ \A s : KeysWith(r, s)' = KeysWith(r, s)
       /\ RefundedCount(r)' = RefundedCount(r) /\ ProvisionedCount(r)' = ProvisionedCount(r)
       /\ Sold(r, U)' <=> Sold(r, U)
  BY <1>11, LeftAlone
<1>18. Cardinality(i.keys) \in Nat /\ Cardinality(i.keys) >= 1
  BY <1>7, <1>8, PartCount
<1>19. CASE S # {}
  <2>1. Cardinality(S) \in Nat /\ Cardinality(S) >= 1
    BY <1>7, <1>19, PartCount
  <2>2. Due("ret_flip", j)'
    BY <1>3, <1>7, <1>8, <1>17 DEF Due
  <2>3. Stage("ret_flip", j, U)'
    BY <1>7, <1>8, <1>9, <1>15, <1>16, <1>17, <1>18, <2>1, <2>2, RowCounts
    DEF Stage, OpenStage, SaleStage, ReturnStage, LedgerStage
  <2>4. \A q \in Reservations : j.row = q \/ q \in j.batch => \A u \in Tasks : u # t => ~Busy(u, q)
    BY <1>2, <1>3, <1>7, OwnRows DEF RestInv
  <2> QED BY <1>3, <1>5, <1>6, <1>11, <1>13, <1>14, <1>19, <2>3, <2>4, StepRests
<1>20. CASE S = {}
  <2>1. \A k \in i.keys : keyState[k] = "faulty"
    <3> SUFFICES ASSUME NEW k \in i.keys PROVE keyState[k] = "faulty"
      OBVIOUS
    <3>1. k \in Keys /\ prov[r][k] = "delivered" /\ keyState[k] \notin RestockableStates
      BY <1>4, <1>7, <1>8, <1>20 DEF Restockable, KeysWith
    <3>2. NotTaken(r)
      BY <1>1, <1>3, OwnRow DEF NotTaken, Rowless
    <3>3. Holds(r, k)
      BY <3>1, <3>2, DeliveredIsHeld
    <3> QED BY <3>1, <3>3 DEF RestInv, HeldStates, RestockableStates
  <2>2. i.event = 0
    BY <1>2, <1>7, <1>8, <2>1
  <2>3. i.keys = KeysWith(r, "delivered")
    BY <1>3, <1>8, <2>2 DEF Due
  <2>4. AllFaulty(r)'
    BY <1>9, <1>17, <1>20, <2>1, <2>3 DEF AllFaulty, KeysWith
  <2>5. j.count = 0
    BY <1>7, <1>20, FS_EmptySet
  <2>6. Stage("ret_totals", j, U)'
    BY <1>7, <1>8, <1>9, <1>15, <1>16, <1>17, <2>2, <2>3, <2>4, <2>5
    DEF Stage, OpenStage, SaleStage, ReturnStage, LedgerStage
  <2>7. \A q \in Reservations : j.row = q \/ q \in j.batch => \A u \in Tasks : u # t => ~Busy(u, q)
    BY <1>2, <1>3, <1>7, OwnRows DEF RestInv
  <2> QED BY <1>3, <1>5, <1>6, <1>11, <1>13, <1>14, <1>20, <2>6, <2>7, StepRests
<1> QED BY <1>19, <1>20

\* A flip counts one more refunded key and one less to flip.
LEMMA ReturnFlipRests ==
  ASSUME KeyOpsInv, NEW U, RestInv(U), "write" \notin Faults, NEW t \in Tasks, ReturnFlip(t)
  PROVE  RestInv(U)'
<1>1. pc[t] = "ret_flip" /\ UNCHANGED <<keyState, resv, orders>>
  BY DEF ReturnFlip, keyVars
<1>2. PICK i \in Jobs : i = job[t]
  BY Mover
<1>3. PICK r \in Reservations : r = Row(t) /\ r = i.row
  BY <1>1, <1>2, OwnRow DEF Rowless
<1>4. /\ resv[r] = "provisioned" /\ Due("ret_flip", i) /\ i.keys # {}
      /\ i.keys \subseteq KeysWith(r, "delivered") /\ Sold(r, U) /\ i.count >= 1
      /\ r \notin U => orders[r].refunded < RefundedCount(r) + Cardinality(i.keys)
  BY <1>1, <1>2, <1>3 DEF RestInv, Stage, ReturnStage
<1>5. PICK k \in i.keys :
        /\ SetProvisions(r, {k} \intersect KeysWith(r, "delivered"), "refunded")
        /\ Continue(t, IF i.keys = {k} THEN "ret_totals" ELSE "ret_flip",
                    [i EXCEPT !.keys = @ \ {k}])
  BY <1>2, <1>3 DEF ReturnFlip, CanFail
<1>6. k \in Keys /\ prov[r][k] = "delivered" /\ prov \in [Reservations -> [Keys -> ProvisionStates]]
  BY <1>4, <1>5 DEF KeysWith, KeyOpsInv, TypeOK, DbTypeOK
<1>7. \A q \in Reservations, x \in Keys :
        prov'[q][x] = IF q = r /\ x = k THEN "refunded" ELSE prov[q][x]
  BY <1>5, <1>6 DEF SetProvisions, KeysWith
<1>8. \A q \in Reservations : q # r => Leaves(q)
  BY <1>1, <1>5, <1>6 DEF Leaves, SameBooks, KeysWith, SetProvisions
<1>9. PICK j : j = [i EXCEPT !.keys = @ \ {k}]
  OBVIOUS
<1>10. /\ j.row = r /\ j.keys = i.keys \ {k} /\ j.batch = i.batch /\ j.event = i.event
       /\ j.count = i.count /\ i.keys \in SUBSET Keys /\ i.event \in Nat
  BY <1>2, <1>3, <1>9 DEF Jobs
<1>11. /\ StepOf(t)
       /\ pc'[t] = IF i.keys = {k} THEN "ret_totals" ELSE "ret_flip"
       /\ pc'[t] = "ret_flip" => job'[t] = j
  BY <1>5, <1>9 DEF Continue, StepOf, KeyOpsInv, TypeOK
<1>12. HeldStates'
  <2>1. \A q \in Reservations, x \in Keys :
          Returning(q, x) => Returning(q, x)' \/ (q = r /\ x = k)
    <3> SUFFICES ASSUME NEW q \in Reservations, NEW x \in Keys, Returning(q, x), ~(q = r /\ x = k)
                 PROVE  Returning(q, x)'
      OBVIOUS
    <3>1. PICK u \in Tasks : pc[u] = "ret_flip" /\ Row(u) = q /\ x \in job[u].keys
      BY DEF Returning
    <3>2. CASE u = t
      <4>1. x \in j.keys /\ pc'[t] = "ret_flip"
        BY <1>2, <1>3, <1>10, <1>11, <3>1, <3>2
      <4> QED BY <1>3, <1>10, <1>11, <3>1, <3>2, <4>1 DEF Returning, Row
    <3>3. CASE u # t
      BY <1>11, <3>1, <3>3 DEF StepOf, Returning, Row
    <3> QED BY <3>2, <3>3
  <2>2. \A q \in Reservations, x \in Keys : Holds(q, x)' => Holds(q, x) /\ prov'[q][x] = prov[q][x]
    BY <1>7, <2>1 DEF Holds
  <2> QED BY <1>1, <2>2 DEF HeldStates, RestInv
<1>13. PICK n \in Nat : n = RefundedCount(r)
  BY RowCounts
<1>14. RefundedCount(r)' = n + 1 /\ ProvisionedCount(r)' = ProvisionedCount(r)
  <2>1. KeysWith(r, "refunded")' = KeysWith(r, "refunded") \union {k} /\ k \notin KeysWith(r, "refunded")
    BY <1>6, <1>7 DEF KeysWith
  <2>2. KeysWith(r, "delivered")' = KeysWith(r, "delivered") \ {k} /\ k \in KeysWith(r, "delivered")
    BY <1>6, <1>7 DEF KeysWith
  <2>3. IsFiniteSet(KeysWith(r, "refunded")) /\ IsFiniteSet(KeysWith(r, "delivered"))
    BY KeysFinite, FS_Subset DEF KeysWith
  <2>4. RefundedCount(r)' = n + 1
    BY <1>13, <2>1, <2>3, FS_AddElement DEF RefundedCount
  <2>5. Cardinality(KeysWith(r, "delivered"))' = Cardinality(KeysWith(r, "delivered")) - 1
    BY <2>2, <2>3, FS_RemoveElement
  <2>6. Cardinality(KeysWith(r, "delivered")) \in Nat
    BY RowCounts
  <2> QED BY <1>13, <2>4, <2>5, <2>6 DEF ProvisionedCount
<1>15. PICK m \in Nat : m = Cardinality(i.keys) /\ Cardinality(i.keys \ {k}) = m - 1 /\ m >= 1
  <2>1. IsFiniteSet(i.keys)
    BY <1>10, KeysFinite, FS_Subset
  <2>2. Cardinality(i.keys) \in Nat /\ Cardinality(i.keys) >= 1
    BY <1>4, <1>10, PartCount
  <2> QED BY <1>5, <2>1, <2>2, FS_RemoveElement
<1>16. KeysWith(r, "delivered")' = KeysWith(r, "delivered") \ {k}
  BY <1>6, <1>7 DEF KeysWith
<1>17. Sold(r, U)'
  <2>1. Unbooked(r)' <=> Unbooked(r)
    BY <1>1 DEF Unbooked
  <2>2. InBooks(r)' <=> InBooks(r)
    BY <1>1, <1>14 DEF InBooks
  <2> QED BY <1>4, <2>1, <2>2 DEF Sold
<1>18. (\A q \in j.batch : resv'[q] = "pending") /\ r \notin j.batch
  BY <1>1, <1>2, <1>3, <1>10, OpenRows
<1>19. /\ orders'[r].refunded = orders[r].refunded
       /\ r \notin U => orders[r].refunded < n + m
  BY <1>1, <1>4, <1>13, <1>15
<1>20. \A q \in Reservations : j.row = q \/ q \in j.batch => \A u \in Tasks : u # t => ~Busy(u, q)
  BY <1>2, <1>3, <1>10, OwnRows DEF RestInv
<1>21. CASE i.keys # {k}
  <2>1. j.keys # {} /\ j.keys \subseteq KeysWith(r, "delivered")'
    BY <1>4, <1>10, <1>16, <1>21
  <2>2. Due("ret_flip", j)'
    <3>1. CASE i.event = 0
      <4>1. i.keys = KeysWith(r, "delivered")
        BY <1>3, <1>4, <3>1 DEF Due
      <4> QED BY <1>10, <1>16, <3>1, <4>1 DEF Due
    <3>2. CASE i.event # 0
      <4>1. n + m = i.event /\ i.event <= ProvisionedCount(r)
        BY <1>3, <1>4, <1>13, <1>15, <3>2 DEF Due
      <4>2. m - 1 >= 1
        <5>1. Cardinality(i.keys \ {k}) # 0
          BY <1>10, <2>1, PartCount
        <5> QED BY <1>15, <5>1
      <4> QED BY <1>10, <1>14, <1>15, <3>2, <4>1, <4>2 DEF Due
    <3> QED BY <3>1, <3>2
  <2>3. r \notin U => orders'[r].refunded < RefundedCount(r)' + Cardinality(j.keys)
    BY <1>10, <1>14, <1>15, <1>19
  <2>4. Stage("ret_flip", j, U)'
    BY <1>1, <1>4, <1>10, <1>17, <1>18, <2>1, <2>2, <2>3
    DEF Stage, OpenStage, SaleStage, ReturnStage, LedgerStage
  <2>5. Continue(t, "ret_flip", j) /\ "ret_flip" \in Midway
    BY <1>5, <1>9, <1>21 DEF Midway
  <2> QED BY <1>3, <1>8, <1>10, <1>12, <1>20, <2>4, <2>5, StepRests
<1>22. CASE i.keys = {k}
  <2>1. j.keys = {} /\ m = 1
    <3>1. i.keys \ {k} = {}
      BY <1>22
    <3>2. m - 1 = 0
      BY <1>15, <3>1, FS_EmptySet
    <3> QED BY <1>10, <3>1, <3>2
  <2>2. j.event \in {0, RefundedCount(r)'}
    BY <1>3, <1>4, <1>10, <1>13, <1>14, <1>15, <2>1 DEF Due
  <2>3. r \notin U => orders'[r].refunded < RefundedCount(r)'
    BY <1>14, <1>19, <2>1
  <2>4. RefundedCount(r)' >= 1
    BY <1>14
  <2>5. Stage("ret_totals", j, U)'
    BY <1>1, <1>4, <1>10, <1>17, <1>18, <2>1, <2>2, <2>3, <2>4
    DEF Stage, OpenStage, SaleStage, ReturnStage, LedgerStage
  <2>6. Continue(t, "ret_totals", j) /\ "ret_totals" \in Midway
    BY <1>5, <1>9, <1>22 DEF Midway
  <2> QED BY <1>3, <1>8, <1>10, <1>12, <1>20, <2>5, <2>6, StepRests
<1> QED BY <1>21, <1>22

\* The fraction to refund: what was taken back, or everything when every key
\* had been marked faulty before.
LEMMA ReturnTotalsRests ==
  ASSUME KeyOpsInv, NEW U, RestInv(U), NEW t \in Tasks, ReturnTotals(t)
  PROVE  RestInv(U)'
<1>1. pc[t] = "ret_totals" /\ UNCHANGED dbVars
  BY DEF ReturnTotals
<1>2. PICK i \in Jobs : i = job[t]
  BY Mover
<1>3. PICK r \in Reservations : r = Row(t) /\ r = i.row
  BY <1>1, <1>2, OwnRow DEF Rowless
<1>4. Stage("ret_totals", i, U)
  BY <1>1, <1>2 DEF RestInv
<1>5. PICK n \in Nat, d \in Nat :
        /\ n = RefundedCount(r) /\ d = Cardinality(KeysWith(r, "delivered"))
        /\ ProvisionedCount(r) = n + d
        /\ d = 0 <=> KeysWith(r, "delivered") = {}
  BY RowCounts
<1>6. PICK e : e = IF n = 0 /\ i.count = 0 THEN Cardinality(i.keys) ELSE n
  OBVIOUS
<1>7. PICK j : j = [i EXCEPT !.num = MinOf(e, n + d), !.den = n + d]
  OBVIOUS
<1>8. Continue(t, "ledger_read", j)
  BY <1>2, <1>3, <1>5, <1>6, <1>7 DEF ReturnTotals
<1>9. /\ j.row = r /\ j.batch = i.batch /\ j.event = i.event /\ j.num = MinOf(e, n + d)
      /\ j.den = n + d /\ i.count \in Nat
  BY <1>2, <1>3, <1>7 DEF Jobs
<1>10. resv[r] = "provisioned" /\ Sold(r, U)
  BY <1>3, <1>4 DEF Stage, ReturnStage
<1>11. /\ n + d >= 1 /\ j.num <= j.den /\ j.num \in Nat
       /\ j.num = n \/ (j.num = j.den /\ AllFaulty(r))
       /\ r \notin U => /\ orders[r].refunded <= j.num
                        /\ orders[r].refunded < j.num => j.event \in {0, j.num}
  <2>1. CASE /\ i.keys = {} /\ i.count >= 1 /\ n >= 1
             /\ r \notin U => orders[r].refunded < n
             /\ i.event \in {0, n}
    <3>1. e = n
      BY <1>6, <2>1
    <3>2. j.num = n
      BY <1>9, <3>1 DEF MinOf
    <3> QED BY <1>9, <2>1, <3>2 DEF KeyOpsInv, TypeOK, DbTypeOK, OrderRows
  <2>2. CASE /\ i.keys # {} /\ i.keys = KeysWith(r, "delivered") /\ AllFaulty(r)
             /\ i.count = 0 /\ i.event = 0
             /\ r \notin U => orders[r].refunded = n
    <3>1. d >= 1
      BY <1>5, <2>2
    <3>2. e = IF n = 0 THEN d ELSE n
      BY <1>5, <1>6, <2>2
    <3>3. j.num = e
      BY <1>9, <3>1, <3>2 DEF MinOf
    <3> QED BY <1>9, <2>2, <3>1, <3>2, <3>3
  <2> QED BY <1>3, <1>4, <1>5, <2>1, <2>2 DEF Stage, ReturnStage
<1>12. Stage("ledger_read", j, U)
  BY <1>2, <1>3, <1>5, <1>9, <1>10, <1>11, OpenRows
  DEF Stage, OpenStage, SaleStage, ReturnStage, LedgerStage
<1> QED BY <1>1, <1>2, <1>3, <1>8, <1>9, <1>12, GoesOn DEF Midway

\* What is still to be debited is what the order has not been debited for.
LEMMA LedgerReadRests ==
  ASSUME KeyOpsInv, NEW U, RestInv(U), "refunds" \notin Faults, NEW t \in Tasks, LedgerRead(t)
  PROVE  RestInv(U)'
<1>1. pc[t] = "ledger_read" /\ UNCHANGED dbVars
  BY DEF LedgerRead
<1>2. PICK i \in Jobs : i = job[t]
  BY Mover
<1>3. PICK r \in Reservations : r = Row(t) /\ r = i.row
  BY <1>1, <1>2, OwnRow DEF Rowless
<1>4. /\ Stage("ledger_read", i, U) /\ i.num \in Nat /\ i.den \in Nat
      /\ orders[r] \in OrderRows
  BY <1>1, <1>2 DEF RestInv, Jobs, KeyOpsInv, TypeOK, DbTypeOK
<1>5. PICK o \in OrderRows : o = orders[r]
  BY <1>4
<1>6. PICK target : target = IF i.num >= i.den THEN o.total ELSE i.num
  OBVIOUS
<1>7. PICK delta : delta = IF target > o.refunded THEN target - o.refunded ELSE 0
  OBVIOUS
<1>8. PICK j : j = [i EXCEPT !.delta = delta]
  OBVIOUS
<1>9. Continue(t, IF o.status \in {"none", "refunded"} THEN "ret_final"
                  ELSE IF delta = 0 THEN "ledger_status" ELSE "ledger_insert", j)
  <2>1. RefundTarget(t) = target
    BY <1>2, <1>3, <1>5, <1>6 DEF RefundTarget, FullRefund
  <2> QED BY <1>2, <1>3, <1>5, <1>7, <1>8, <2>1 DEF LedgerRead, CanFail
<1>10. /\ j.row = r /\ j.batch = i.batch /\ j.event = i.event /\ j.num = i.num
       /\ j.den = i.den /\ j.delta = delta
  BY <1>2, <1>3, <1>8 DEF Jobs
<1>11. /\ resv[r] = "provisioned" /\ Sold(r, U)
       /\ i.den >= 1 /\ i.den = ProvisionedCount(r) /\ i.num <= i.den
       /\ i.num = RefundedCount(r) \/ (i.num = i.den /\ AllFaulty(r))
       /\ r \notin U => /\ o.refunded <= i.num
                        /\ o.refunded < i.num => i.event \in {0, i.num}
  BY <1>3, <1>4, <1>5 DEF Stage, LedgerStage
<1>12. (\A q \in j.batch : resv[q] = "pending") /\ r \notin j.batch
  BY <1>2, <1>3, <1>10, OpenRows
<1>13. CASE r \in U
  <2>1. Unbooked(r) /\ o.status = "none"
    BY <1>5, <1>11, <1>13 DEF Sold, Unbooked
  <2>2. Stage("ret_final", j, U)
    BY <1>10, <1>11, <1>12, <1>13, <2>1
    DEF Stage, OpenStage, SaleStage, ReturnStage, LedgerStage
  <2> QED BY <1>1, <1>2, <1>3, <1>9, <1>10, <2>1, <2>2, GoesOn DEF Midway
<1>14. CASE r \notin U
  <2>1. /\ InBooks(r) /\ o.status \notin {"none", "refunded"} /\ o.total = i.den
        /\ o.refunded \in Nat
    BY <1>5, <1>11, <1>14 DEF Sold, InBooks, OrderRows
  <2>2. target = i.num
    BY <1>4, <1>6, <1>11, <2>1
  <2>3. delta = i.num - o.refunded /\ (delta = 0 <=> o.refunded = i.num)
    BY <1>4, <1>7, <1>11, <1>14, <2>1, <2>2
  <2>4. CASE delta = 0
    <3>1. Stage("ledger_status", j, U)
      BY <1>5, <1>10, <1>11, <1>12, <1>14, <2>3, <2>4
      DEF Stage, OpenStage, SaleStage, ReturnStage, LedgerStage
    <3> QED BY <1>1, <1>2, <1>3, <1>9, <1>10, <2>1, <2>4, <3>1, GoesOn DEF Midway
  <2>5. CASE delta # 0
    <3>1. o.refunded < i.num
      BY <1>4, <1>11, <1>14, <2>1, <2>3, <2>5
    <3>2. Stage("ledger_insert", j, U)
      BY <1>5, <1>10, <1>11, <1>12, <1>14, <2>3, <3>1
      DEF Stage, OpenStage, SaleStage, ReturnStage, LedgerStage
    <3> QED BY <1>1, <1>2, <1>3, <1>9, <1>10, <2>1, <2>5, <3>2, GoesOn DEF Midway
  <2> QED BY <2>4, <2>5
<1> QED BY <1>13, <1>14

\* The debit makes up for what was missing; it is no replay.
LEMMA LedgerInsertRests ==
  ASSUME KeyOpsInv, NEW U, RestInv(U), "write" \notin Faults, NEW t \in Tasks, LedgerInsert(t)
  PROVE  RestInv(U)'
<1>1. pc[t] = "ledger_insert" /\ Goto(t, "ledger_status")
  BY DEF LedgerInsert
<1>2. PICK j \in Jobs : j = job[t]
  BY Mover
<1>3. PICK r \in Reservations : r = Row(t) /\ r = j.row
  BY <1>1, <1>2, OwnRow DEF Rowless
<1>4. PICK o \in OrderRows : o = orders[r]
  BY DEF KeyOpsInv, TypeOK, DbTypeOK
<1>5. /\ resv[r] = "provisioned" /\ Sold(r, U) /\ r \notin U
      /\ j.den >= 1 /\ j.den = ProvisionedCount(r) /\ j.num <= j.den
      /\ j.num = RefundedCount(r) \/ (j.num = j.den /\ AllFaulty(r))
      /\ o.refunded < j.num /\ j.delta = j.num - o.refunded /\ j.event \in {0, j.num}
  BY <1>1, <1>2, <1>3, <1>4 DEF RestInv, Stage, LedgerStage
<1>6. /\ o.refunded \in Nat /\ j.num \in Nat
      /\ o.status \in {"fulfilled", "partially_refunded"} /\ o.total = ProvisionedCount(r)
      /\ \A e \in o.events : e <= o.refunded
  BY <1>2, <1>4, <1>5 DEF Sold, InBooks, OrderRows, Jobs
<1>7. PICK E : E = IF j.event = 0 THEN o.events ELSE o.events \union {j.event}
  OBVIOUS
<1>8. PICK p : p = [o EXCEPT !.refunded = @ + j.delta, !.events = E]
  OBVIOUS
<1>9. p.refunded = j.num /\ p.events = E /\ p.status = o.status /\ p.total = o.total
  <2>1. o.refunded + j.delta = j.num
    BY <1>5, <1>6
  <2> QED BY <1>4, <1>8, <2>1 DEF OrderRows
<1>10. orders' = [orders EXCEPT ![r] = p] /\ UNCHANGED <<keyState, prov, resv>>
  <2>1. ~(j.event # 0 /\ j.event \in o.events)
    BY <1>5, <1>6
  <2>2. p = [o EXCEPT !.refunded = @ + j.delta,
                      !.events = IF j.event = 0 THEN @ ELSE @ \union {j.event}]
    BY <1>4, <1>7, <1>8 DEF OrderRows
  <2> QED BY <1>2, <1>3, <1>4, <2>1, <2>2 DEF LedgerInsert, SetOrder, CanFail, keyVars, rowVars
<1>11. orders'[r] = p
  BY <1>10 DEF KeyOpsInv, TypeOK, DbTypeOK
<1>12. \A e \in E : e <= j.num
  <2>1. E \subseteq Nat
    BY <1>2, <1>4, <1>7 DEF OrderRows, Jobs
  <2> QED BY <1>5, <1>6, <1>7, <2>1
<1>13. /\ \A s : KeysWith(r, s)' = KeysWith(r, s)
       /\ RefundedCount(r)' = RefundedCount(r) /\ ProvisionedCount(r)' = ProvisionedCount(r)
       /\ AllFaulty(r)' <=> AllFaulty(r)
  BY <1>10 DEF KeysWith, RefundedCount, ProvisionedCount, AllFaulty
<1>14. Sold(r, U)'
  BY <1>5, <1>6, <1>9, <1>11, <1>12, <1>13 DEF Sold, InBooks
<1>15. (\A q \in j.batch : resv'[q] = "pending") /\ r \notin j.batch
  BY <1>2, <1>3, <1>10, OpenRows
<1>16. Stage("ledger_status", j, U)'
  BY <1>3, <1>5, <1>9, <1>10, <1>11, <1>13, <1>14, <1>15
  DEF Stage, OpenStage, SaleStage, ReturnStage, LedgerStage
<1>17. "ledger_status" \in Midway /\ pc[t] # "ret_flip" /\ Continue(t, "ledger_status", j)
  BY <1>1, <1>2 DEF Midway, Goto
<1> QED BY <1>2, <1>3, <1>10, <1>16, <1>17, OrderWritten

\* The order's status says whether all of it was refunded.
LEMMA LedgerStatusRests ==
  ASSUME KeyOpsInv, NEW U, RestInv(U), "write" \notin Faults, NEW t \in Tasks, LedgerStatus(t)
  PROVE  RestInv(U)'
<1>1. pc[t] = "ledger_status" /\ Goto(t, "ret_final")
  BY DEF LedgerStatus
<1>2. PICK j \in Jobs : j = job[t]
  BY Mover
<1>3. PICK r \in Reservations : r = Row(t) /\ r = j.row
  BY <1>1, <1>2, OwnRow DEF Rowless
<1>4. PICK o \in OrderRows : o = orders[r]
  BY DEF KeyOpsInv, TypeOK, DbTypeOK
<1>5. /\ resv[r] = "provisioned" /\ InBooks(r) /\ r \notin U
      /\ j.den >= 1 /\ j.den = ProvisionedCount(r) /\ j.num <= j.den
      /\ j.num = RefundedCount(r) \/ (j.num = j.den /\ AllFaulty(r))
      /\ o.refunded = j.num
  BY <1>1, <1>2, <1>3, <1>4 DEF RestInv, Stage, LedgerStage, Sold
<1>6. PICK x : x = IF j.num >= j.den THEN "refunded" ELSE "partially_refunded"
  OBVIOUS
<1>7. PICK p : p = [o EXCEPT !.status = x]
  OBVIOUS
<1>8. p.status = x /\ p.total = o.total /\ p.refunded = o.refunded /\ p.events = o.events
  BY <1>4, <1>7 DEF OrderRows
<1>9. orders' = [orders EXCEPT ![r] = p] /\ UNCHANGED <<keyState, prov, resv>>
  BY <1>2, <1>3, <1>4, <1>6, <1>7 DEF LedgerStatus, SetOrder, CanFail, keyVars, rowVars, FullRefund
<1>10. orders'[r] = p
  BY <1>9 DEF KeyOpsInv, TypeOK, DbTypeOK
<1>11. /\ \A s : KeysWith(r, s)' = KeysWith(r, s)
       /\ RefundedCount(r)' = RefundedCount(r) /\ ProvisionedCount(r)' = ProvisionedCount(r)
       /\ AllFaulty(r)' <=> AllFaulty(r)
  BY <1>9 DEF KeysWith, RefundedCount, ProvisionedCount, AllFaulty
<1>12. (\A q \in j.batch : resv'[q] = "pending") /\ r \notin j.batch
  BY <1>2, <1>3, <1>9, OpenRows
<1>13. o.total = j.den /\ \A e \in o.events : e <= o.refunded
  BY <1>4, <1>5 DEF InBooks
<1>14. Stage("ret_final", j, U)'
  BY <1>3, <1>5, <1>6, <1>8, <1>9, <1>10, <1>11, <1>12, <1>13
  DEF Stage, OpenStage, SaleStage, ReturnStage, LedgerStage
<1>15. "ret_final" \in Midway /\ pc[t] # "ret_flip" /\ Continue(t, "ret_final", j)
  BY <1>1, <1>2 DEF Midway, Goto
<1> QED BY <1>2, <1>3, <1>9, <1>14, <1>15, OrderWritten

\* A full refund closes the row, a partial one leaves it provisioned.
LEMMA ReturnFinalRests ==
  ASSUME KeyOpsInv, NEW U, RestInv(U), "write" \notin Faults, NEW t \in Tasks, ReturnFinal(t)
  PROVE  RestInv(U)'
<1>1. pc[t] = "ret_final" /\ Goto(t, "idle") /\ UNCHANGED <<keyState, prov, orders>>
  BY DEF ReturnFinal, keyVars
<1>2. PICK j \in Jobs : j = job[t]
  BY Mover
<1>3. PICK r \in Reservations : r = Row(t) /\ r = j.row
  BY <1>1, <1>2, OwnRow DEF Rowless
<1>4. PICK o \in OrderRows : o = orders[r]
  BY DEF KeyOpsInv, TypeOK, DbTypeOK
<1>5. /\ resv[r] = "provisioned" /\ j.num \in Nat /\ j.den \in Nat
      /\ j.den >= 1 /\ j.den = ProvisionedCount(r) /\ j.num <= j.den
      /\ j.num = RefundedCount(r) \/ (j.num = j.den /\ AllFaulty(r))
      /\ IF r \in U THEN Unbooked(r)
         ELSE /\ o.total = j.den /\ o.refunded = j.num
              /\ \A e \in o.events : e <= o.refunded
              /\ o.status = IF j.num >= j.den THEN "refunded" ELSE "partially_refunded"
  BY <1>1, <1>2, <1>3, <1>4 DEF RestInv, Stage, LedgerStage, Jobs
<1>6. PICK n \in Nat, d \in Nat :
        /\ n = RefundedCount(r) /\ d = Cardinality(KeysWith(r, "delivered"))
        /\ ProvisionedCount(r) = n + d
        /\ d = 0 <=> KeysWith(r, "delivered") = {}
  BY RowCounts
<1>7. \A q \in Reservations : q # r => resv'[q] = resv[q]
  BY <1>3 DEF ReturnFinal, SetReservation, KeyOpsInv, TypeOK, DbTypeOK
<1>8. \A q \in Reservations : q # r => Leaves(q)
  BY <1>1, <1>7 DEF Leaves, SameBooks, KeysWith
<1>9. HeldStates'
  <2>1. StepOf(t)
    BY <1>1 DEF Goto, Continue, StepOf, KeyOpsInv, TypeOK
  <2> QED BY <1>1, <2>1, HeldStay DEF RestInv
<1>10. /\ \A s : KeysWith(r, s)' = KeysWith(r, s)
       /\ RefundedCount(r)' = RefundedCount(r) /\ ProvisionedCount(r)' = ProvisionedCount(r)
       /\ AllFaulty(r)' <=> AllFaulty(r)
       /\ Unbooked(r)' <=> Unbooked(r)
  BY <1>1 DEF KeysWith, RefundedCount, ProvisionedCount, AllFaulty, Unbooked
<1>11. Rests(r, U)'
  <2>1. CASE j.num >= j.den
    <3>1. resv'[r] = "cancelled"
      BY <1>2, <1>3, <2>1 DEF ReturnFinal, FullRefund, CanFail, SetReservation, KeyOpsInv, TypeOK, DbTypeOK
    <3>2. AllFaulty(r)
      BY <1>5, <1>6, <2>1 DEF AllFaulty
    <3> QED BY <1>1, <1>4, <1>5, <1>10, <2>1, <3>1, <3>2 DEF Rests, Closed
  <2>2. CASE ~(j.num >= j.den)
    <3>1. resv'[r] = "provisioned"
      BY <1>2, <1>3, <1>5, <2>2 DEF ReturnFinal, FullRefund
    <3>2. j.num = n /\ KeysWith(r, "delivered") # {}
      BY <1>5, <1>6, <2>2
    <3>3. r \notin U => InBooks(r)'
      BY <1>1, <1>4, <1>5, <1>10, <2>2 DEF InBooks
    <3> QED BY <1>1, <1>4, <1>5, <1>6, <1>10, <3>1, <3>2, <3>3 DEF Rests, Sold, Closed
  <2> QED BY <2>1, <2>2
<1> QED BY <1>1, <1>2, <1>3, <1>8, <1>9, <1>11, StepRests DEF Goto

\* Every step of a return.
LEMMA ReturnStepsRest ==
  ASSUME KeyOpsInv, StockInv, NEW U, RestInv(U), {"rpc", "write", "refunds"} \intersect Faults = {},
         NEW t \in Tasks, ReturnSteps(t),
         job[t].event # 0 => \A k \in Keys : keyState[k] # "faulty"
  PROVE  RestInv(U)'
BY ReturnReadRests, ReturnRestockRests, ReturnFlipRests, ReturnTotalsRests, LedgerReadRests,
   LedgerInsertRests, LedgerStatusRests, ReturnFinalRests DEF ReturnSteps

\* Nothing changes.
LEMMA StutterRests ==
  ASSUME NEW U, RestInv(U), UNCHANGED vars
  PROVE  RestInv(U)'
<1>1. UNCHANGED <<dbVars, pc, job>>
  BY DEF vars, dbVars
<1>2. HeldStates' /\ Alone'
  BY <1>1 DEF dbVars, RestInv, HeldStates, Alone, Busy, Row, Holds, Returning
<1>3. AllRest(U)'
  <2>1. \A q \in Reservations : Rests(q, U) => Rests(q, U)'
    BY <1>1, SameTables DEF dbVars, SameBooks
  <2> QED BY <1>1, <2>1 DEF RestInv, AllRest, Row
<1>4. ASSUME NEW u \in Tasks
      PROVE  Stage(pc[u], job[u], U)'
  <2>1. PICK l, j : l = pc[u] /\ j = job[u]
    OBVIOUS
  <2>2. Stage(l, j, U)'
    BY <1>1, <2>1, SameStage DEF RestInv
  <2> QED BY <1>1, <2>1, <2>2
<1> QED BY <1>2, <1>3, <1>4 DEF RestInv

\* At first there are neither rows nor tasks.
LEMMA InitRests ==
  ASSUME NEW U, Init
  PROVE  RestInv(U)
<1>1. \A t \in Tasks : pc[t] = "idle" /\ job[t] = NoJob
  BY DEF Init
<1>2. \A r \in Reservations : /\ \A k \in Keys : prov[r][k] = "none"
                              /\ resv[r] = "none" /\ orders[r] = NoOrderRow
  BY DEF Init, DbInit
<1>3. HeldStates
  BY <1>2 DEF HeldStates, Holds
<1>4. Alone
  BY <1>1, NothingLeft DEF Alone, Busy, Row
<1>5. AllRest(U)
  BY <1>2 DEF AllRest, Rests, Unbooked, NoOrderRow, Closed
<1>6. \A t \in Tasks : Stage(pc[t], job[t], U)
  BY <1>1, NothingLeft DEF Stage, OpenStage, SaleStage, ReturnStage, LedgerStage
<1> QED BY <1>3, <1>4, <1>5, <1>6 DEF RestInv

\* A task that starts, on rows nobody works on.
LEMMA StartRests ==
  ASSUME KeyOpsInv, NEW U, RestInv(U), NEW t \in Tasks, NEW l, NEW j, Start(t, l, j),
         UNCHANGED dbVars, Stage(l, j, U),
         \A q \in Reservations : j.row = q \/ q \in j.batch => \A u \in Tasks : ~Busy(u, q)
  PROVE  RestInv(U)'
<1>1. pc[t] = "idle" /\ Continue(t, l, j) /\ "idle" \notin Midway
  BY DEF Start, Midway
<1>2. Stage(l, j, U)'
  BY SameStage
<1>3. UNCHANGED <<keyState, prov, resv>> /\ \A q \in Reservations : SameBooks(q)
  BY DEF dbVars, SameBooks
<1> QED BY <1>1, <1>2, <1>3, WritesNothing

\* A sweep that reads rows nobody works on.
LEMMA SweepStartRests ==
  ASSUME KeyOpsInv, NEW U, RestInv(U), NEW rows \in SUBSET Reservations, SweepStart(rows),
         \A q \in rows, u \in Tasks : ~Busy(u, q)
  PROVE  RestInv(U)'
<1>1. PICK batch \in SUBSET {q \in rows : resv[q] = "pending"} :
        Start(Cron, "cron_next", [NoJob EXCEPT !.batch = batch])
  BY DEF SweepStart
<1> DEFINE j == [NoJob EXCEPT !.batch = batch]
<1>2. j.batch = batch /\ j.row = NoRow /\ NoRow \notin Reservations /\ Cron \in Tasks
  BY NoRowIsNoRow, TasksAre DEF NoJob
<1>3. Start(Cron, "cron_next", j) /\ UNCHANGED dbVars
  BY <1>1 DEF SweepStart
<1> HIDE DEF j
<1>4. Stage("cron_next", j, U)
  BY <1>2, PlainStage DEF Plain
<1>5. \A q \in Reservations : j.row = q \/ q \in j.batch => \A u \in Tasks : ~Busy(u, q)
  BY <1>2
<1> QED BY <1>2, <1>3, <1>4, <1>5, StartRests

\* Rows nobody works on agree with their provisions and their orders.
LEMMA RestingRows ==
  ASSUME NEW U, RestInv(U)
  PROVE  SettledRowsAgree /\ \A r \in Reservations : ~Working(r) => Rests(r, U)
<1>1. \A r \in Reservations : ~Working(r) => Rests(r, U)
  BY DEF RestInv, AllRest, Working
<1>2. ASSUME NEW r \in Reservations, Rests(r, U)
      PROVE  /\ resv[r] = "pending" => KeysWith(r, "pending") # {}
             /\ resv[r] = "provisioned" => KeysWith(r, "delivered") # {}
             /\ resv[r] \in Closed =>
                  /\ \A k \in KeysWith(r, "delivered") : keyState[k] = "faulty"
                  /\ orders[r].status \in {"none", "refunded"}
                  /\ orders[r].refunded = orders[r].total
  BY <1>2 DEF Rests, AllFaulty, Unbooked
<1> QED BY <1>1, <1>2 DEF SettledRowsAgree

-------------------------------------------------------------------------------
(* What a task works on.                                                     *)

\* the task ends, or keeps its order and its rows
KeepsRows(t) ==
  /\ StepOf(t)
  /\ \/ job'[t] = NoJob
     \/ /\ job'[t].row = job[t].row /\ job'[t].batch = job[t].batch
        /\ job'[t].order = job[t].order /\ job'[t].event = job[t].event

\* Claims, the provisioning, the sale, the answer, releases and returns stay
\* with their rows.
LEMMA KeyStepsStay ==
  ASSUME TypeOK, NEW t \in Tasks, NEW ok, NEW raised, NEW l,
         \/ ClaimKeys(t, "idle", "idle") \/ JitPurchase(t, "idle")
         \/ ClaimRetry(t, "idle", "idle")
         \/ ProvisionRead(t, raised) \/ ProvisionFinalize(t, raised)
         \/ ProvisionDecrypt(t, ok, raised) \/ SaleSteps(t) \/ Replay(t) \/ Reply(t)
         \/ ReturnSteps(t) \/ Release(t, l) \/ ReleaseStatus(t, l) \/ Crash(t)
  PROVE  KeepsRows(t)
<1>1. job[t] \in Jobs /\ pc \in [Tasks -> Labels] /\ job \in [Tasks -> Jobs]
  BY DEF TypeOK
<1>2. ASSUME NEW m, NEW j, Continue(t, m, j), j.row = job[t].row, j.batch = job[t].batch,
             j.order = job[t].order, j.event = job[t].event
      PROVE  KeepsRows(t)
  BY <1>1, <1>2 DEF KeepsRows, StepOf, Continue
<1>3. ASSUME NEW m, Goto(t, m)
      PROVE  KeepsRows(t)
  BY <1>2, <1>3 DEF Goto
<1>4. ASSUME NEW m, NEW f \in {"pool", "keys", "count", "delta"}, NEW v,
             Continue(t, m, [job[t] EXCEPT ![f] = v])
      PROVE  KeepsRows(t)
  <2>1. PICK j : j = [job[t] EXCEPT ![f] = v]
    OBVIOUS
  <2>2. /\ j.row = job[t].row /\ j.batch = job[t].batch
        /\ j.order = job[t].order /\ j.event = job[t].event
    BY <1>1, <2>1 DEF Jobs
  <2> QED BY <1>2, <1>4, <2>1, <2>2
<1>5. CASE ClaimKeys(t, "idle", "idle")
  BY <1>3, <1>4, <1>5 DEF ClaimKeys, ClaimFrom
<1>6. CASE JitPurchase(t, "idle") \/ ClaimRetry(t, "idle", "idle")
  BY <1>3, <1>6 DEF JitPurchase, ClaimRetry, ClaimFrom
<1>7. CASE ProvisionRead(t, raised) \/ Replay(t)
  BY <1>3, <1>4, <1>7 DEF ProvisionRead, Replay
<1>8. CASE ProvisionFinalize(t, raised) \/ ProvisionDecrypt(t, ok, raised) \/ Reply(t) \/ Crash(t)
  BY <1>3, <1>8 DEF ProvisionFinalize, ProvisionDecrypt, Reply, Crash
<1>9. CASE SaleSteps(t)
  BY <1>3, <1>9 DEF SaleSteps, SaleCheck, SaleInsert, SaleCredit, SaleLink
<1>10. CASE ReturnSteps(t)
  <2>1. CASE ReturnRead(t) \/ ReturnRestock(t) \/ ReturnFlip(t) \/ LedgerRead(t)
    BY <1>4, <2>1 DEF ReturnRead, ReturnRestock, ReturnFlip, LedgerRead
  <2>2. CASE ReturnTotals(t)
    <3>1. PICK a, b : Continue(t, "ledger_read", [job[t] EXCEPT !.num = a, !.den = b])
      BY <2>2 DEF ReturnTotals
    <3>2. PICK j : j = [job[t] EXCEPT !.num = a, !.den = b]
      OBVIOUS
    <3>3. /\ j.row = job[t].row /\ j.batch = job[t].batch
          /\ j.order = job[t].order /\ j.event = job[t].event
      BY <1>1, <3>2 DEF Jobs
    <3> QED BY <1>2, <3>1, <3>2, <3>3
  <2>3. CASE LedgerInsert(t) \/ LedgerStatus(t) \/ ReturnFinal(t)
    BY <1>3, <2>3 DEF LedgerInsert, LedgerStatus, ReturnFinal
  <2> QED BY <1>10, <2>1, <2>2, <2>3 DEF ReturnSteps
<1>11. CASE Release(t, l) \/ ReleaseStatus(t, l)
  BY <1>3, <1>11 DEF Release, ReleaseStatus
<1> QED BY <1>5, <1>6, <1>7, <1>8, <1>9, <1>10, <1>11

\* Such a task takes up no row.
LEMMA StaysAlone ==
  ASSUME Alone, NEW t \in Tasks, KeepsRows(t)
  PROVE  Alone'
BY AloneStays, NothingLeft DEF Alone, Busy, Row, KeepsRows
===============================================================================
