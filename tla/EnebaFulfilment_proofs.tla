------------------------- MODULE EnebaFulfilment_proofs -------------------------
(***************************************************************************)
(* KeyOpsInv is an invariant of the Eneba webhooks with the expiry cron,   *)
(* and with it the properties that hold for any number of orders, keys and *)
(* concurrent requests, any overlap and any faults.                        *)
(***************************************************************************)
EXTENDS EnebaFulfilment, SellerStock_proofs

\* A request that starts at a label whose assumptions hold keeps the invariant.
LEMMA BeginKeeps ==
  ASSUME KeyOpsInv, NEW t \in Tasks, NEW o \in Orders, NEW j \in Jobs,
         NEW l \in {"claim", "prov_read", "replay", "ret_read", "release", "repl_read"},
         Begin(t, o, l, j),
         j.row \in Reservations, j.batch = {},
         l \in {"prov_read", "release"} => resv[j.row] # "none",
         l = "release" => j.target \in Closed,
         l = "ret_read" => Quiet(j.row)
  PROVE  KeyOpsInv' /\ Monotone
<1> DEFINE i == [j EXCEPT !.order = o]
<1>1. Continue(t, l, i) /\ UNCHANGED dbVars
  BY DEF Begin, Start
<1>2. /\ i \in Jobs /\ i.row = j.row /\ i.target = j.target /\ i.batch = {}
      /\ i.order \in Orders
  BY DEF Jobs
<1>3. l \in Labels /\ l \notin Selling
  BY DEF Labels, Selling
<1> HIDE DEF i
<1>4. Relies(l, i) /\ SaleRelies(l, i)
  BY <1>2 DEF Relies, SaleRelies, Rowless, Selling, AfterPending, Answering
<1> QED
  BY <1>1, <1>2, <1>3, <1>4, MoveKeeps

\* The rows of an order are reservations in use.
LEMMA RowsForExist ==
  ASSUME NEW o \in Orders
  PROVE  /\ Sale(o) \in Reservations /\ Replacement(o) \in Reservations
         /\ \A r \in RowsFor(o) : r \in Reservations /\ resv[r] # "none"
  BY RowsAre DEF Sale, Replacement, RowsFor, Existing

\* The locals of a request are well typed.
LEMMA Locals ==
  ASSUME NEW r \in Reservations
  PROVE  /\ \A q \in Nat : LET j == [NoJob EXCEPT !.row = r, !.qty = q] IN
              j \in Jobs /\ j.row = r /\ j.batch = {}
         /\ LET j == [NoJob EXCEPT !.row = r] IN
              j \in Jobs /\ j.row = r /\ j.batch = {}
         /\ LET j == [NoJob EXCEPT !.row = r, !.target = "cancelled"] IN
              j \in Jobs /\ j.row = r /\ j.batch = {} /\ j.target \in Closed
  BY DEF Jobs, NoJob, ReservationStates, Closed

\* RESERVE claims for the order's own row.
LEMMA ReserveKeeps ==
  ASSUME KeyOpsInv, NEW t \in Tasks, NEW o \in Orders, Reserve(t, o)
  PROVE  KeyOpsInv' /\ Monotone
<1> DEFINE j == [NoJob EXCEPT !.row = Sale(o), !.qty = Quantity[o]]
<1>1. Quantity[o] \in Nat /\ Sale(o) \in Reservations
  BY QuantityType, RowsForExist
<1>2. j \in Jobs /\ j.row = Sale(o) /\ j.batch = {}
  BY <1>1, Locals
<1>3. Begin(t, o, "claim", j)
  BY DEF Reserve
<1> HIDE DEF j
<1> QED
  BY <1>1, <1>2, <1>3, BeginKeeps

\* PROVIDE reads or replays a row in use.
LEMMA ProvideKeeps ==
  ASSUME KeyOpsInv, NEW t \in Tasks, NEW o \in Orders, Provide(t, o)
  PROVE  KeyOpsInv' /\ Monotone
<1>1. PICK r \in PickForProvide(o) :
        Begin(t, o, IF resv[r] = "provisioned" THEN "replay" ELSE "prov_read",
              [NoJob EXCEPT !.row = r])
  BY DEF Provide
<1> DEFINE j == [NoJob EXCEPT !.row = r]
<1>2. r \in Reservations /\ resv[r] # "none"
  BY RowsForExist DEF PickForProvide, Newest
<1>3. j \in Jobs /\ j.row = r /\ j.batch = {}
  BY <1>2, Locals
<1>4. PICK l \in {"replay", "prov_read"} : Begin(t, o, l, j)
  BY <1>1
<1> HIDE DEF j
<1> QED
  BY <1>2, <1>3, <1>4, BeginKeeps

\* CANCEL returns a provisioned row, which is quiet, or releases a pending one.
LEMMA CancelKeeps ==
  ASSUME KeyOpsInv, NEW t \in Tasks, NEW o \in Orders, Cancel(t, o)
  PROVE  KeyOpsInv' /\ Monotone
<1>1. PICK r \in PickForCancel(o) :
        \/ /\ resv[r] = "provisioned"
           /\ Begin(t, o, "ret_read", [NoJob EXCEPT !.row = r])
        \/ /\ resv[r] = "pending"
           /\ Begin(t, o, "release", [NoJob EXCEPT !.row = r, !.target = "cancelled"])
  BY DEF Cancel
<1>2. r \in Reservations
  BY RowsForExist DEF PickForCancel, Newest, NewestTwo
<1>3. CASE resv[r] = "provisioned" /\ Begin(t, o, "ret_read", [NoJob EXCEPT !.row = r])
  <2> DEFINE j == [NoJob EXCEPT !.row = r]
  <2>1. j \in Jobs /\ j.row = r /\ j.batch = {}
    BY <1>2, Locals
  <2>2. Begin(t, o, "ret_read", j) /\ Quiet(r)
    BY <1>2, <1>3, QuietRows
  <2> HIDE DEF j
  <2> QED
    BY <1>2, <2>1, <2>2, BeginKeeps
<1>4. CASE /\ resv[r] = "pending"
           /\ Begin(t, o, "release", [NoJob EXCEPT !.row = r, !.target = "cancelled"])
  <2> DEFINE j == [NoJob EXCEPT !.row = r, !.target = "cancelled"]
  <2>1. j \in Jobs /\ j.row = r /\ j.batch = {} /\ j.target \in Closed
    BY <1>2, Locals
  <2>2. Begin(t, o, "release", j) /\ resv[r] # "none"
    BY <1>4
  <2> HIDE DEF j
  <2> QED
    BY <1>2, <2>1, <2>2, BeginKeeps
<1> QED
  BY <1>1, <1>3, <1>4

\* A replacement starts with the row it replaces, or claims at once.
LEMMA ReplacementReserveKeeps ==
  ASSUME KeyOpsInv, NEW t \in Tasks, NEW o \in Orders, ReplacementReserve(t, o)
  PROVE  KeyOpsInv' /\ Monotone
<1>1. CASE Begin(t, o, "claim", [NoJob EXCEPT !.row = Replacement(o), !.qty = 1])
  <2> DEFINE j == [NoJob EXCEPT !.row = Replacement(o), !.qty = 1]
  <2>1. j \in Jobs /\ j.row = Replacement(o) /\ j.batch = {}
    BY RowsForExist, Locals
  <2>2. Begin(t, o, "claim", j)
    BY <1>1
  <2> HIDE DEF j
  <2> QED
    BY <2>1, <2>2, RowsForExist, BeginKeeps
<1>2. CASE ~Begin(t, o, "claim", [NoJob EXCEPT !.row = Replacement(o), !.qty = 1])
  <2>1. PICK r \in Reservations : Begin(t, o, "repl_read", [NoJob EXCEPT !.row = r])
    BY <1>2, RowsForExist DEF ReplacementReserve, Newest
  <2> DEFINE j == [NoJob EXCEPT !.row = r]
  <2>2. j \in Jobs /\ j.row = r /\ j.batch = {} /\ Begin(t, o, "repl_read", j)
    BY <2>1, Locals
  <2> HIDE DEF j
  <2> QED
    BY <2>2, BeginKeeps
<1> QED
  BY <1>1, <1>2

-------------------------------------------------------------------------------
(* The write-off of a replaced key.                                          *)

\* The claim that follows is for the replacement row of the order served.
LEMMA ToClaimKeeps ==
  ASSUME KeyOpsInv, NEW t \in Tasks, pc[t] \in {"repl_read", "repl_faulty", "repl_debit"},
         ToReplacementClaim(t), DbTypeOK', UNCHANGED <<prov, resv, orders>>
  PROVE  KeyOpsInv' /\ Monotone
<1> DEFINE j == [NoJob EXCEPT !.order = job[t].order, !.qty = 1,
                              !.row = Replacement(job[t].order)]
<1>1. Continue(t, "claim", j)
  BY DEF ToReplacementClaim
<1>2. job[t].order \in Orders
  BY Mover DEF Relies
<1>3. j \in Jobs /\ j.row \in Reservations /\ j.batch = {}
  BY <1>2, RowsForExist DEF Jobs, NoJob, ReservationStates
<1>4. "claim" \in Labels /\ "claim" \notin Selling
  BY DEF Labels, Selling
<1> HIDE DEF j
<1>5. Relies("claim", j) /\ SaleRelies("claim", j)
  BY <1>3 DEF Relies, SaleRelies, Rowless, Selling, AfterPending, Answering
<1> QED
  BY <1>1, <1>3, <1>4, <1>5, KeysKeep

\* The read of the faulty key remembers the key and the order it is linked to.
LEMMA ReplacementReadKeeps ==
  ASSUME KeyOpsInv, NEW t \in Tasks, ReplacementRead(t)
  PROVE  KeyOpsInv' /\ Monotone
<1>1. DbTypeOK' /\ UNCHANGED <<prov, resv, orders>>
  BY DEF ReplacementRead, KeyOpsInv, TypeOK, DbTypeOK, dbVars
<1>2. CASE ToReplacementClaim(t)
  BY <1>1, <1>2, ToClaimKeeps DEF ReplacementRead
<1>3. CASE ~ToReplacementClaim(t)
  <2>1. PICK k \in Keys :
          Continue(t, "repl_faulty", [job[t] EXCEPT !.keys = {k}, !.link = keyOrder[k]])
    BY <1>3 DEF ReplacementRead, KeysWith
  <2> DEFINE j == [job[t] EXCEPT !.keys = {k}, !.link = keyOrder[k]]
  <2>2. keyOrder[k] \in Reservations \union {NoRow}
    BY DEF KeyOpsInv, TypeOK, DbTypeOK
  <2>3. /\ j \in Jobs /\ j.row = job[t].row /\ j.batch = job[t].batch
        /\ j.order = job[t].order
    BY <2>2, Mover DEF Jobs
  <2>4. "repl_faulty" \in Labels /\ "repl_faulty" \notin Selling /\ pc[t] = "repl_read"
    BY DEF Labels, Selling, ReplacementRead
  <2>5. Continue(t, "repl_faulty", j)
    BY <2>1
  <2> HIDE DEF j
  <2>6. Relies("repl_faulty", j) /\ SaleRelies("repl_faulty", j)
    BY <2>3, <2>4, Mover DEF Relies, SaleRelies, Rowless, Selling, AfterPending, Answering
  <2> QED
    BY <1>1, <2>3, <2>4, <2>5, <2>6, KeysKeep
<1> QED
  BY <1>2, <1>3

\* Marking the key faulty touches no provision, reservation or order.
LEMMA ReplacementFaultyKeeps ==
  ASSUME KeyOpsInv, NEW t \in Tasks, ReplacementFaulty(t)
  PROVE  KeyOpsInv' /\ Monotone
<1>1. DbTypeOK' /\ UNCHANGED <<prov, resv, orders>>
  <2>1. CASE UNCHANGED dbVars
    BY <2>1 DEF KeyOpsInv, TypeOK, DbTypeOK, dbVars
  <2>2. CASE SetKeys(job[t].keys, "faulty") /\ UNCHANGED <<keyOrder, rowVars, orders>>
    BY <2>2 DEF KeyOpsInv, TypeOK, DbTypeOK, SetKeys, KeyStates, rowVars
  <2> QED
    BY <2>1, <2>2 DEF ReplacementFaulty
<1>2. CASE ToReplacementClaim(t)
  BY <1>1, <1>2, ToClaimKeeps DEF ReplacementFaulty
<1>3. CASE ~ToReplacementClaim(t)
  <2>1. /\ Goto(t, "repl_debit") /\ job[t].link # NoRow /\ pc[t] = "repl_faulty"
    BY <1>3 DEF ReplacementFaulty
  <2>2. job[t] \in Jobs /\ job[t].link \in Reservations
    BY <2>1, Mover DEF Jobs
  <2>3. "repl_debit" \in Labels /\ "repl_debit" \notin Selling
    BY DEF Labels, Selling
  <2>4. Relies("repl_debit", job[t]) /\ SaleRelies("repl_debit", job[t])
    BY <2>1, <2>2, Mover DEF Relies, SaleRelies, Rowless, Selling, AfterPending, Answering
  <2> QED
    BY <1>1, <2>1, <2>2, <2>3, <2>4, KeysKeep DEF Goto
<1> QED
  BY <1>2, <1>3

\* A write-off leaves the sale it belongs to alone.
LEMMA ReplacementDebitKeeps ==
  ASSUME KeyOpsInv, NEW t \in Tasks, ReplacementDebit(t)
  PROVE  KeyOpsInv' /\ Monotone
<1>1. ToReplacementClaim(t) /\ pc[t] = "repl_debit"
  BY DEF ReplacementDebit
<1>2. CASE UNCHANGED dbVars
  <2>1. DbTypeOK' /\ UNCHANGED <<prov, resv, orders>>
    BY <1>2 DEF KeyOpsInv, TypeOK, DbTypeOK, dbVars
  <2> QED
    BY <1>1, <2>1, ToClaimKeeps
<1>3. CASE ~UNCHANGED dbVars
  <2>1. PICK r \in Reservations : r = job[t].link
    BY <1>1, Mover DEF Relies
  <2>2. PICK ord \in OrderRows : ord = orders[r]
    BY DEF KeyOpsInv, TypeOK, DbTypeOK
  <2> DEFINE o == [ord EXCEPT !.writeOff = ord.writeOff + 1]
  <2>3. SetOrder(r, o)
    BY <1>3, <2>1, <2>2 DEF ReplacementDebit
  <2>4. /\ o \in OrderRows /\ o.rows = ord.rows /\ o.credit = ord.credit
        /\ o.total = ord.total
    BY DEF OrderRows
  <2> HIDE DEF o
  <2> DEFINE j == [NoJob EXCEPT !.order = job[t].order, !.qty = 1,
                                !.row = Replacement(job[t].order)]
  <2>5. Continue(t, "claim", j)
    BY <1>1 DEF ToReplacementClaim
  <2>6. job[t].order \in Orders
    BY <1>1, Mover DEF Relies
  <2>7. j \in Jobs /\ j.row \in Reservations /\ j.batch = {}
    BY <2>6, RowsForExist DEF Jobs, NoJob, ReservationStates
  <2> HIDE DEF j
  <2>8. Relies("claim", j) /\ "claim" \in Labels \ Selling /\ "claim" # "idle"
    BY <2>7 DEF Relies, Rowless, Selling, AfterPending, Answering, Labels
  <2> QED
    BY <2>2, <2>3, <2>4, <2>5, <2>7, <2>8, LedgerKeeps
<1> QED
  BY <1>2, <1>3

-------------------------------------------------------------------------------
(* All steps.                                                                *)

\* Every step of a webhook request keeps the invariant.
LEMMA WorkerStepKeeps ==
  ASSUME KeyOpsInv, NEW t \in Tasks, WorkerStep(t)
  PROVE  KeyOpsInv' /\ Monotone
<1>1. MayRaise(t, "idle") /\ AfterProvision(t) \in {"sale_check", "reply"}
  BY DEF MayRaise, AfterProvision
<1>2. CASE ClaimSteps(t)
  BY <1>2, ClaimStepsKeep DEF ClaimSteps
<1>3. CASE ProvideSteps(t)
  BY <1>1, <1>3, ProvisionReadKeeps, ProvisionFinalizeKeeps, ProvisionDecryptKeeps,
     SaleStepsKeep, ReplayKeeps, ReplyKeeps DEF ProvideSteps
<1>4. CASE ReturnSteps(t)
  BY <1>4, ReturnStepsKeep
<1>5. CASE ReplacementSteps(t)
  BY <1>5, ReplacementReadKeeps, ReplacementFaultyKeeps, ReplacementDebitKeeps
     DEF ReplacementSteps
<1>6. CASE Release(t, "idle") \/ ReleaseStatus(t, "idle")
  BY <1>6, ReleaseKeeps, ReleaseStatusKeeps
<1> QED
  BY <1>2, <1>3, <1>4, <1>5, <1>6 DEF WorkerStep

\* Every step keeps the invariant and is monotone.
LEMMA NextKeeps ==
  ASSUME KeyOpsInv, [Next]_vars
  PROVE  KeyOpsInv' /\ Monotone
<1>1. ASSUME NEW t \in Workers, Request(t)
      PROVE  KeyOpsInv' /\ Monotone
  BY <1>1, TasksAre, ReserveKeeps, ProvideKeeps, CancelKeeps, ReplacementReserveKeeps DEF Request
<1>2. ASSUME NEW t \in Workers, WorkerStep(t)
      PROVE  KeyOpsInv' /\ Monotone
  BY <1>2, TasksAre, WorkerStepKeeps
<1>3. CASE CronStart \/ SweepNext \/ SweepRelease
  BY <1>3, SweepStartKeeps, SweepNextKeeps, SweepReleaseKeeps DEF CronStart
<1>4. CASE \E t \in Tasks : Crash(t)
  BY <1>4, CrashKeeps
<1>5. CASE UNCHANGED vars
  BY <1>5, StutterKeeps
<1> QED
  BY <1>1, <1>2, <1>3, <1>4, <1>5 DEF Next

-------------------------------------------------------------------------------
(* The theorems.                                                             *)

\* The inductive invariant of the key operations holds under the Eneba webhooks.
THEOREM EnebaKeyOps == Spec => []KeyOpsInv
<1>1. Init => KeyOpsInv
  BY InitKeyOps
<1>2. KeyOpsInv /\ [Next]_vars => KeyOpsInv'
  BY NextKeeps
<1> QED
  BY <1>1, <1>2, PTL DEF Spec

\* Tables and locals stay well typed.
THEOREM EnebaTypes == Spec => []TypeOK
<1>1. KeyOpsInv => TypeOK
  BY KeyOpsImplies
<1> QED
  BY <1>1, EnebaKeyOps, PTL

\* No pending provision is left behind a closed or provisioned reservation, in
\* whatever order PROVIDE, CANCEL, the sweep and crashes come.
THEOREM EnebaNoPhantoms == Spec => []NoPhantomProvision
<1>1. KeyOpsInv => NoPhantomProvision
  BY KeyOpsImplies
<1> QED
  BY <1>1, EnebaKeyOps, PTL

\* However many PROVIDEs overlap or repeat, a sale is recorded once.
THEOREM EnebaSaleOnce == Spec => []SaleRecordedOnce
<1>1. KeyOpsInv => SaleRecordedOnce
  BY KeyOpsImplies
<1> QED
  BY <1>1, EnebaKeyOps, PTL

\* Eneba is answered only with keys finalized for the reservation.
THEOREM EnebaAnswersFinal == Spec => []AnswersAreFinal
<1>1. KeyOpsInv => AnswersAreFinal
  BY KeyOpsImplies
<1> QED
  BY <1>1, EnebaKeyOps, PTL

\* A closed reservation stays closed.
THEOREM EnebaNeverReopened == Spec => NeverReopened
<1> DEFINE Stays == \A r \in Reservations : resv[r] \in Closed => resv'[r] \in Closed
<1>1. KeyOpsInv /\ [Next]_vars => [Stays]_vars
  BY NextKeeps DEF Monotone
<1> QED
  BY <1>1, EnebaKeyOps, PTL DEF Spec, NeverReopened
-------------------------------------------------------------------------------
(* Keys and their holders, when requests about one order follow each other   *)
(* and every return runs to its end.                                         *)

Orderly == ~Overlap /\ "crash" \notin Faults /\ "write" \notin Faults

\* The rows of an order belong to its family, so whoever works on one of them
\* serves the family.
LEMMA RowsAreFamily ==
  ASSUME NEW o \in Orders, NEW r \in RowsFor(o), NEW t \in Tasks, Row(t) = r
  PROVE  Serves(t) \intersect Family(o) # {}
<1>1. r \in Reservations /\ r # NoRow
  BY NoRowIsNoRow DEF RowsFor, Existing
<1>2. OrderOf(r) \in Family(o)
  BY <1>1, RowsAre, OriginalType DEF RowsFor, Candidates, Family, OrderOf
<1>3. OrderOf(r) \in Serves(t)
  BY <1>1 DEF Serves
<1> QED
  BY <1>2, <1>3

\* A request of any kind keeps keys and holders; a CANCEL is the only one that
\* takes back keys, and nobody else works on its row.
LEMMA RequestStock ==
  ASSUME Orderly, KeyOpsInv, StockInv, NEW t \in Tasks, Request(t)
  PROVE  StockInv'
<1>1. PICK o \in Orders : Reserve(t, o) \/ Provide(t, o) \/ Cancel(t, o) \/ ReplacementReserve(t, o)
  BY DEF Request
<1>2. CASE \E l \in {"claim", "replay", "prov_read", "release", "repl_read"} :
             \E j : Begin(t, o, l, j)
  <2>1. PICK l \in {"claim", "replay", "prov_read", "release", "repl_read"} :
          \E j : Begin(t, o, l, j)
    BY <1>2
  <2>2. pc[t] # "ret_flip" /\ l \notin Taking /\ TypeOK /\ UNCHANGED dbVars
    BY <2>1 DEF Begin, Start, Taking, KeyOpsInv
  <2>3. \E j : Continue(t, l, j)
    BY <2>1 DEF Begin, Start
  <2> QED
    BY <2>2, <2>3, GoesOnCalmly, CalmKeeps
<1>3. CASE Cancel(t, o)
  <2>1. PICK r \in PickForCancel(o) :
          \/ Begin(t, o, "ret_read", [NoJob EXCEPT !.row = r])
          \/ Begin(t, o, "release", [NoJob EXCEPT !.row = r, !.target = "cancelled"])
    BY <1>3 DEF Cancel
  <2>2. CASE Begin(t, o, "ret_read", [NoJob EXCEPT !.row = r])
    <3>1. r \in RowsFor(o)
      BY DEF PickForCancel, Newest, NewestTwo
    <3>2. \A u \in Tasks : Row(u) # r
      BY <2>2, <3>1, RowsAreFamily DEF Begin, MayStart, Orderly
    <3> DEFINE j == [[NoJob EXCEPT !.row = r] EXCEPT !.order = o]
    <3>3. pc[t] = "idle" /\ Continue(t, "ret_read", j) /\ UNCHANGED dbVars
      BY <2>2 DEF Begin, Start
    <3>4. j.row = r
      BY DEF NoJob
    <3> HIDE DEF j
    <3> QED
      BY <3>2, <3>3, <3>4, TakingGoesOn DEF Taking
  <2> QED
    BY <1>2, <2>1, <2>2
<1>4. Reserve(t, o) \/ Provide(t, o) \/ ReplacementReserve(t, o) =>
        \E l \in {"claim", "replay", "prov_read", "release", "repl_read"} :
          \E j : Begin(t, o, l, j)
  BY DEF Reserve, Provide, ReplacementReserve
<1> QED
  BY <1>1, <1>2, <1>3, <1>4

\* A write-off makes keys faulty, which nobody can claim.
LEMMA ReplacementStock ==
  ASSUME KeyOpsInv, StockInv, NEW t \in Tasks, ReplacementSteps(t)
  PROVE  StockInv'
<1>1. TypeOK /\ {"claim", "repl_faulty", "repl_debit"} \intersect Taking = {}
  BY DEF KeyOpsInv, Taking
<1>2. \E l \in {"claim", "repl_faulty", "repl_debit"} : \E j : Continue(t, l, j)
  BY DEF ReplacementSteps, ReplacementRead, ReplacementFaulty, ReplacementDebit,
         ToReplacementClaim, Goto
<1>3. pc[t] # "ret_flip" /\ UNCHANGED prov
  BY DEF ReplacementSteps, ReplacementRead, ReplacementFaulty, ReplacementDebit,
         SetOrder, dbVars, rowVars
<1>4. UNCHANGED keyState \/ \E S : SetKeys(S, "faulty")
  BY DEF ReplacementSteps, ReplacementRead, ReplacementFaulty, ReplacementDebit,
         SetOrder, dbVars, keyVars
<1>5. \A k \in Keys : keyState'[k] \in Free => keyState[k] \in Free
  BY <1>4 DEF SetKeys, Free
<1>6. Calm(t)
  BY <1>1, <1>2, <1>3, <1>5 DEF Calm, StepOf, Continue, TypeOK
<1> QED
  BY <1>6, CalmKeeps

\* Every step of a request, the sweep and nothing else.
LEMMA NextStock ==
  ASSUME Orderly, KeyOpsInv, StockInv, [Next]_vars
  PROVE  StockInv'
<1>1. ASSUME NEW t \in Workers, Request(t)
      PROVE  StockInv'
  BY <1>1, TasksAre, RequestStock
<1>2. ASSUME NEW t \in Workers, WorkerStep(t)
      PROVE  StockInv'
  <2>1. t \in Tasks /\ "idle" \notin Taking /\ AfterProvision(t) \notin Taking
    BY TasksAre DEF AfterProvision, Taking
  <2>2. CASE ClaimSteps(t)
    BY <2>1, <2>2, ClaimStepsStock DEF ClaimSteps
  <2>3. CASE ProvideSteps(t)
    BY <2>1, <2>3, ProvideStepsStock, SaleStepsStock DEF ProvideSteps
  <2>4. CASE ReturnSteps(t)
    BY <2>1, <2>4, ReturnStepsStock DEF Orderly
  <2>5. CASE ReplacementSteps(t)
    BY <2>1, <2>5, ReplacementStock
  <2>6. CASE Release(t, "idle") \/ ReleaseStatus(t, "idle")
    BY <2>1, <2>6, ReleaseStepsStock
  <2> QED
    BY <1>2, <2>2, <2>3, <2>4, <2>5, <2>6 DEF WorkerStep
<1>3. CASE CronStart \/ SweepNext \/ SweepRelease
  BY <1>3, SweepStock DEF CronStart
<1>4. CASE \E t \in Tasks : Crash(t)
  BY <1>4 DEF Crash, CanFail, Orderly
<1>5. CASE UNCHANGED vars
  BY <1>5, StutterStock
<1> QED
  BY <1>1, <1>2, <1>3, <1>4, <1>5 DEF Next

\* The invariant behind the two theorems that follow.
THEOREM EnebaStock ==
  ASSUME Orderly
  PROVE  Spec => []StockInv
<1>1. Init => StockInv
  BY InitStock
<1>2. KeyOpsInv /\ StockInv /\ [Next]_vars => StockInv'
  BY NextStock
<1> QED
  BY <1>1, <1>2, EnebaKeyOps, PTL DEF Spec

\* No key is promised to two buyers, when requests about one order do not
\* overlap and no return is cut short.
THEOREM EnebaOneHolder ==
  ASSUME Orderly
  PROVE  Spec => []OneHolder
<1>1. StockInv => OneHolder
  BY StockIsFreeFollows
<1> QED
  BY <1>1, EnebaStock, PTL

\* Stock that can be claimed is nobody's, under the same conditions; where
\* requests overlap, two CANCELs of one order break it.
THEOREM EnebaStockIsFree ==
  ASSUME Orderly
  PROVE  Spec => []StockIsFree
<1>1. StockInv => StockIsFree
  BY StockIsFreeFollows
<1> QED
  BY <1>1, EnebaStock, PTL
-------------------------------------------------------------------------------
(* The books, whatever overlaps, when no PROVIDE dies or fails between the   *)
(* delivery and the books.                                                   *)

Booked == {"crash", "write", "decrypt"} \intersect Faults = {}

\* the rows whose delivery is a sale
Sales == {r \in Reservations : ~IsReplacement(r)}

\* A request starts before any sale.
LEMMA RequestRecord ==
  ASSUME KeyOpsInv, RecordInv(Sales), NEW t \in Tasks, Request(t)
  PROVE  RecordInv(Sales)'
<1>1. PICK o \in Orders : Reserve(t, o) \/ Provide(t, o) \/ Cancel(t, o) \/ ReplacementReserve(t, o)
  BY DEF Request
<1>2. PICK l \in {"claim", "replay", "prov_read", "release", "ret_read", "repl_read"} :
        \E j : Begin(t, o, l, j)
  BY <1>1 DEF Reserve, Provide, Cancel, ReplacementReserve
<1>3. /\ TypeOK /\ Sales \in SUBSET Reservations
      /\ l \notin Selling \union Ledger /\ pc[t] \notin Selling
      /\ UNCHANGED <<orders, prov>> /\ \E j : Continue(t, l, j)
  BY <1>2 DEF KeyOpsInv, Sales, Begin, Start, dbVars, Selling, Ledger
<1> QED
  BY <1>3, GoesAside, AsideKeeps

\* A write-off leaves the sale of the key's order in the books.
LEMMA ReplacementRecord ==
  ASSUME KeyOpsInv, RecordInv(Sales), NEW t \in Tasks, ReplacementSteps(t)
  PROVE  RecordInv(Sales)'
<1>1. /\ TypeOK /\ Sales \in SUBSET Reservations
      /\ {"claim", "repl_faulty", "repl_debit"} \intersect (Selling \union Ledger) = {}
  BY DEF KeyOpsInv, Sales, Selling, Ledger
<1>2. \E l \in {"claim", "repl_faulty", "repl_debit"} : \E j : Continue(t, l, j)
  BY DEF ReplacementSteps, ReplacementRead, ReplacementFaulty, ReplacementDebit,
         ToReplacementClaim, Goto
<1>3. pc[t] \notin Selling /\ UNCHANGED prov
  BY DEF ReplacementSteps, ReplacementRead, ReplacementFaulty, ReplacementDebit,
         SetOrder, dbVars, rowVars, Selling
<1>4. CASE UNCHANGED orders
  BY <1>1, <1>2, <1>3, <1>4, GoesAside, AsideKeeps
<1>5. CASE ~UNCHANGED orders
  <2>1. pc[t] = "repl_debit"
        /\ orders' = [orders EXCEPT ![job[t].link] =
                        [orders[job[t].link] EXCEPT !.writeOff = @ + 1]]
    BY <1>5 DEF ReplacementSteps, ReplacementRead, ReplacementFaulty, ReplacementDebit,
                SetOrder, dbVars
  <2>2. PICK r \in Reservations : r = job[t].link
    BY <2>1, Mover DEF Relies
  <2>3. PICK p \in OrderRows : p = orders[r]
    BY <1>1 DEF TypeOK, DbTypeOK
  <2> DEFINE o == [p EXCEPT !.writeOff = @ + 1]
  <2>4. o.rows = p.rows /\ o.credit = p.credit /\ o.total = p.total /\ o.status = p.status
    BY DEF OrderRows
  <2>5. orders' = [orders EXCEPT ![r] = o]
    BY <2>1, <2>2, <2>3
  <2> HIDE DEF o
  <2>6. StepOf(t) /\ pc'[t] \in {"claim", "repl_faulty", "repl_debit"}
    BY <1>1, <1>2 DEF StepOf, Continue, TypeOK
  <2>7. pc'[t] \notin Selling /\ pc'[t] \notin Ledger
    BY <1>1, <2>6
  <2> QED
    BY <1>1, <1>3, <2>3, <2>4, <2>5, <2>6, <2>7, WriteKeepsRecord
<1> QED
  BY <1>4, <1>5

\* Every step of a request and of the sweep.
LEMMA NextRecord ==
  ASSUME Booked, KeyOpsInv, RecordInv(Sales), [Next]_vars
  PROVE  RecordInv(Sales)'
<1>0. Sales \in SUBSET Reservations
  BY DEF Sales
<1>1. ASSUME NEW t \in Workers, Request(t)
      PROVE  RecordInv(Sales)'
  BY <1>1, TasksAre, RequestRecord
<1>2. ASSUME NEW t \in Workers, WorkerStep(t)
      PROVE  RecordInv(Sales)'
  <2>1. t \in Tasks /\ "write" \notin Faults /\ "decrypt" \notin Faults
    BY TasksAre DEF Booked
  <2>2. CASE ClaimSteps(t)
    BY <1>0, <2>1, <2>2, ClaimStepsRecord DEF ClaimSteps
  <2>3. CASE SaleSteps(t)
    BY <1>0, <2>1, <2>3, SaleStepsRecord
  <2>4. CASE \/ ProvisionRead(t, "idle") \/ ProvisionFinalize(t, "idle")
             \/ ProvisionDecrypt(t, AfterProvision(t), "idle") \/ Replay(t) \/ Reply(t)
    <3>1. \/ AfterProvision(t) = "sale_check"
          \/ AfterProvision(t) = "reply" /\ Row(t) \notin Sales
      BY DEF AfterProvision, Sales
    <3>2. "idle" \notin Selling \union Ledger
      BY DEF Selling, Ledger
    <3> QED
      BY <1>0, <2>1, <2>4, <3>1, <3>2, ProvideStepsRecord
  <2>5. CASE ReturnSteps(t)
    BY <1>0, <2>1, <2>5, ReturnStepsRecord
  <2>6. CASE ReplacementSteps(t)
    BY <2>1, <2>6, ReplacementRecord
  <2>7. CASE Release(t, "idle") \/ ReleaseStatus(t, "idle")
    BY <1>0, <2>1, <2>7, ReleaseStepsRecord
  <2> QED
    BY <1>2, <2>2, <2>3, <2>4, <2>5, <2>6, <2>7 DEF WorkerStep, ProvideSteps
<1>3. CASE CronStart \/ SweepNext \/ SweepRelease
  BY <1>0, <1>3, SweepRecord DEF CronStart
<1>4. CASE \E t \in Tasks : Crash(t)
  BY <1>4 DEF Crash, CanFail, Booked
<1>5. CASE UNCHANGED vars
  BY <1>0, <1>5, StutterRecord
<1> QED
  BY <1>1, <1>2, <1>3, <1>4, <1>5 DEF Next

\* Every sale whose keys were delivered is in the books once nobody works on it,
\* however many PROVIDEs, CANCELs and sweeps overlap or repeat.
THEOREM EnebaSoldIsRecorded ==
  ASSUME Booked
  PROVE  Spec => []SoldIsRecorded
<1>1. Init => RecordInv(Sales)
  BY InitRecord DEF Sales
<1>2. KeyOpsInv /\ RecordInv(Sales) /\ [Next]_vars => RecordInv(Sales)'
  BY NextRecord
<1>3. RecordInv(Sales) => SoldIsRecorded
  <2> SUFFICES ASSUME RecordInv(Sales), NEW o \in Orders, ~Working(Sale(o)), EverProvisioned(Sale(o))
               PROVE  Recorded(Sale(o))
    BY DEF SoldIsRecorded, Recorded
  <2>1. Sale(o) \in Sales
    BY RowsForExist DEF Sales, Sale, IsReplacement
  <2>2. \A t \in Tasks : Row(t) # Sale(o)
    BY DEF Working
  <2> QED
    BY <2>1, <2>2 DEF RecordInv, ProvisionedIsRecorded
<1> QED
  BY <1>1, <1>2, <1>3, EnebaKeyOps, PTL DEF Spec

-------------------------------------------------------------------------------
(* Rows and orders, when requests about one order follow each other and      *)
(* nothing but reads and the marketplace fails.                              *)

Calls == ~Overlap /\ Reliable

\* the rows whose delivery is no sale
Replacements == {r \in Reservations : IsReplacement(r)}

\* orders of one family are served by one task
FamilyAlone ==
  \A t, u \in Tasks, o, p \in Orders :
    o \in Serves(t) /\ p \in Serves(u) /\ Original[o] = Original[p] => t = u

\* Eneba names no refund
NoEvents == \A t \in Tasks : job[t].event = 0

Together == FamilyAlone /\ NoEvents

EnebaRestInv == RestInv(Replacements) /\ Together

\* Whoever works on a row serves its order.
LEMMA BusyServes ==
  ASSUME NEW t \in Tasks, NEW r \in Reservations, Busy(t, r)
  PROVE  OrderOf(r) \in Serves(t) /\ OrderOf(r) \in Orders
<1>1. r # NoRow
  BY NoRowIsNoRow
<1> QED BY <1>1, RowsAre DEF Busy, Serves, OrderOf

\* A task that takes up no other order.
LEMMA ServesOn ==
  ASSUME Together, NEW t \in Tasks, StepOf(t), job'[t].event = 0,
         \A o \in Orders : o \in Serves(t)' => o \in Serves(t)
  PROVE  Together'
<1>1. \A u \in Tasks : u # t => Serves(u)' = Serves(u)
  BY DEF StepOf, Serves, Row
<1>2. FamilyAlone'
  BY <1>1 DEF Together, FamilyAlone
<1>3. NoEvents'
  BY DEF Together, NoEvents, StepOf
<1> QED BY <1>2, <1>3 DEF Together

\* A task that keeps its order and its rows, or ends, takes up nothing.
LEMMA StaysOn ==
  ASSUME Together, NEW t \in Tasks, KeepsRows(t)
  PROVE  Together'
<1>1. job'[t].event = 0
  BY NothingLeft DEF KeepsRows, Together, NoEvents
<1>2. \A o \in Orders : o \in Serves(t)' => o \in Serves(t)
  BY NoOrderIsNoOrder DEF KeepsRows, Serves, Row, NoJob
<1> QED BY <1>1, <1>2, ServesOn DEF KeepsRows

-------------------------------------------------------------------------------
(* Tasks that start.                                                         *)

\* Nobody works on a row of a family nobody serves.
LEMMA FamilyIsFree ==
  ASSUME ~Overlap, NEW o \in Orders, MayStart(o), NEW r \in Reservations, OrderOf(r) \in Family(o)
  PROVE  \A u \in Tasks : ~Busy(u, r)
BY BusyServes DEF MayStart

\* The rows of an order, and the order itself, belong to its family.
LEMMA FamilyRows ==
  ASSUME NEW o \in Orders
  PROVE  /\ o \in Family(o) /\ OrderOf(Sale(o)) = o /\ OrderOf(Replacement(o)) = o
         /\ \A r \in RowsFor(o) : OrderOf(r) \in Family(o)
<1>1. o \in Family(o) /\ OrderOf(Sale(o)) = o /\ OrderOf(Replacement(o)) = o
  BY DEF Family, OrderOf, Sale, Replacement
<1>2. \A r \in RowsFor(o) : OrderOf(r) \in Orders
  BY RowsAre DEF RowsFor, Existing, OrderOf
<1> QED BY <1>1, <1>2, OriginalType DEF RowsFor, Candidates, Family

\* A request starts on a row of its family, at a label whose stage holds.
LEMMA BeginRests ==
  ASSUME Calls, KeyOpsInv, EnebaRestInv, NEW t \in Tasks, NEW o \in Orders,
         NEW j \in Jobs, NEW l \in Labels, Begin(t, o, l, j),
         j.row \in Reservations, OrderOf(j.row) \in Family(o), j.batch = {}, j.event = 0,
         l \in {"claim", "replay", "prov_read", "release", "ret_read", "repl_read"},
         l = "claim" => j.qty >= 1,
         l \in {"prov_read", "release"} => resv[j.row] = "pending",
         l = "ret_read" => resv[j.row] = "provisioned" /\ j.qty = 0
  PROVE  EnebaRestInv'
<1>1. PICK i : i = [j EXCEPT !.order = o]
  OBVIOUS
<1>2. /\ i.order = o /\ i.row = j.row /\ i.batch = {} /\ i.qty = j.qty /\ i.event = 0
  BY <1>1 DEF Jobs
<1>3. Start(t, l, i) /\ UNCHANGED dbVars /\ MayStart(o)
  BY <1>1 DEF Begin
<1>4. Stage(l, i, Replacements)
  BY <1>2 DEF Stage, OpenStage, SaleStage, ReturnStage, LedgerStage, Due
<1>5. \A u \in Tasks : ~Busy(u, i.row)
  BY <1>2, <1>3, FamilyIsFree DEF Calls
<1>6. RestInv(Replacements)'
  BY <1>2, <1>3, <1>4, <1>5, StartRests DEF EnebaRestInv
<1>7. StepOf(t) /\ job'[t] = i
  BY <1>3 DEF Start, Continue, StepOf, KeyOpsInv, TypeOK
<1>8. \A p \in Orders : p \in Serves(t)' => p \in Family(o)
  BY <1>2, <1>7, FamilyRows DEF Serves, Row
<1>9. \A u \in Tasks : u # t => Serves(u)' = Serves(u)
  BY <1>7 DEF StepOf, Serves, Row
<1>10. \A u \in Tasks, p \in Orders : p \in Serves(u) => Original[p] # Original[o]
  BY <1>3 DEF MayStart, Calls, Family
<1>11. FamilyAlone'
  BY <1>8, <1>9, <1>10 DEF FamilyAlone, EnebaRestInv, Together, Family
<1>12. NoEvents'
  BY <1>2, <1>7 DEF NoEvents, EnebaRestInv, Together, StepOf
<1> QED BY <1>6, <1>11, <1>12 DEF EnebaRestInv, Together

\* The locals of a request name no refund.
LEMMA Unnamed ==
  ASSUME NEW r \in Reservations
  PROVE  /\ \A q \in Nat : LET j == [NoJob EXCEPT !.row = r, !.qty = q] IN j.event = 0 /\ j.qty = q
         /\ LET j == [NoJob EXCEPT !.row = r] IN j.event = 0 /\ j.qty = 0
         /\ LET j == [NoJob EXCEPT !.row = r, !.target = "cancelled"] IN j.event = 0
BY DEF NoJob

\* Requests of any kind.
LEMMA RequestRests ==
  ASSUME Calls, KeyOpsInv, EnebaRestInv, NEW t \in Tasks, Request(t)
  PROVE  EnebaRestInv'
<1>1. PICK o \in Orders : Reserve(t, o) \/ Provide(t, o) \/ Cancel(t, o) \/ ReplacementReserve(t, o)
  BY DEF Request
<1> USE DEF Labels
<1>2. CASE \E r \in {Sale(o), Replacement(o)}, q \in Nat \ {0} :
             Begin(t, o, "claim", [NoJob EXCEPT !.row = r, !.qty = q])
  <2>1. PICK r \in {Sale(o), Replacement(o)}, q \in Nat \ {0} :
               Begin(t, o, "claim", [NoJob EXCEPT !.row = r, !.qty = q])
    BY <1>2
  <2>2. r \in Reservations /\ OrderOf(r) \in Family(o)
    BY RowsForExist, FamilyRows
  <2>3. PICK j : j = [NoJob EXCEPT !.row = r, !.qty = q]
    OBVIOUS
  <2>4. j \in Jobs /\ j.row = r /\ j.batch = {}
    BY <2>2, <2>3, Locals
  <2>5. j.event = 0 /\ j.qty = q /\ q >= 1
    BY <2>3 DEF NoJob
  <2> QED BY <2>1, <2>2, <2>3, <2>4, <2>5, BeginRests
<1>3. CASE \E r \in RowsFor(o) :
             \E l \in {"replay", "prov_read", "ret_read", "repl_read"} :
               /\ Begin(t, o, l, [NoJob EXCEPT !.row = r])
               /\ l = "prov_read" => resv[r] = "pending"
               /\ l = "ret_read" => resv[r] = "provisioned"
  <2>1. PICK r \in RowsFor(o) :
             \E l \in {"replay", "prov_read", "ret_read", "repl_read"} :
               /\ Begin(t, o, l, [NoJob EXCEPT !.row = r])
               /\ l = "prov_read" => resv[r] = "pending"
               /\ l = "ret_read" => resv[r] = "provisioned"
    BY <1>3
  <2>2. r \in Reservations /\ OrderOf(r) \in Family(o)
    BY RowsForExist, FamilyRows
  <2>3. PICK j : j = [NoJob EXCEPT !.row = r]
    OBVIOUS
  <2>4. j \in Jobs /\ j.row = r /\ j.batch = {} /\ j.event = 0 /\ j.qty = 0
    BY <2>2, <2>3, Locals, Unnamed
  <2> QED BY <2>1, <2>2, <2>3, <2>4, BeginRests
<1>4. CASE \E r \in RowsFor(o) :
             /\ resv[r] = "pending"
             /\ Begin(t, o, "release", [NoJob EXCEPT !.row = r, !.target = "cancelled"])
  <2>1. PICK r \in RowsFor(o) :
             /\ resv[r] = "pending"
             /\ Begin(t, o, "release", [NoJob EXCEPT !.row = r, !.target = "cancelled"])
    BY <1>4
  <2>2. r \in Reservations /\ OrderOf(r) \in Family(o)
    BY RowsForExist, FamilyRows
  <2>3. PICK j : j = [NoJob EXCEPT !.row = r, !.target = "cancelled"]
    OBVIOUS
  <2>4. j \in Jobs /\ j.row = r /\ j.batch = {} /\ j.event = 0
    BY <2>2, <2>3, Locals, Unnamed
  <2> QED BY <2>1, <2>2, <2>3, <2>4, BeginRests
<1>5. CASE Reserve(t, o)
  BY <1>2, <1>5, QuantityType DEF Reserve
<1>6. CASE Provide(t, o)
  <2>1. PICK r \in PickForProvide(o) :
          /\ resv[r] \in {"pending", "provisioned"}
          /\ Begin(t, o, IF resv[r] = "provisioned" THEN "replay" ELSE "prov_read",
                   [NoJob EXCEPT !.row = r])
    BY <1>6 DEF Provide
  <2>2. r \in RowsFor(o)
    BY DEF PickForProvide, Newest
  <2>3. CASE resv[r] = "provisioned"
    BY <1>3, <2>1, <2>2, <2>3
  <2>4. CASE resv[r] = "pending"
    BY <1>3, <2>1, <2>2, <2>4
  <2> QED BY <2>1, <2>3, <2>4
<1>7. CASE Cancel(t, o)
  <2>1. PICK r \in PickForCancel(o) :
          \/ resv[r] = "provisioned" /\ Begin(t, o, "ret_read", [NoJob EXCEPT !.row = r])
          \/ /\ resv[r] = "pending"
             /\ Begin(t, o, "release", [NoJob EXCEPT !.row = r, !.target = "cancelled"])
    BY <1>7 DEF Cancel
  <2>2. r \in RowsFor(o)
    BY DEF PickForCancel, Newest, NewestTwo
  <2> QED BY <1>3, <1>4, <2>1, <2>2
<1>8. CASE ReplacementReserve(t, o)
  <2>1. \/ \E r \in RowsFor(o) : Begin(t, o, "repl_read", [NoJob EXCEPT !.row = r])
        \/ Begin(t, o, "claim", [NoJob EXCEPT !.row = Replacement(o), !.qty = 1])
    BY <1>8 DEF ReplacementReserve, Newest
  <2>2. 1 \in Nat \ {0}
    OBVIOUS
  <2> QED BY <1>2, <1>3, <2>1, <2>2
<1> QED BY <1>1, <1>5, <1>6, <1>7, <1>8

\* The sweep starts with rows of families nobody serves.
LEMMA CronStartRests ==
  ASSUME Calls, KeyOpsInv, EnebaRestInv, CronStart
  PROVE  EnebaRestInv'
<1>1. PICK rows : rows = {r \in Reservations : MayStart(OrderOf(r))}
  OBVIOUS
<1>2. \A r \in rows : r \in Reservations /\ OrderOf(r) \in Orders /\ MayStart(OrderOf(r))
  BY <1>1, RowsAre DEF OrderOf
<1>3. \A r \in rows, u \in Tasks : ~Busy(u, r)
  BY <1>2, FamilyRows, FamilyIsFree DEF Calls
<1>4. RestInv(Replacements)'
  BY <1>1, <1>2, <1>3, SweepStartRests DEF CronStart, EnebaRestInv
<1>5. PICK batch \in SUBSET rows : Start(Cron, "cron_next", [NoJob EXCEPT !.batch = batch])
  BY <1>1 DEF CronStart, SweepStart
<1>6. PICK j : j = [NoJob EXCEPT !.batch = batch]
  OBVIOUS
<1>7. j.batch = batch /\ j.row = NoRow /\ j.order = NoOrder /\ j.event = 0
  BY <1>6 DEF NoJob
<1>8. StepOf(Cron) /\ job'[Cron] = j /\ Cron \in Tasks
  BY <1>5, <1>6, TasksAre DEF Start, Continue, StepOf, KeyOpsInv, TypeOK
<1>9. \A p \in Orders : p \in Serves(Cron)' => \E r \in rows : p = OrderOf(r)
  BY <1>7, <1>8, NoOrderIsNoOrder DEF Serves, Row
<1>10. \A u \in Tasks : u # Cron => Serves(u)' = Serves(u)
  BY <1>8 DEF StepOf, Serves, Row
<1>11. \A r \in rows, u \in Tasks, p \in Orders : p \in Serves(u) => Original[p] # Original[OrderOf(r)]
  BY <1>2 DEF MayStart, Calls, Family
<1>12. FamilyAlone'
  BY <1>8, <1>9, <1>10, <1>11 DEF FamilyAlone, EnebaRestInv, Together
<1>13. NoEvents'
  BY <1>7, <1>8 DEF NoEvents, EnebaRestInv, Together, StepOf
<1> QED BY <1>4, <1>12, <1>13 DEF EnebaRestInv, Together

\* It goes on with a row of its batch.
LEMMA SweepNextStays ==
  ASSUME KeyOpsInv, Together, SweepNext
  PROVE  Together'
<1>1. Cron \in Tasks /\ job[Cron] \in Jobs
  BY TasksAre DEF KeyOpsInv, TypeOK
<1>2. CASE Goto(Cron, "idle")
  BY <1>1, <1>2, StaysOn DEF Goto, Continue, KeepsRows, StepOf, KeyOpsInv, TypeOK
<1>3. CASE ~Goto(Cron, "idle")
  <2>1. PICK r \in job[Cron].batch :
          Continue(Cron, "release", [NoJob EXCEPT !.row = r, !.target = "expired",
                                                  !.batch = job[Cron].batch \ {r}])
    BY <1>3 DEF SweepNext
  <2>2. PICK j : j = [NoJob EXCEPT !.row = r, !.target = "expired",
                                   !.batch = job[Cron].batch \ {r}]
    OBVIOUS
  <2>3. j.row = r /\ j.batch = job[Cron].batch \ {r} /\ j.order = NoOrder /\ j.event = 0
    BY <2>2 DEF NoJob
  <2>4. StepOf(Cron) /\ job'[Cron] = j
    BY <1>1, <2>1, <2>2 DEF Continue, StepOf, KeyOpsInv, TypeOK
  <2>5. \A o \in Orders : o \in Serves(Cron)' => o \in Serves(Cron)
    BY <2>3, <2>4, NoOrderIsNoOrder DEF Serves, Row
  <2> QED BY <1>1, <2>3, <2>4, <2>5, ServesOn
<1> QED BY <1>2, <1>3

-------------------------------------------------------------------------------
(* Replacements.                                                             *)

\* The claim of a replacement is for a row of the order the task serves.
LEMMA ClaimIsFree ==
  ASSUME KeyOpsInv, EnebaRestInv, NEW t \in Tasks, pc[t] \in {"repl_read", "repl_faulty", "repl_debit"},
         UNCHANGED resv, NEW j,
         j = [NoJob EXCEPT !.order = job[t].order, !.qty = 1, !.row = Replacement(job[t].order)]
  PROVE  /\ Stage("claim", j, Replacements)'
         /\ \A q \in Reservations : j.row = q \/ q \in j.batch => \A u \in Tasks : u # t => ~Busy(u, q)
<1>1. PICK o \in Orders : o = job[t].order
  BY Mover DEF Relies
<1>2. j.row = Replacement(o) /\ j.batch = {} /\ j.qty = 1
  BY <1>1 DEF NoJob
<1>3. Stage("claim", j, Replacements)
  <2>1. /\ "claim" \in Plain /\ j.qty >= 1
        /\ \A q \in j.batch : resv[q] = "pending"
        /\ j.row \notin j.batch
    BY <1>2 DEF Plain
  <2> QED BY <2>1, PlainStage
<1>4. Stage("claim", j, Replacements)'
  BY <1>3, SameStage DEF Plain
<1>5. \A q \in Reservations : j.row = q \/ q \in j.batch => \A u \in Tasks : u # t => ~Busy(u, q)
  BY <1>1, <1>2, BusyServes, FamilyRows DEF EnebaRestInv, Together, FamilyAlone, Serves
<1> QED BY <1>4, <1>5

\* Going on to it serves no other order.
LEMMA ToClaimStays ==
  ASSUME KeyOpsInv, Together, NEW t \in Tasks, ToReplacementClaim(t),
         pc[t] \in {"repl_read", "repl_faulty", "repl_debit"}
  PROVE  Together'
<1>1. PICK o \in Orders : o = job[t].order
  BY Mover DEF Relies
<1>2. PICK j : j = [NoJob EXCEPT !.order = job[t].order, !.qty = 1, !.row = Replacement(job[t].order)]
  OBVIOUS
<1>3. j.row = Replacement(o) /\ j.batch = {} /\ j.order = o /\ j.event = 0
  BY <1>1, <1>2 DEF NoJob
<1>4. StepOf(t) /\ job'[t] = j
  BY <1>2 DEF ToReplacementClaim, Continue, StepOf, KeyOpsInv, TypeOK
<1>5. \A p \in Orders : p \in Serves(t)' => p \in Serves(t)
  BY <1>1, <1>3, <1>4, FamilyRows DEF Serves, Row
<1> QED BY <1>3, <1>4, <1>5, ServesOn

\* Reading the key to write off, or writing it off, changes no row.
LEMMA ReplacementReadRests ==
  ASSUME KeyOpsInv, EnebaRestInv, NEW t \in Tasks, ReplacementRead(t) \/ ReplacementDebit(t)
  PROVE  EnebaRestInv'
<1>1. /\ pc[t] \in {"repl_read", "repl_debit"} /\ pc[t] # "ret_flip" /\ pc[t] \notin Midway
      /\ RestInv(Replacements) /\ Together /\ job[t] \in Jobs
  BY Mover DEF ReplacementRead, ReplacementDebit, Midway, EnebaRestInv
<1>2. UNCHANGED <<keyState, prov, resv>> /\ \A q \in Reservations : SameBooks(q)
  <2>1. CASE UNCHANGED dbVars
    BY <2>1 DEF dbVars, SameBooks
  <2>2. CASE ~UNCHANGED dbVars
    <3>1. /\ SetOrder(job[t].link, [orders[job[t].link] EXCEPT !.writeOff = @ + 1])
          /\ pc[t] = "repl_debit"
      BY <2>2 DEF ReplacementRead, ReplacementDebit
    <3>2. PICK r \in Reservations : r = job[t].link
      BY <3>1, Mover DEF Relies
    <3>3. PICK p \in OrderRows : p = orders[r]
      BY DEF KeyOpsInv, TypeOK, DbTypeOK
    <3>4. PICK o : o = [p EXCEPT !.writeOff = @ + 1]
      OBVIOUS
    <3>5. /\ o.status = p.status /\ o.total = p.total /\ o.refunded = p.refunded
          /\ o.events = p.events
      BY <3>4 DEF OrderRows
    <3>6. orders' = [orders EXCEPT ![r] = o]
      BY <3>1, <3>2, <3>3, <3>4 DEF SetOrder
    <3>7. \A q \in Reservations : orders'[q] = IF q = r THEN o ELSE orders[q]
      BY <3>6 DEF KeyOpsInv, TypeOK, DbTypeOK
    <3> QED BY <3>1, <3>3, <3>5, <3>7 DEF SetOrder, keyVars, rowVars, SameBooks
  <2> QED BY <2>1, <2>2
<1>3. CASE ToReplacementClaim(t)
  <2>1. PICK j : j = [NoJob EXCEPT !.order = job[t].order, !.qty = 1,
                                   !.row = Replacement(job[t].order)]
    OBVIOUS
  <2>2. Continue(t, "claim", j)
    BY <1>3, <2>1 DEF ToReplacementClaim
  <2>3. /\ Stage("claim", j, Replacements)'
        /\ \A q \in Reservations : j.row = q \/ q \in j.batch => \A u \in Tasks : u # t => ~Busy(u, q)
    BY <1>1, <1>2, <2>1, ClaimIsFree
  <2>4. RestInv(Replacements)'
    BY <1>1, <1>2, <2>2, <2>3, WritesNothing
  <2> QED BY <1>1, <1>3, <2>4, ToClaimStays DEF EnebaRestInv
<1>4. CASE ~ToReplacementClaim(t)
  <2>1. PICK k : /\ Continue(t, "repl_faulty", [job[t] EXCEPT !.keys = {k}, !.link = keyOrder[k]])
                 /\ UNCHANGED dbVars
    BY <1>4 DEF ReplacementRead, ReplacementDebit
  <2>2. PICK j : j = [job[t] EXCEPT !.keys = {k}, !.link = keyOrder[k]]
    OBVIOUS
  <2>3. /\ j.row = job[t].row /\ j.batch = job[t].batch
        /\ j.order = job[t].order /\ j.event = job[t].event
    BY <1>1, <2>2 DEF Jobs
  <2>4. RestInv(Replacements)'
    BY <1>1, <2>1, <2>2, <2>3, PlainOn DEF Plain
  <2>5. KeepsRows(t)
    BY <2>1, <2>2, <2>3 DEF KeepsRows, StepOf, Continue, KeyOpsInv, TypeOK
  <2> QED BY <1>1, <2>4, <2>5, StaysOn DEF EnebaRestInv
<1> QED BY <1>3, <1>4

\* Marking a key faulty leaves every row at rest.
LEMMA ReplacementFaultyRests ==
  ASSUME KeyOpsInv, EnebaRestInv, "write" \notin Faults, NEW t \in Tasks, ReplacementFaulty(t)
  PROVE  EnebaRestInv'
<1>1. /\ pc[t] = "repl_faulty" /\ SetKeys(job[t].keys, "faulty") /\ UNCHANGED <<prov, resv, orders>>
      /\ ToReplacementClaim(t) \/ Goto(t, "repl_debit")
  BY DEF ReplacementFaulty, CanFail, rowVars
<1>2. /\ pc[t] \notin Rowless \union Midway /\ pc[t] # "ret_flip"
      /\ RestInv(Replacements) /\ Together /\ job[t] \in Jobs
  BY <1>1, Mover DEF Rowless, Midway, EnebaRestInv
<1>3. PICK r \in Reservations : r = Row(t)
  BY <1>2, OwnRow
<1>4. \A q \in Reservations : Leaves(q)
  BY <1>1 DEF Leaves, SameBooks, SetKeys, KeysWith
<1>5. Rests(r, Replacements)'
  BY <1>2, <1>3, <1>4, OwnRow, ClosedNotTaken, RestsOn
<1>6. PICK l, j : Continue(t, l, j)
  BY <1>1 DEF ToReplacementClaim, Goto
<1>7. StepOf(t)
  BY <1>6 DEF StepOf, Continue, KeyOpsInv, TypeOK
<1>8. HeldStates'
  <2>1. \A k \in Keys : keyState'[k] # keyState[k] => keyState'[k] = "faulty"
    BY <1>1 DEF SetKeys
  <2> QED BY <1>1, <1>2, <1>7, <2>1, HeldStay DEF RestInv
<1>9. CASE ToReplacementClaim(t)
  <2>1. PICK i : i = [NoJob EXCEPT !.order = job[t].order, !.qty = 1,
                                   !.row = Replacement(job[t].order)]
    OBVIOUS
  <2>2. Continue(t, "claim", i)
    BY <1>9, <2>1 DEF ToReplacementClaim
  <2>3. /\ Stage("claim", i, Replacements)'
        /\ \A q \in Reservations : i.row = q \/ q \in i.batch => \A u \in Tasks : u # t => ~Busy(u, q)
    BY <1>1, <2>1, ClaimIsFree
  <2>4. RestInv(Replacements)'
    BY <1>2, <1>3, <1>4, <1>5, <1>8, <2>2, <2>3, StepRests
  <2> QED BY <1>1, <1>2, <1>9, <2>4, ToClaimStays DEF EnebaRestInv
<1>10. CASE Goto(t, "repl_debit")
  <2>1. PICK i \in Jobs : i = job[t]
    BY <1>2
  <2>2. Continue(t, "repl_debit", i) /\ i.row = Row(t) /\ i.batch = job[t].batch
    BY <1>10, <2>1 DEF Goto, Row
  <2>3. Stage("repl_debit", i, Replacements)
    BY <1>2, <2>1, OpenRows, PlainStage DEF Plain
  <2>4. Stage("repl_debit", i, Replacements)'
    BY <1>1, <2>3, SameStage DEF Plain
  <2>5. \A q \in Reservations : i.row = q \/ q \in i.batch => \A u \in Tasks : u # t => ~Busy(u, q)
    BY <1>2, <2>2, OwnRows DEF RestInv
  <2>6. RestInv(Replacements)'
    BY <1>2, <1>3, <1>4, <1>5, <1>8, <2>2, <2>4, <2>5, StepRests
  <2>7. KeepsRows(t)
    BY <1>7, <2>1, <2>2 DEF KeepsRows, Continue, KeyOpsInv, TypeOK
  <2> QED BY <1>2, <2>6, <2>7, StaysOn DEF EnebaRestInv
<1> QED BY <1>1, <1>9, <1>10

\* Every step of a request, and of the sweep.
LEMMA NextRests ==
  ASSUME Calls, KeyOpsInv, StockInv, EnebaRestInv, [Next]_vars
  PROVE  EnebaRestInv'
<1>1. /\ RestInv(Replacements) /\ Together /\ {"rpc", "write", "refunds"} \intersect Faults = {}
      /\ "decrypt" \notin Faults /\ TypeOK
  BY DEF EnebaRestInv, Calls, Reliable, KeyOpsInv
<1>2. ASSUME NEW t \in Workers, Request(t)
      PROVE  EnebaRestInv'
  BY <1>2, TasksAre, RequestRests
<1>3. ASSUME NEW t \in Workers, WorkerStep(t)
      PROVE  EnebaRestInv'
  <2>1. t \in Tasks
    BY TasksAre
  <2>2. CASE \/ ClaimSteps(t) \/ ProvideSteps(t) \/ ReturnSteps(t)
             \/ Release(t, "idle") \/ ReleaseStatus(t, "idle")
    <3>1. Together'
      BY <1>1, <2>1, <2>2, KeyStepsStay, StaysOn DEF ClaimSteps, ProvideSteps
    <3>2. CASE ClaimSteps(t)
      BY <1>1, <2>1, <3>1, <3>2, ClaimStepsRest DEF ClaimSteps, EnebaRestInv
    <3>3. CASE ProvisionDecrypt(t, AfterProvision(t), "idle")
      <4>1. PICK ok : ok = AfterProvision(t)
        OBVIOUS
      <4>2. Row(t) \in Reservations
        BY <1>1, <2>1, <3>3, OwnRow DEF ProvisionDecrypt, Rowless
      <4>3. \/ ok = "sale_check" /\ Row(t) \notin Replacements
            \/ ok = "reply" /\ Row(t) \in Replacements
        BY <4>1, <4>2 DEF AfterProvision, Replacements
      <4> QED BY <1>1, <2>1, <3>1, <3>3, <4>1, <4>3, ProvisionDecryptRests DEF EnebaRestInv
    <3>4. CASE ProvisionRead(t, "idle") \/ ProvisionFinalize(t, "idle")
      BY <1>1, <2>1, <3>1, <3>4, ProvisionReadRests, ProvisionFinalizeRests DEF EnebaRestInv
    <3>5. CASE SaleSteps(t) \/ Replay(t) \/ Reply(t)
      BY <1>1, <2>1, <3>1, <3>5, SaleStepsRest, AnswerRests DEF EnebaRestInv
    <3>6. CASE ReturnSteps(t)
      BY <1>1, <2>1, <3>1, <3>6, ReturnStepsRest DEF EnebaRestInv, Together, NoEvents
    <3>7. CASE Release(t, "idle") \/ ReleaseStatus(t, "idle")
      BY <1>1, <2>1, <3>1, <3>7, ReleaseStepsRest DEF EnebaRestInv
    <3> QED BY <2>2, <3>2, <3>3, <3>4, <3>5, <3>6, <3>7 DEF ProvideSteps
  <2>3. CASE ReplacementSteps(t)
    BY <1>1, <2>1, <2>3, ReplacementReadRests, ReplacementFaultyRests DEF ReplacementSteps
  <2> QED BY <1>3, <2>2, <2>3 DEF WorkerStep
<1>4. CASE SweepNext
  BY <1>1, <1>4, SweepNextRests, SweepNextStays DEF EnebaRestInv
<1>5. CASE SweepRelease
  BY <1>1, <1>5, TasksAre, ReleaseStepsRest, KeyStepsStay, StaysOn DEF SweepRelease, EnebaRestInv
<1>6. CASE \E t \in Tasks : Crash(t)
  BY <1>6 DEF Crash, CanFail, Calls, Reliable
<1>7. CASE UNCHANGED vars
  <2>1. Together'
    BY <1>1, <1>7 DEF vars, Together, FamilyAlone, NoEvents, Serves, Row
  <2> QED BY <1>1, <1>7, <2>1, StutterRests DEF EnebaRestInv
<1> QED BY <1>2, <1>3, <1>4, <1>5, <1>6, <1>7, CronStartRests DEF Next

\* The invariant behind the theorem that follows.
THEOREM EnebaRowsRest ==
  ASSUME Calls
  PROVE  Spec => []EnebaRestInv
<1>1. ASSUME Init
      PROVE  EnebaRestInv
  <2>1. \A t \in Tasks : job[t] = NoJob
    BY <1>1 DEF Init
  <2>2. Together
    BY <2>1, NoOrderIsNoOrder DEF Together, FamilyAlone, NoEvents, Serves, Row, NoJob
  <2> QED BY <1>1, <2>2, InitRests DEF EnebaRestInv
<1>2. KeyOpsInv /\ StockInv /\ EnebaRestInv /\ [Next]_vars => EnebaRestInv'
  BY NextRests
<1>3. Orderly
  BY DEF Calls, Reliable, Orderly
<1> QED BY <1>1, <1>2, <1>3, EnebaKeyOps, EnebaStock, PTL DEF Spec

\* A reservation nobody works on agrees with its provisions and its order, when
\* requests about one order do not overlap and no write is lost: open with keys
\* to give, replayable once provisioned, and closed with nothing left to refund.
THEOREM EnebaRowsAgree ==
  ASSUME Calls
  PROVE  Spec => []SettledRowsAgree
<1>1. EnebaRestInv => SettledRowsAgree
  BY RestingRows DEF EnebaRestInv
<1> QED BY <1>1, EnebaRowsRest, PTL
===============================================================================
