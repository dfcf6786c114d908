--------------------- MODULE MarketplaceFulfilment_proofs ---------------------
(***************************************************************************)
(* What Kinguin, G2A and Digiseller are handed, for any number of rows,    *)
(* keys and workers, any overlap of their requests and the sweep, and any  *)
(* faults.  Books are another matter: a G2A order may sell a row again, so *)
(* the invariant of the key operations does not hold here, and MarketInv   *)
(* relates reservations, provisions and the keys handed out instead.  That *)
(* their common stock is free (StockInv) and that Kinguin's books are even *)
(* (BooksStaged) need one request at a time per row; rows of Kinguin that a *)
(* return of G2A's took a key from have no books to follow.                *)
(***************************************************************************)
EXTENDS MarketplaceFulfilment, FiniteSetTheorems, TLAPS

\* keys that were ever claimed for the row
Claimed(r) == {k \in Keys : prov[r][k] # "none"}

\* A row claims once, all it will ever give, and gives for good what is final:
\* Kinguin has the keys before they are final, the others after.
Handed(r) ==
  /\ given[r] \subseteq Claimed(r)
  /\ Cardinality(Claimed(r)) <= Quantity[r]
  /\ Final(r) # {} => Quiet(r)
  /\ IF Market(r, "kinguin") THEN Final(r) \subseteq given[r] ELSE given[r] \subseteq Final(r)

\* What a task at label l with locals j relies on between its calls, whatever
\* the others do.
MarketRelies(l, j) ==
  /\ l \notin Rowless => j.row \in Reservations
  /\ l \in {"prov_read", "prov_finalize", "prov_decrypt", "k_read", "k_upload", "k_finalize",
            "release"} => resv[j.row] # "none"
  /\ l \in {"prov_finalize", "k_upload", "k_finalize"} =>
       KeysWith(j.row, "pending") \subseteq j.keys
  /\ l \in {"k_upload", "k_finalize"} => j.keys \subseteq Claimed(j.row)
  /\ l = "k_finalize" => j.keys \subseteq given[j.row]
  /\ l \in {"k_read", "k_upload", "release", "release_status"} => j.target \in Closed
  /\ l \in AfterPending \union {"g_expire"} => Quiet(j.row)
  /\ l \in Answering \union {"g_return", "g_refund"} => j.keys \subseteq Final(j.row)
  /\ l \in {"g_return", "g_refund"} => j.keys # {}
  /\ l \in {"claim", "jit", "claim_retry", "g_expire"} => j.qty = Quantity[j.row]
  /\ l = "replay" /\ Market(j.row, "digiseller") => j.qty = Quantity[j.row]
  /\ \A r \in j.batch : resv[r] # "none"

MarketInv ==
  /\ MarketplaceTypeOK
  /\ RowsMatchProvisions
  /\ \A r \in Reservations : Handed(r)
  /\ \A t \in Tasks : MarketRelies(pc[t], job[t])

-------------------------------------------------------------------------------
(* A step is a change of the tables, which the other tasks must bear, and a  *)
(* move of one task.                                                         *)

\* Rows in use get no new pending provision, provisions are never forgotten,
\* final ones stay final, closed rows stay closed and nothing is taken back.
Monotone ==
  \A r \in Reservations :
    /\ resv[r] # "none" =>
         /\ resv'[r] # "none"
         /\ \A k \in Keys : prov'[r][k] = "pending" => prov[r][k] = "pending"
    /\ \A k \in Keys : /\ prov[r][k] # "none" => prov'[r][k] # "none"
                       /\ prov[r][k] \in {"delivered", "refunded"} =>
                            prov'[r][k] \in {"delivered", "refunded"}
    /\ resv[r] \in Closed => resv'[r] \in Closed
    /\ given[r] \subseteq given'[r]

\* what a step must do to the tables
TablesKept ==
  /\ DbTypeOK' /\ MarketTypeOK'
  /\ RowsMatchProvisions'
  /\ \A r \in Reservations : Handed(r)'
  /\ Monotone

\* The number of keys of any set of keys is a natural number.
LEMMA KeysCount ==
  ASSUME NEW S \in SUBSET Keys
  PROVE  IsFiniteSet(S) /\ Cardinality(S) \in Nat
  BY KeysFinite, FS_Subset, FS_CardinalityType

\* What the invariant says of the task that moves.
LEMMA Mover ==
  ASSUME MarketInv, NEW t \in Tasks
  PROVE  /\ pc[t] \in Labels /\ job[t] \in Jobs
         /\ MarketRelies(pc[t], job[t])
         /\ RowsMatchProvisions /\ DbTypeOK /\ MarketTypeOK
  BY DEF MarketInv, MarketplaceTypeOK, TypeOK

\* A monotone step leaves alone what the other tasks rely on.
LEMMA OthersRely ==
  ASSUME NEW l \in Labels, NEW j \in Jobs, MarketRelies(l, j), Monotone
  PROVE  MarketRelies(l, j)'
<1> USE DEF Monotone, MarketRelies
<1>1. l \notin Rowless => j.row \in Reservations
  OBVIOUS
<1>2. ASSUME NEW r \in Reservations
      PROVE  /\ resv[r] # "none" => KeysWith(r, "pending")' \subseteq KeysWith(r, "pending")
             /\ Claimed(r) \subseteq Claimed(r)' /\ Final(r) \subseteq Final(r)'
             /\ Quiet(r) => Quiet(r)'
  BY DEF KeysWith, Claimed, Final, Quiet
<1>3. l \in {"prov_read", "prov_finalize", "prov_decrypt", "k_read", "k_upload", "k_finalize",
             "release"} => resv'[j.row] # "none"
  BY <1>1 DEF Rowless
<1>4. l \in {"prov_finalize", "k_upload", "k_finalize"} =>
        KeysWith(j.row, "pending")' \subseteq j.keys
  BY <1>1, <1>2 DEF Rowless
<1>5. l \in {"k_upload", "k_finalize"} => j.keys \subseteq Claimed(j.row)'
  BY <1>1, <1>2 DEF Rowless
<1>6. l = "k_finalize" => j.keys \subseteq given'[j.row]
  BY <1>1 DEF Rowless
<1>7. l \in AfterPending \union {"g_expire"} => Quiet(j.row)'
  BY <1>1, <1>2 DEF Rowless, AfterPending
<1>8. l \in Answering \union {"g_return", "g_refund"} => j.keys \subseteq Final(j.row)'
  BY <1>1, <1>2 DEF Rowless, Answering, Selling
<1>9. \A r \in j.batch : resv'[r] # "none"
  BY DEF Jobs
<1> QED
  BY <1>1, <1>3, <1>4, <1>5, <1>6, <1>7, <1>8, <1>9 DEF Market

\* One task moves, to a label whose assumptions hold.
LEMMA StepKeeps ==
  ASSUME MarketInv, TablesKept, NEW t \in Tasks, NEW l \in Labels, NEW j \in Jobs,
         Continue(t, l, j), l # "idle" => MarketRelies(l, j)'
  PROVE  MarketInv' /\ Monotone
<1>1. /\ pc' = [pc EXCEPT ![t] = l]
      /\ job' = [job EXCEPT ![t] = IF l = "idle" THEN NoJob ELSE j]
      /\ pc \in [Tasks -> Labels] /\ job \in [Tasks -> Jobs]
  BY DEF Continue, MarketInv, MarketplaceTypeOK, TypeOK
<1>2. NoJob \in Jobs
  BY DEF Jobs, NoJob, ReservationStates
<1>3. MarketplaceTypeOK'
  BY <1>1, <1>2 DEF TablesKept, MarketplaceTypeOK, TypeOK
<1>4. MarketRelies("idle", NoJob)'
  BY DEF MarketRelies, NoJob, Rowless, Selling, AfterPending, Answering
<1>5. ASSUME NEW u \in Tasks
      PROVE  MarketRelies(pc[u], job[u])'
  <2>1. CASE u = t
    <3>1. PICK i : i = IF l = "idle" THEN NoJob ELSE j
      OBVIOUS
    <3>2. pc'[u] = l /\ job'[u] = i /\ MarketRelies(l, i)'
      BY <1>1, <1>4, <2>1, <3>1
    <3> QED
      BY <3>2 DEF MarketRelies
  <2>2. CASE u # t
    <3>1. /\ pc'[u] = pc[u] /\ job'[u] = job[u] /\ pc[u] \in Labels /\ job[u] \in Jobs
          /\ MarketRelies(pc[u], job[u])
      BY <1>1, <2>2 DEF MarketInv
    <3>2. \A m \in Labels, i \in Jobs : MarketRelies(m, i) => MarketRelies(m, i)'
      BY OthersRely DEF TablesKept
    <3> QED
      BY <3>1, <3>2 DEF MarketRelies
  <2> QED
    BY <2>1, <2>2
<1> QED
  BY <1>3, <1>5 DEF TablesKept, MarketInv

-------------------------------------------------------------------------------
(* What the steps do to the tables.                                          *)

\* Writes to keys and orders leave all this alone.
LEMMA OtherTables ==
  ASSUME MarketInv, DbTypeOK', MarketTypeOK', UNCHANGED <<prov, resv, given>>
  PROVE  TablesKept
<1>1. RowsMatchProvisions' /\ \A r \in Reservations : Handed(r)'
  BY DEF MarketInv, RowsMatchProvisions, KeysWith, Handed, Claimed, Final, Quiet
<1> QED
  BY <1>1 DEF TablesKept, Monotone

\* So does a step that writes nothing.
LEMMA NoTables ==
  ASSUME MarketInv, UNCHANGED dbVars, UNCHANGED marketVars
  PROVE  TablesKept
<1>1. DbTypeOK' /\ MarketTypeOK' /\ UNCHANGED <<prov, resv, given>>
  BY Mover DEF DbTypeOK, MarketTypeOK, MarketInv, MarketplaceTypeOK, TypeOK, dbVars, marketVars
<1> QED
  BY <1>1, OtherTables

\* The only claim of a row takes as many keys as the row asks for.
LEMMA ClaimKept ==
  ASSUME MarketInv, NEW r \in Reservations, resv[r] = "none", NEW S \in SUBSET Keys,
         Cardinality(S) = Quantity[r], ClaimAndReserve(r, S), UNCHANGED marketVars
  PROVE  TablesKept
<1>1. DbTypeOK /\ MarketTypeOK /\ RowsMatchProvisions
  BY DEF MarketInv, MarketplaceTypeOK, TypeOK
<1>2. /\ prov' = [prov EXCEPT ![r] = [k \in Keys |-> IF k \in S THEN "pending" ELSE prov[r][k]]]
      /\ resv' = [resv EXCEPT ![r] = "pending"]
      /\ UNCHANGED <<given, ordered, items, strayed>>
  BY DEF ClaimAndReserve, SetProvisions, SetReservation, marketVars
<1>3. \A k \in Keys : prov[r][k] = "none"
  BY <1>1 DEF RowsMatchProvisions
<1>4. /\ \A q \in Reservations : resv'[q] = IF q = r THEN "pending" ELSE resv[q]
      /\ \A q \in Reservations : \A k \in Keys :
           prov'[q][k] = IF q = r /\ k \in S THEN "pending" ELSE prov[q][k]
  BY <1>1, <1>2 DEF DbTypeOK
<1>5. Cardinality(Existing) \in Nat
  BY ReservationsFinite, FS_Subset, FS_CardinalityType DEF Existing
<1>6. DbTypeOK'
  <2>1. keyState' \in [Keys -> KeyStates]
    BY <1>1 DEF DbTypeOK, ClaimAndReserve, SetKeys, KeyStates
  <2>2. prov' \in [Reservations -> [Keys -> ProvisionStates]]
    BY <1>1, <1>2 DEF DbTypeOK, ProvisionStates
  <2>3. resv' \in [Reservations -> ReservationStates]
    BY <1>1, <1>2 DEF DbTypeOK, ReservationStates
  <2>4. createdAt' \in [Reservations -> Nat]
    BY <1>1, <1>5 DEF DbTypeOK, ClaimAndReserve
  <2> QED
    BY <1>1, <2>1, <2>2, <2>3, <2>4 DEF DbTypeOK, ClaimAndReserve
<1>7. MarketTypeOK'
  BY <1>1, <1>2 DEF MarketTypeOK
<1>8. RowsMatchProvisions'
  BY <1>1, <1>4 DEF RowsMatchProvisions, KeysWith
<1>9. Monotone
  BY <1>2, <1>3, <1>4 DEF Monotone, Closed
<1>10. ASSUME NEW q \in Reservations
       PROVE  Handed(q)'
  <2>1. Handed(q)
    BY DEF MarketInv
  <2>2. CASE q = r
    <3>1. Claimed(q) = {} /\ Claimed(q)' = S
      BY <1>3, <1>4, <2>2 DEF Claimed
    <3>2. Final(q)' = {}
      BY <1>3, <1>4, <2>2 DEF Final, KeysWith
    <3>3. given'[q] = {}
      BY <1>2, <2>1, <3>1 DEF Handed
    <3>4. Cardinality(Claimed(q)') <= Quantity[q]
      BY <2>2, <3>1, QuantityType
    <3> QED
      BY <3>1, <3>2, <3>3, <3>4 DEF Handed
  <2>3. CASE q # r
    <3>1. Claimed(q)' = Claimed(q) /\ Final(q)' = Final(q) /\ (Quiet(q) => Quiet(q)')
      BY <1>4, <2>3 DEF Claimed, Final, KeysWith, Quiet
    <3> QED
      BY <1>2, <2>1, <3>1 DEF Handed, Market
  <2> QED
    BY <2>2, <2>3
<1> QED
  BY <1>6, <1>7, <1>8, <1>9, <1>10 DEF TablesKept

\* Key operations leave alone what marketplaces were handed.
LEMMA MarketFrame ==
  ASSUME MarketInv, UNCHANGED marketVars
  PROVE  MarketTypeOK' /\ given' = given
<1>1. MarketTypeOK /\ given' = given /\ ordered' = ordered /\ items' = items /\ strayed' = strayed
  BY DEF marketVars, MarketInv, MarketplaceTypeOK
<1> QED
  BY <1>1 DEF MarketTypeOK

\* Provisions of a row that is in use move on to a status where they are no
\* longer pending: some fail, some become final, and the status of the row may
\* follow.  The row asks whether that keeps what it has given.
LEMMA ProvisionsKept ==
  ASSUME MarketInv, NEW r \in Reservations, resv[r] # "none",
         NEW S \in SUBSET Claimed(r), NEW status \in {"failed", "delivered", "refunded"},
         SetProvisions(r, S, status),
         status = "failed" => S \intersect Final(r) = {},
         status # "failed" => /\ KeysWith(r, "pending") \subseteq S
                              /\ Market(r, "kinguin") => S \subseteq given[r],
         \/ UNCHANGED resv
         \/ KeysWith(r, "pending") \subseteq S /\ resv[r] \notin Closed
            /\ SetReservation(r, "provisioned"),
         keyState' \in [Keys -> KeyStates], UNCHANGED <<keyOrder, createdAt, orders, given>>,
         MarketTypeOK'
  PROVE  TablesKept
<1>1. DbTypeOK /\ MarketTypeOK /\ RowsMatchProvisions /\ Handed(r)
  BY DEF MarketInv, MarketplaceTypeOK, TypeOK
<1>2. /\ prov' = [prov EXCEPT ![r] = [k \in Keys |-> IF k \in S THEN status ELSE prov[r][k]]]
      /\ given' = given
      /\ S \subseteq Keys
  BY DEF SetProvisions, Claimed
<1>3. \A q \in Reservations : \A k \in Keys :
        prov'[q][k] = IF q = r /\ k \in S THEN status ELSE prov[q][k]
  BY <1>1, <1>2 DEF DbTypeOK
<1>4. \/ UNCHANGED resv
      \/ /\ KeysWith(r, "pending") \subseteq S /\ resv[r] \notin Closed
         /\ \A q \in Reservations : resv'[q] = IF q = r THEN "provisioned" ELSE resv[q]
         /\ resv' \in [Reservations -> ReservationStates]
  BY <1>1 DEF DbTypeOK, SetReservation, ReservationStates
<1>5. DbTypeOK' /\ MarketTypeOK'
  <2>1. prov' \in [Reservations -> [Keys -> ProvisionStates]]
    BY <1>1, <1>2 DEF DbTypeOK, ProvisionStates
  <2>2. resv' \in [Reservations -> ReservationStates]
    BY <1>1, <1>4 DEF DbTypeOK
  <2> QED
    BY <1>1, <1>2, <2>1, <2>2 DEF DbTypeOK, MarketTypeOK
<1>6. \A q \in Reservations : resv'[q] # "none" <=> resv[q] # "none"
  BY <1>4
<1>7. RowsMatchProvisions'
  <2> SUFFICES ASSUME NEW q \in Reservations
               PROVE  /\ resv'[q] = "none" => \A k \in Keys : prov'[q][k] = "none"
                      /\ KeysWith(q, "pending")' # {} => resv'[q] = "pending"
    BY DEF RowsMatchProvisions
  <2>1. resv'[q] = "none" => \A k \in Keys : prov'[q][k] = "none"
    BY <1>1, <1>3, <1>6 DEF RowsMatchProvisions
  <2>2. KeysWith(q, "pending")' \subseteq KeysWith(q, "pending")
    BY <1>3 DEF KeysWith
  <2>3. q = r /\ KeysWith(r, "pending") \subseteq S => KeysWith(q, "pending")' = {}
    BY <1>3 DEF KeysWith
  <2> QED
    BY <1>1, <1>4, <2>1, <2>2, <2>3 DEF RowsMatchProvisions
<1>8. Monotone
  <2>1. \A q \in Reservations : \A k \in Keys :
          /\ prov'[q][k] = "pending" => prov[q][k] = "pending"
          /\ prov[q][k] # "none" => prov'[q][k] # "none"
          /\ prov[q][k] \in {"delivered", "refunded"} =>
               prov'[q][k] \in {"delivered", "refunded"}
    BY <1>3 DEF Final, KeysWith
  <2>2. \A q \in Reservations : resv[q] \in Closed => resv'[q] \in Closed
    BY <1>4
  <2> QED
    BY <1>2, <1>6, <2>1, <2>2 DEF Monotone
<1>9. ASSUME NEW q \in Reservations
      PROVE  Handed(q)'
  <2>1. Handed(q) /\ given'[q] = given[q]
    BY <1>2 DEF MarketInv
  <2>2. Quiet(q) => Quiet(q)'
    BY <1>3, <1>6 DEF Quiet, KeysWith
  <2>3. CASE q = r
    <3>1. Claimed(q)' = Claimed(q)
      BY <1>3, <2>3 DEF Claimed
    <3>2. Final(q)' = IF status = "failed" THEN Final(q) ELSE Final(q) \union S
      <4>1. CASE status = "failed"
        BY <1>3, <2>3, <4>1 DEF Final, KeysWith
      <4>2. CASE status # "failed"
        BY <1>2, <1>3, <2>3, <4>2 DEF Final, KeysWith
      <4> QED
        BY <4>1, <4>2
    <3>3. status # "failed" => Quiet(q)'
      BY <1>3, <1>6, <2>3 DEF Quiet, KeysWith
    <3> QED
      BY <2>1, <2>2, <2>3, <3>1, <3>2, <3>3 DEF Handed, Market
  <2>4. CASE q # r
    <3>1. Claimed(q)' = Claimed(q) /\ Final(q)' = Final(q)
      BY <1>3, <2>4 DEF Claimed, Final, KeysWith
    <3> QED
      BY <2>1, <2>2, <3>1 DEF Handed, Market
  <2> QED
    BY <2>3, <2>4
<1> QED
  BY <1>5, <1>7, <1>8, <1>9 DEF TablesKept

\* A reservation without pending provisions can be closed.
LEMMA CloseKept ==
  ASSUME MarketInv, NEW r \in Reservations, Quiet(r), NEW status \in Closed,
         SetReservation(r, status), UNCHANGED <<keyVars, prov, createdAt, orders, marketVars>>
  PROVE  TablesKept
<1>1. DbTypeOK /\ MarketTypeOK /\ RowsMatchProvisions
  BY DEF MarketInv, MarketplaceTypeOK, TypeOK
<1>2. /\ resv' = [resv EXCEPT ![r] = status]
      /\ UNCHANGED <<keyState, keyOrder, prov, createdAt, orders, given, ordered, items, strayed>>
  BY DEF SetReservation, keyVars, marketVars
<1>3. /\ \A q \in Reservations : resv'[q] = IF q = r THEN status ELSE resv[q]
      /\ status \in ReservationStates /\ status \notin {"none", "pending"}
  BY <1>1, <1>2 DEF DbTypeOK, Closed, ReservationStates
<1>4. DbTypeOK' /\ MarketTypeOK'
  BY <1>1, <1>2, <1>3 DEF DbTypeOK, MarketTypeOK
<1>5. RowsMatchProvisions'
  BY <1>1, <1>2, <1>3 DEF RowsMatchProvisions, KeysWith, Quiet
<1>6. Monotone
  BY <1>2, <1>3 DEF Monotone
<1>7. \A q \in Reservations : Handed(q)'
  BY <1>2, <1>3, SMTT(30) DEF MarketInv, Handed, Claimed, Final, KeysWith, Quiet, Market
<1> QED
  BY <1>4, <1>5, <1>6, <1>7 DEF TablesKept

\* Kinguin may be given what is claimed, the others what is final.
LEMMA GiveKept ==
  ASSUME MarketInv, NEW r \in Reservations, NEW S \in SUBSET Claimed(r),
         ~Market(r, "kinguin") => S \subseteq Final(r),
         Give(r, S), UNCHANGED dbVars
  PROVE  TablesKept
<1>1. DbTypeOK /\ MarketTypeOK /\ RowsMatchProvisions
  BY DEF MarketInv, MarketplaceTypeOK, TypeOK
<1>2. /\ given' = [given EXCEPT ![r] = @ \union S] /\ UNCHANGED <<ordered, items, strayed>>
      /\ UNCHANGED <<keyState, keyOrder, prov, resv, createdAt, orders>>
  BY DEF Give, dbVars
<1>3. \A q \in Reservations : given'[q] = IF q = r THEN given[q] \union S ELSE given[q]
  BY <1>1, <1>2 DEF MarketTypeOK
<1>4. DbTypeOK' /\ MarketTypeOK'
  BY <1>1, <1>2 DEF DbTypeOK, MarketTypeOK, Claimed
<1>5. RowsMatchProvisions' /\ Monotone
  BY <1>1, <1>2, <1>3 DEF RowsMatchProvisions, KeysWith, Monotone
<1>6. ASSUME NEW q \in Reservations
      PROVE  Handed(q)'
  <2>1. /\ Claimed(q)' = Claimed(q) /\ Final(q)' = Final(q) /\ Quiet(q)' = Quiet(q)
        /\ Handed(q)
    BY <1>2 DEF MarketInv, Claimed, Final, KeysWith, Quiet
  <2> QED
    BY <1>3, <2>1 DEF Handed, Market
<1> QED
  BY <1>4, <1>5, <1>6 DEF TablesKept

-------------------------------------------------------------------------------
(* The key operations, whose callers choose where they go on.                *)

\* The label to go on at may be justified in the state before the step: what it
\* relies on lasts.
LEMMA MoveKeeps ==
  ASSUME MarketInv, TablesKept, NEW t \in Tasks, NEW l \in Labels, NEW j \in Jobs,
         Continue(t, l, j), l # "idle" => MarketRelies(l, j)
  PROVE  MarketInv' /\ Monotone
<1>1. l # "idle" => MarketRelies(l, j)'
  BY OthersRely DEF TablesKept
<1> QED
  BY <1>1, StepKeeps

\* A task that ends has nothing to rely on.
LEMMA StopKeeps ==
  ASSUME MarketInv, TablesKept, NEW t \in Tasks, Goto(t, "idle")
  PROVE  MarketInv' /\ Monotone
<1>1. "idle" \in Labels /\ job[t] \in Jobs
  BY Mover DEF Labels
<1> QED
  BY <1>1, MoveKeeps DEF Goto

\* A failing provision ends, or releases the row as the status in target.
LEMMA RaiseKeeps ==
  ASSUME MarketInv, TablesKept, NEW t \in Tasks, NEW raised \in {"idle", "release"},
         raised = "release" => job[t].target \in Closed /\ resv[Row(t)] # "none",
         pc[t] \notin Rowless, Goto(t, raised)
  PROVE  MarketInv' /\ Monotone
<1>1. CASE raised = "idle"
  BY <1>1, StopKeeps
<1>2. CASE raised = "release"
  <2>1. "release" \in Labels /\ job[t] \in Jobs
    BY Mover DEF Labels
  <2>2. MarketRelies("release", job[t])
    BY <1>2, Mover DEF MarketRelies, Rowless, Selling, AfterPending, Answering, Row
  <2> QED
    BY <1>2, <2>1, <2>2, MoveKeeps DEF Goto
<1> QED
  BY <1>1, <1>2

\* Where a claim that went well may go on.
MayClaim(t, ok) ==
  ok \in {"idle", "prov_read"} \/ (ok = "k_read" /\ job[t].target \in Closed)

\* A claim takes the keys the row asks for, once.
LEMMA ClaimFromKeeps ==
  ASSUME MarketInv, NEW t \in Tasks, pc[t] \in {"claim", "claim_retry"}, NEW pool,
         NEW ok, MayClaim(t, ok), ClaimFrom(t, pool, ok), UNCHANGED marketVars
  PROVE  MarketInv' /\ Monotone
<1>1. PICK r \in Reservations, j \in Jobs : r = Row(t) /\ j = job[t]
  BY Mover DEF MarketRelies, Row, Rowless
<1>2. j.row = r /\ j.qty = Quantity[r] /\ \A q \in j.batch : resv[q] # "none"
  BY <1>1, Mover DEF MarketRelies, Row
<1>3. PICK S \in SUBSET Keys : Cardinality(S) = Quantity[r] /\ ClaimAndReserve(r, S)
  BY <1>1, <1>2 DEF ClaimFrom, Claimable
<1>4. resv[r] = "none" /\ Continue(t, ok, j)
  BY <1>1 DEF ClaimFrom, Goto
<1>5. TablesKept
  BY <1>3, <1>4, ClaimKept
<1>6. resv'[r] # "none" /\ \A q \in j.batch : resv'[q] # "none"
  <2>1. resv' = [resv EXCEPT ![r] = "pending"] /\ resv \in [Reservations -> ReservationStates]
    BY <1>3, Mover DEF ClaimAndReserve, SetReservation, DbTypeOK
  <2> QED
    BY <1>2, <2>1 DEF Jobs
<1>7. ok \in Labels
  BY DEF MayClaim, Labels
<1>8. ok # "idle" => MarketRelies(ok, j)'
  BY <1>1, <1>2, <1>6 DEF MayClaim, MarketRelies, Rowless, Selling, AfterPending, Answering
<1> QED
  BY <1>4, <1>5, <1>7, <1>8, StepKeeps

\* A shortage goes on to the next source, any other error ends the request.
LEMMA ClaimKeysKeeps ==
  ASSUME MarketInv, NEW t \in Tasks, NEW ok, MayClaim(t, ok),
         ClaimKeys(t, ok, "idle"), UNCHANGED marketVars
  PROVE  MarketInv' /\ Monotone
<1>1. pc[t] = "claim" /\ job[t] \in Jobs /\ MarketRelies("claim", job[t])
  BY Mover DEF ClaimKeys, MarketRelies
<1>2. UNCHANGED dbVars => TablesKept
  BY NoTables
<1>3. CASE ClaimFrom(t, job[t].pool, ok)
  BY <1>1, <1>3, ClaimFromKeeps
<1>4. CASE Goto(t, "idle") /\ UNCHANGED dbVars
  BY <1>2, <1>4, StopKeeps
<1>5. CASE Goto(t, "jit") /\ UNCHANGED dbVars
  <2>1. "jit" \in Labels /\ MarketRelies("jit", job[t])
    BY <1>1 DEF Labels, MarketRelies, Rowless, Selling, AfterPending, Answering
  <2> QED
    BY <1>1, <1>2, <1>5, <2>1, MoveKeeps DEF Goto
<1>6. CASE Continue(t, "claim", [job[t] EXCEPT !.pool = @ + 1]) /\ UNCHANGED dbVars
  <2> DEFINE j == [job[t] EXCEPT !.pool = @ + 1]
  <2>1. j \in Jobs /\ j.row = job[t].row /\ j.batch = job[t].batch /\ j.qty = job[t].qty
    BY <1>1 DEF Jobs
  <2> HIDE DEF j
  <2>2. "claim" \in Labels /\ MarketRelies("claim", j)
    BY <1>1, <2>1 DEF Labels, MarketRelies, Rowless, Selling, AfterPending, Answering
  <2> QED
    BY <1>2, <1>6, <2>1, <2>2, MoveKeeps DEF j
<1> QED
  BY <1>3, <1>4, <1>5, <1>6 DEF ClaimKeys

\* A purchase adds keys nobody holds.
LEMMA JitPurchaseKeeps ==
  ASSUME MarketInv, NEW t \in Tasks, JitPurchase(t, "idle"), UNCHANGED marketVars
  PROVE  MarketInv' /\ Monotone
<1>1. pc[t] = "jit" /\ job[t] \in Jobs /\ MarketRelies("jit", job[t])
  BY Mover DEF JitPurchase, MarketRelies
<1>2. CASE Goto(t, "idle") /\ UNCHANGED dbVars
  BY <1>2, NoTables, StopKeeps
<1>3. CASE ~(Goto(t, "idle") /\ UNCHANGED dbVars)
  <2>1. PICK S \in SUBSET Keys :
          /\ SetKeys(S, "available")
          /\ Continue(t, "claim_retry", job[t])
          /\ UNCHANGED <<keyOrder, rowVars, orders>>
    BY <1>3 DEF JitPurchase, Goto
  <2>2. DbTypeOK' /\ MarketTypeOK' /\ UNCHANGED <<prov, resv, given>>
    BY <2>1, Mover DEF rowVars, marketVars, SetKeys, DbTypeOK, MarketTypeOK, KeyStates
  <2>3. "claim_retry" \in Labels /\ MarketRelies("claim_retry", job[t])
    BY <1>1 DEF Labels, MarketRelies, Rowless, Selling, AfterPending, Answering
  <2> QED
    BY <1>1, <2>1, <2>2, <2>3, OtherTables, MoveKeeps
<1> QED
  BY <1>2, <1>3

\* The claim after a purchase is a claim like the first.
LEMMA ClaimRetryKeeps ==
  ASSUME MarketInv, NEW t \in Tasks, NEW ok, MayClaim(t, ok),
         ClaimRetry(t, ok, "idle"), UNCHANGED marketVars
  PROVE  MarketInv' /\ Monotone
  BY NoTables, ClaimFromKeeps, StopKeeps DEF ClaimRetry

\* The read of the pending provisions hands all of them to finalize.
LEMMA ProvisionReadKeeps ==
  ASSUME MarketInv, NEW t \in Tasks, NEW raised \in {"idle", "release"},
         raised = "release" => job[t].target \in Closed,
         ProvisionRead(t, raised), UNCHANGED marketVars
  PROVE  MarketInv' /\ Monotone
<1>1. /\ pc[t] = "prov_read" /\ job[t] \in Jobs /\ MarketRelies("prov_read", job[t])
      /\ UNCHANGED dbVars
  BY Mover DEF ProvisionRead, MarketRelies
<1>2. resv[Row(t)] # "none" /\ pc[t] \notin Rowless
  BY <1>1 DEF MarketRelies, Row, Rowless
<1>3. CASE KeysWith(Row(t), "pending") = {}
  BY <1>1, <1>2, <1>3, NoTables, RaiseKeeps DEF ProvisionRead
<1>4. CASE KeysWith(Row(t), "pending") # {}
  <2> DEFINE j == [job[t] EXCEPT !.keys = KeysWith(Row(t), "pending")]
  <2>1. Continue(t, "prov_finalize", j)
    BY <1>4 DEF ProvisionRead
  <2>2. /\ j \in Jobs /\ j.row = job[t].row /\ j.batch = job[t].batch
        /\ j.keys = KeysWith(j.row, "pending")
    BY <1>1 DEF Jobs, KeysWith, Row
  <2> HIDE DEF j
  <2>3. "prov_finalize" \in Labels /\ MarketRelies("prov_finalize", j)
    BY <1>1, <2>2 DEF Labels, MarketRelies, Rowless, Selling, AfterPending, Answering
  <2> QED
    BY <1>1, <2>1, <2>2, <2>3, NoTables, MoveKeeps
<1> QED
  BY <1>3, <1>4

\* Finalizing takes all that is pending: the row is quiet afterwards, and what is
\* final of a Kinguin row was uploaded before.
LEMMA FinalizeKept ==
  ASSUME MarketInv, NEW r \in Reservations, NEW S \in SUBSET Keys,
         CanFinalize(r, S), FinalizeProvisions(r, S), UNCHANGED marketVars,
         KeysWith(r, "pending") \subseteq S, Market(r, "kinguin") => S \subseteq given[r]
  PROVE  TablesKept /\ S \subseteq Final(r)'
<1>1. DbTypeOK /\ RowsMatchProvisions
  BY Mover DEF MarketInv, MarketplaceTypeOK, TypeOK
<1>2. S \in SUBSET Claimed(r) /\ resv[r] = "pending"
  BY <1>1 DEF CanFinalize, Claimed, RowsMatchProvisions, KeysWith
<1>3. /\ SetProvisions(r, S, "delivered") /\ SetReservation(r, "provisioned")
      /\ keyState' \in [Keys -> KeyStates] /\ UNCHANGED <<keyOrder, createdAt, orders>>
  BY <1>1 DEF FinalizeProvisions, SetKeys, DbTypeOK, KeyStates
<1>4. resv[r] \notin Closed /\ resv[r] # "none"
  BY <1>2 DEF Closed
<1>5. TablesKept
  BY <1>2, <1>3, <1>4, MarketFrame, ProvisionsKept
<1>6. S \subseteq Final(r)'
  BY <1>1, <1>3 DEF SetProvisions, Final, KeysWith, DbTypeOK
<1> QED
  BY <1>5, <1>6

\* The procedure that makes the keys of a G2A or Digiseller row final.
LEMMA ProvisionFinalizeKeeps ==
  ASSUME MarketInv, NEW t \in Tasks, NEW raised \in {"idle", "release"},
         raised = "release" => job[t].target \in Closed, ~Market(Row(t), "kinguin"),
         ProvisionFinalize(t, raised), UNCHANGED marketVars
  PROVE  MarketInv' /\ Monotone
<1>1. /\ pc[t] = "prov_finalize" /\ job[t] \in Jobs /\ MarketRelies("prov_finalize", job[t])
  BY Mover DEF ProvisionFinalize, MarketRelies
<1>2. resv[Row(t)] # "none" /\ pc[t] \notin Rowless
  BY <1>1 DEF MarketRelies, Row, Rowless
<1>3. CASE Goto(t, raised) /\ UNCHANGED dbVars
  BY <1>2, <1>3, NoTables, RaiseKeeps
<1>4. CASE /\ CanFinalize(Row(t), job[t].keys)
           /\ FinalizeProvisions(Row(t), job[t].keys)
           /\ Goto(t, "prov_decrypt")
  <2>1. PICK r \in Reservations, j \in Jobs : r = Row(t) /\ j = job[t]
    BY <1>1 DEF MarketRelies, Row, Rowless
  <2>2. /\ j.row = r /\ j.keys \in SUBSET Keys /\ KeysWith(r, "pending") \subseteq j.keys
        /\ \A q \in j.batch : resv[q] # "none"
    BY <1>1, <2>1 DEF MarketRelies, Row, Jobs
  <2>3. TablesKept /\ j.keys \subseteq Final(r)'
    BY <1>4, <2>1, <2>2, FinalizeKept
  <2>4. resv'[r] # "none" /\ \A q \in j.batch : resv'[q] # "none"
    BY <1>2, <2>1, <2>2, <2>3 DEF TablesKept, Monotone, Jobs
  <2>5. "prov_decrypt" \in Labels /\ MarketRelies("prov_decrypt", j)'
    BY <2>2, <2>3, <2>4 DEF Labels, MarketRelies, Rowless, Selling, AfterPending, Answering
  <2> QED
    BY <1>4, <2>1, <2>3, <2>5, StepKeeps DEF Goto
<1> QED
  BY <1>3, <1>4 DEF ProvisionFinalize

\* A task that has final keys goes on with them, and may end any time.
LEMMA KeepsAnswering ==
  ASSUME MarketInv, TablesKept, NEW t \in Tasks, pc[t] \in Answering,
         NEW l \in (Answering \ {"prov_decrypt"}) \union {"idle"}, Goto(t, l)
  PROVE  MarketInv' /\ Monotone
<1>1. /\ job[t] \in Jobs /\ MarketRelies(pc[t], job[t]) /\ l \in Labels
  BY Mover DEF Answering, Selling, Labels
<1>2. l # "idle" => MarketRelies(l, job[t])
  BY <1>1 DEF MarketRelies, Rowless, Selling, AfterPending, Answering
<1> QED
  BY <1>1, <1>2, MoveKeeps DEF Goto

\* Decrypting writes nothing: the keys stay final, whether it works or not.
LEMMA ProvisionDecryptKeeps ==
  ASSUME MarketInv, NEW t \in Tasks, NEW raised \in {"idle", "release"},
         raised = "release" => job[t].target \in Closed,
         ProvisionDecrypt(t, "reply", raised), UNCHANGED marketVars
  PROVE  MarketInv' /\ Monotone
<1>1. /\ pc[t] = "prov_decrypt" /\ job[t] \in Jobs /\ MarketRelies("prov_decrypt", job[t])
      /\ TablesKept
  BY NoTables, Mover DEF ProvisionDecrypt, MarketRelies
<1>2. CASE Goto(t, "reply")
  BY <1>1, <1>2, KeepsAnswering DEF Answering, Selling
<1>3. CASE Goto(t, raised)
  <2>1. resv[Row(t)] # "none"
    BY <1>1 DEF MarketRelies, Row
  <2> QED
    BY <1>1, <1>3, <2>1, RaiseKeeps DEF Rowless
<1> QED
  BY <1>2, <1>3 DEF ProvisionDecrypt

\* A replay answers keys whose provision is delivered.
LEMMA ReplayKeeps ==
  ASSUME MarketInv, NEW t \in Tasks, Replay(t), UNCHANGED marketVars
  PROVE  MarketInv' /\ Monotone
<1>1. pc[t] = "replay" /\ job[t] \in Jobs /\ MarketRelies("replay", job[t]) /\ TablesKept
  BY NoTables, Mover DEF Replay, MarketRelies
<1>2. CASE Goto(t, "idle")
  BY <1>1, <1>2, StopKeeps
<1>3. CASE ~Goto(t, "idle")
  <2> DEFINE j == [job[t] EXCEPT !.keys = KeysWith(Row(t), "delivered")]
  <2>1. Continue(t, "reply", j)
    BY <1>3 DEF Replay
  <2>2. /\ j \in Jobs /\ j.row = job[t].row /\ j.batch = job[t].batch
        /\ j.keys = KeysWith(j.row, "delivered")
    BY <1>1 DEF Jobs, KeysWith, Row
  <2> HIDE DEF j
  <2>3. "reply" \in Labels /\ MarketRelies("reply", j)
    BY <1>1, <2>2 DEF Labels, MarketRelies, Rowless, Selling, AfterPending, Answering, Final
  <2> QED
    BY <1>1, <2>1, <2>2, <2>3, MoveKeeps
<1> QED
  BY <1>2, <1>3

-------------------------------------------------------------------------------
(* Booking a sale and refunding it writes orders only.                       *)

\* A well typed order can be written any time.
LEMMA OrderKept ==
  ASSUME MarketInv, NEW r \in Reservations, NEW o \in OrderRows, SetOrder(r, o),
         UNCHANGED marketVars
  PROVE  TablesKept
<1>1. DbTypeOK' /\ MarketTypeOK' /\ UNCHANGED <<prov, resv, given>>
  BY Mover DEF SetOrder, keyVars, rowVars, marketVars, DbTypeOK, MarketTypeOK, MarketInv,
               MarketplaceTypeOK, TypeOK
<1> QED
  BY <1>1, OtherTables

\* Each call of recordMarketplaceSale goes on with the keys it books.
LEMMA SaleKeeps ==
  ASSUME MarketInv, NEW t \in Tasks, NEW done \in {"idle", "reply"}, UNCHANGED marketVars,
         SaleCheck(t, done) \/ SaleInsert(t, done) \/ SaleCredit(t) \/ SaleLink(t, done)
  PROVE  MarketInv' /\ Monotone
<1>1. pc[t] \in Answering /\ pc[t] \notin Rowless
  BY DEF SaleCheck, SaleInsert, SaleCredit, SaleLink, Answering, Selling, Rowless
<1>2. PICK r \in Reservations, j \in Jobs : r = Row(t) /\ j = job[t]
  BY <1>1, Mover DEF MarketRelies, Row
<1>3. PICK ord \in OrderRows : ord = orders[r]
  BY Mover DEF DbTypeOK
<1>4. PICK n \in Nat : n = Cardinality(j.keys)
  BY KeysCount DEF Jobs
<1>5. UNCHANGED dbVars => TablesKept
  BY NoTables
<1>6. PICK l \in {"sale_insert", "sale_credit", "sale_link"} \union {done} : Goto(t, l)
  BY DEF SaleCheck, SaleInsert, SaleCredit, SaleLink
<1>7. l \in (Answering \ {"prov_decrypt"}) \union {"idle"}
  BY DEF Answering, Selling
<1>8. TablesKept
  <2>1. CASE UNCHANGED dbVars
    BY <1>5, <2>1
  <2>2. CASE SetOrder(r, [ord EXCEPT !.status = "fulfilled", !.total = n, !.rows = @ + 1])
    <3>1. [ord EXCEPT !.status = "fulfilled", !.total = n, !.rows = @ + 1] \in OrderRows
      <4>1. ord.rows + 1 \in Nat /\ "fulfilled" \in OrderStates
        BY DEF OrderRows, OrderStates
      <4> QED
        BY <4>1 DEF OrderRows
    <3> QED
      BY <2>2, <3>1, OrderKept
  <2>3. CASE SetOrder(r, [ord EXCEPT !.credit = @ + n])
    <3>1. [ord EXCEPT !.credit = @ + n] \in OrderRows
      BY DEF OrderRows
    <3> QED
      BY <2>3, <3>1, OrderKept
  <2>4. CASE SaleLink(t, done)
    <3>1. DbTypeOK' /\ MarketTypeOK' /\ UNCHANGED <<prov, resv, given>>
      BY <1>2, <2>4, Mover DEF SaleLink, rowVars, marketVars, DbTypeOK, MarketTypeOK
    <3> QED
      BY <3>1, OtherTables
  <2> QED
    BY <1>2, <1>3, <1>4, <2>1, <2>2, <2>3, <2>4 DEF SaleCheck, SaleInsert, SaleCredit
<1> QED
  BY <1>1, <1>6, <1>7, <1>8, KeepsAnswering

\* A return goes on to any of its labels: the row stays quiet.
LEMMA ReturnGoesOn ==
  ASSUME MarketInv, TablesKept, NEW t \in Tasks, pc[t] \in AfterPending,
         NEW l \in AfterPending \ {"release_status"}, NEW j \in Jobs, Continue(t, l, j),
         j.row = job[t].row, j.batch = job[t].batch
  PROVE  MarketInv' /\ Monotone
<1>1. MarketRelies(l, j) /\ l \in Labels
  BY Mover DEF MarketRelies, Rowless, Selling, AfterPending, Answering, Labels
<1> QED
  BY <1>1, MoveKeeps

\* The debit and the status of a refund leave the row alone.
LEMMA LedgerKeeps ==
  ASSUME MarketInv, NEW t \in Tasks, LedgerInsert(t) \/ LedgerStatus(t), UNCHANGED marketVars
  PROVE  MarketInv' /\ Monotone
<1>1. pc[t] \in AfterPending /\ pc[t] \notin Rowless
  BY DEF LedgerInsert, LedgerStatus, AfterPending, Rowless
<1>2. PICK r \in Reservations, j \in Jobs : r = Row(t) /\ j = job[t]
  BY <1>1, Mover DEF MarketRelies, Row
<1>3. PICK ord \in OrderRows : ord = orders[r]
  BY Mover DEF DbTypeOK
<1>4. PICK l \in {"ledger_status", "ret_final"} : Continue(t, l, j)
  BY <1>2 DEF LedgerInsert, LedgerStatus, Goto
<1>5. TablesKept
  <2>1. CASE UNCHANGED dbVars
    BY <2>1, NoTables
  <2>2. CASE SetOrder(r, [ord EXCEPT !.refunded = @ + j.delta,
                            !.events = IF j.event = 0 THEN @ ELSE @ \union {j.event}])
    <3>1. [ord EXCEPT !.refunded = @ + j.delta,
             !.events = IF j.event = 0 THEN @ ELSE @ \union {j.event}] \in OrderRows
      <4>1. ord.refunded + j.delta \in Nat /\ ord.events \union {j.event} \in SUBSET Nat
        BY DEF OrderRows, Jobs
      <4> QED
        BY <4>1 DEF OrderRows
    <3> QED
      BY <2>2, <3>1, OrderKept
  <2>3. CASE SetOrder(r, [ord EXCEPT !.status = IF FullRefund(t) THEN "refunded"
                                                ELSE "partially_refunded"])
    <3>1. [ord EXCEPT !.status = IF FullRefund(t) THEN "refunded"
                                 ELSE "partially_refunded"] \in OrderRows
      BY DEF OrderRows, OrderStates
    <3> QED
      BY <2>3, <3>1, OrderKept
  <2> QED
    BY <1>2, <1>3, <2>1, <2>2, <2>3 DEF LedgerInsert, LedgerStatus
<1> QED
  BY <1>1, <1>2, <1>4, <1>5, ReturnGoesOn DEF AfterPending

-------------------------------------------------------------------------------
(* Releases and returns.                                                     *)

\* Closing a quiet row, or failing to, ends the task or goes on with the sweep.
LEMMA LeaveKeeps ==
  ASSUME MarketInv, TablesKept, NEW t \in Tasks, NEW l \in {"idle", "cron_next"}, Goto(t, l)
  PROVE  MarketInv' /\ Monotone
<1>1. "cron_next" \in Labels /\ job[t] \in Jobs /\ MarketRelies("cron_next", job[t])
  BY Mover DEF Labels, MarketRelies, Rowless, Selling, AfterPending, Answering
<1> QED
  BY <1>1, StopKeeps, MoveKeeps DEF Goto

\* The release fails what is pending, so the row can be closed next.
LEMMA ReleaseKeeps ==
  ASSUME MarketInv, NEW t \in Tasks, NEW raised \in {"idle", "cron_next"},
         Release(t, raised), UNCHANGED marketVars
  PROVE  MarketInv' /\ Monotone
<1>1. pc[t] = "release" /\ MarketRelies("release", job[t])
  BY Mover DEF Release, MarketRelies
<1>2. CASE Goto(t, raised) /\ UNCHANGED dbVars
  BY <1>2, NoTables, LeaveKeeps
<1>3. CASE ReleaseReserved(Row(t)) /\ Goto(t, "release_status")
  <2>1. PICK r \in Reservations, j \in Jobs : r = Row(t) /\ j = job[t]
    BY <1>1, Mover DEF MarketRelies, Row, Rowless
  <2>2. /\ j.row = r /\ resv[r] # "none" /\ j.target \in Closed
        /\ \A q \in j.batch : resv[q] # "none"
    BY <1>1, <2>1 DEF MarketRelies, Row
  <2>3. PICK S \in SUBSET Claimed(r) : S = KeysWith(r, "pending")
    BY DEF KeysWith, Claimed
  <2>4. /\ SetProvisions(r, S, "failed") /\ UNCHANGED <<keyOrder, resv, createdAt, orders>>
        /\ keyState' \in [Keys -> KeyStates]
    BY <1>3, <2>1, <2>3, Mover DEF ReleaseReserved, SetKeys, DbTypeOK, KeyStates
  <2>5. S \intersect Final(r) = {}
    BY <2>3 DEF KeysWith, Final
  <2>6. TablesKept
    BY <2>2, <2>4, <2>5, MarketFrame, ProvisionsKept
  <2>7. KeysWith(r, "pending")' = {}
    BY <2>3, <2>4, Mover DEF SetProvisions, KeysWith, DbTypeOK
  <2>8. "release_status" \in Labels /\ MarketRelies("release_status", j)'
    BY <2>2, <2>4, <2>7 DEF Labels, MarketRelies, Quiet, Rowless, Selling, AfterPending, Answering
  <2> QED
    BY <1>3, <2>1, <2>6, <2>8, StepKeeps DEF Goto
<1> QED
  BY <1>2, <1>3 DEF Release

\* The release has left no pending provision, so the row can be closed.
LEMMA ReleaseStatusKeeps ==
  ASSUME MarketInv, NEW t \in Tasks, NEW done \in {"idle", "cron_next"},
         ReleaseStatus(t, done), UNCHANGED marketVars
  PROVE  MarketInv' /\ Monotone
<1>1. Row(t) \in Reservations /\ Quiet(Row(t)) /\ job[t].target \in Closed
  BY Mover DEF ReleaseStatus, MarketRelies, Row, Rowless, AfterPending
<1>2. CASE SetReservation(Row(t), job[t].target)
  BY <1>1, <1>2, CloseKept, LeaveKeeps DEF ReleaseStatus
<1>3. CASE UNCHANGED resv
  BY <1>3, NoTables, LeaveKeeps DEF ReleaseStatus, dbVars, keyVars
<1> QED
  BY <1>2, <1>3 DEF ReleaseStatus

\* A flip turns delivered into refunded: the keys stay final.
LEMMA ReturnFlipKeeps ==
  ASSUME MarketInv, NEW t \in Tasks, ReturnFlip(t), UNCHANGED marketVars
  PROVE  MarketInv' /\ Monotone
<1>1. PICK k \in job[t].keys :
        /\ \/ SetProvisions(Row(t), {k} \intersect KeysWith(Row(t), "delivered"), "refunded")
           \/ UNCHANGED prov
        /\ Continue(t, IF job[t].keys = {k} THEN "ret_totals" ELSE "ret_flip",
                    [job[t] EXCEPT !.keys = @ \ {k}])
  BY DEF ReturnFlip
<1>2. PICK l \in {"ret_totals", "ret_flip"} : Continue(t, l, [job[t] EXCEPT !.keys = @ \ {k}])
  BY <1>1
<1>3. [job[t] EXCEPT !.keys = @ \ {k}] \in Jobs
  BY Mover DEF Jobs
<1>4. PICK j \in Jobs : j = [job[t] EXCEPT !.keys = @ \ {k}]
  BY <1>3
<1>5. Continue(t, l, j) /\ j.row = job[t].row /\ j.batch = job[t].batch
  BY <1>2, <1>4, Mover DEF Jobs
<1>6. PICK r \in Reservations : r = Row(t)
  BY Mover DEF ReturnFlip, MarketRelies, Row, Rowless
<1>7. Quiet(r) /\ pc[t] \in AfterPending /\ l \in AfterPending \ {"release_status"}
  BY <1>6, Mover DEF ReturnFlip, MarketRelies, Row, AfterPending
<1>8. UNCHANGED <<keyState, keyOrder, resv, createdAt, orders>>
  BY DEF ReturnFlip, keyVars
<1>9. TablesKept
  <2>1. CASE UNCHANGED prov
    BY <1>8, <2>1, NoTables DEF dbVars
  <2>2. CASE SetProvisions(Row(t), {k} \intersect KeysWith(Row(t), "delivered"), "refunded")
    <3>1. PICK S \in SUBSET Claimed(r) : S = {k} \intersect KeysWith(r, "delivered")
      BY DEF KeysWith, Claimed
    <3>2. S \subseteq Final(r) /\ SetProvisions(r, S, "refunded")
      BY <1>6, <2>2, <3>1 DEF Final
    <3>3. Market(r, "kinguin") => S \subseteq given[r]
      BY <3>2 DEF MarketInv, Handed
    <3>4. keyState' \in [Keys -> KeyStates]
      BY <1>8, Mover DEF DbTypeOK
    <3> QED
      BY <1>7, <1>8, <3>2, <3>3, <3>4, MarketFrame, ProvisionsKept DEF Quiet
  <2> QED
    BY <1>1, <2>1, <2>2
<1> QED
  BY <1>5, <1>7, <1>9, ReturnGoesOn

\* The steps of a return that only read.
LEMMA ReturnReads ==
  ASSUME MarketInv, NEW t \in Tasks, ReturnRead(t) \/ ReturnTotals(t) \/ LedgerRead(t),
         UNCHANGED marketVars
  PROVE  MarketInv' /\ Monotone
<1>1. TablesKept /\ pc[t] \in AfterPending /\ job[t] \in Jobs
  BY NoTables, Mover DEF ReturnRead, ReturnTotals, LedgerRead, AfterPending
<1>2. CASE ReturnRead(t)
  <2>1. PICK S \in SUBSET KeysWith(Row(t), "delivered") :
          Continue(t, IF S = {} THEN "ret_totals" ELSE "ret_restock", [job[t] EXCEPT !.keys = S])
    BY <1>2 DEF ReturnRead
  <2> DEFINE j == [job[t] EXCEPT !.keys = S]
  <2>2. j \in Jobs /\ j.row = job[t].row /\ j.batch = job[t].batch
    BY <1>1 DEF Jobs, KeysWith
  <2>3. {"ret_totals", "ret_restock"} \subseteq AfterPending \ {"release_status"}
    BY DEF AfterPending
  <2> QED
    BY <1>1, <2>1, <2>2, <2>3, ReturnGoesOn
<1>3. CASE ReturnTotals(t)
  <2>1. PICK n \in Nat, d \in Nat :
          Continue(t, "ledger_read", [job[t] EXCEPT !.num = n, !.den = d])
    <3>1. /\ Cardinality(KeysWith(Row(t), "refunded")) \in Nat
          /\ Cardinality(KeysWith(Row(t), "delivered")) \in Nat
          /\ Cardinality(job[t].keys) \in Nat
      BY <1>1, KeysCount DEF KeysWith, Jobs
    <3> DEFINE refunded == RefundedCount(Row(t))
               provisioned == ProvisionedCount(Row(t))
               asked == Cardinality(job[t].keys)
               effective == IF refunded = 0 /\ job[t].count = 0 THEN asked ELSE refunded
               num == MinOf(effective, provisioned)
    <3>2. num \in Nat /\ provisioned \in Nat
      BY <3>1 DEF RefundedCount, ProvisionedCount, MinOf
    <3>3. Continue(t, "ledger_read", [job[t] EXCEPT !.num = num, !.den = provisioned])
      BY <1>3 DEF ReturnTotals
    <3> HIDE DEF num, provisioned
    <3> QED
      BY <3>2, <3>3
  <2> DEFINE j == [job[t] EXCEPT !.num = n, !.den = d]
  <2>2. j \in Jobs /\ j.row = job[t].row /\ j.batch = job[t].batch
    BY <1>1 DEF Jobs
  <2> QED
    BY <1>1, <2>1, <2>2, ReturnGoesOn DEF AfterPending
<1>4. CASE LedgerRead(t)
  <2>1. PICK l \in {"ret_final", "ledger_status", "ledger_insert"}, d \in Nat :
          Continue(t, l, [job[t] EXCEPT !.delta = d])
    <3>1. Row(t) \in Reservations
      BY <1>4, Mover DEF LedgerRead, MarketRelies, Row, Rowless
    <3>2. orders[Row(t)] \in OrderRows
      BY <3>1, Mover DEF DbTypeOK
    <3>3. RefundTarget(t) \in Nat /\ orders[Row(t)].refunded \in Nat
      BY <1>1, <3>2 DEF RefundTarget, OrderRows, Jobs
    <3>4. PICK refunded \in {orders[Row(t)].refunded, 0} :
            LET delta == IF RefundTarget(t) > refunded THEN RefundTarget(t) - refunded ELSE 0
            IN Continue(t, IF orders[Row(t)].status \in {"none", "refunded"} THEN "ret_final"
                           ELSE IF delta = 0 THEN "ledger_status" ELSE "ledger_insert",
                        [job[t] EXCEPT !.delta = delta])
      BY <1>4 DEF LedgerRead
    <3> DEFINE delta == IF RefundTarget(t) > refunded THEN RefundTarget(t) - refunded ELSE 0
    <3>5. delta \in Nat
      BY <3>3, <3>4
    <3>6. PICK l \in {"ret_final", "ledger_status", "ledger_insert"} :
            Continue(t, l, [job[t] EXCEPT !.delta = delta])
      BY <3>4
    <3> HIDE DEF delta
    <3> QED
      BY <3>5, <3>6
  <2> DEFINE j == [job[t] EXCEPT !.delta = d]
  <2>2. j \in Jobs /\ j.row = job[t].row /\ j.batch = job[t].batch
    BY <1>1 DEF Jobs
  <2>3. l \in AfterPending \ {"release_status"}
    BY DEF AfterPending
  <2> QED
    BY <1>1, <2>1, <2>2, <2>3, ReturnGoesOn
<1> QED
  BY <1>2, <1>3, <1>4

\* A restock, whole or partial, touches the state of keys only.
LEMMA ReturnRestockKeeps ==
  ASSUME MarketInv, NEW t \in Tasks, ReturnRestock(t), UNCHANGED marketVars
  PROVE  MarketInv' /\ Monotone
<1>1. PICK S \in SUBSET Restockable(job[t].keys) :
        /\ RestockKeys(S)
        /\ Continue(t, IF S = {} THEN "ret_totals" ELSE "ret_flip",
                    [job[t] EXCEPT !.count = Cardinality(S)])
  BY DEF ReturnRestock
<1>2. job[t] \in Jobs /\ S \in SUBSET Keys
  BY <1>1, Mover DEF Restockable, Jobs
<1> DEFINE j == [job[t] EXCEPT !.count = Cardinality(S)]
<1>3. j \in Jobs /\ j.row = job[t].row /\ j.batch = job[t].batch
  BY <1>2, KeysCount DEF Jobs
<1>4. DbTypeOK' /\ MarketTypeOK' /\ UNCHANGED <<prov, resv, given>>
  BY <1>1, Mover DEF RestockKeys, SetKeys, KeyStates, DbTypeOK, MarketTypeOK, marketVars
<1>5. {"ret_restock", "ret_totals", "ret_flip"} \subseteq AfterPending \ {"release_status"}
  BY DEF AfterPending
<1> QED
  BY <1>1, <1>3, <1>4, <1>5, OtherTables, ReturnGoesOn DEF ReturnRestock

\* A returned row has no pending provision, so it can be closed.
LEMMA ReturnFinalKeeps ==
  ASSUME MarketInv, NEW t \in Tasks, ReturnFinal(t), UNCHANGED marketVars
  PROVE  MarketInv' /\ Monotone
<1>1. Row(t) \in Reservations /\ Quiet(Row(t)) /\ "cancelled" \in Closed
  BY Mover DEF ReturnFinal, MarketRelies, Row, Rowless, AfterPending, Closed
<1>2. CASE SetReservation(Row(t), "cancelled")
  BY <1>1, <1>2, CloseKept, StopKeeps DEF ReturnFinal
<1>3. CASE UNCHANGED resv
  BY <1>3, NoTables, StopKeeps DEF ReturnFinal, dbVars, keyVars
<1> QED
  BY <1>2, <1>3 DEF ReturnFinal

\* A return keeps the invariant.
LEMMA ReturnStepsKeep ==
  ASSUME MarketInv, NEW t \in Tasks, ReturnSteps(t), UNCHANGED marketVars
  PROVE  MarketInv' /\ Monotone
  BY ReturnReads, ReturnRestockKeeps, ReturnFlipKeeps, LedgerKeeps, ReturnFinalKeeps
     DEF ReturnSteps

-------------------------------------------------------------------------------
(* Requests.                                                                 *)

\* A request starts at a label whose assumptions hold for its row.
LEMMA BeginKeeps ==
  ASSUME MarketInv, NEW t \in Tasks, NEW r \in Reservations, NEW l \in Labels,
         NEW j \in Jobs, Begin(t, r, l, j), j.batch = {},
         \A i \in Jobs : i.row = r /\ i.keys = j.keys /\ i.qty = j.qty /\ i.target = j.target
                         /\ i.batch = {} => MarketRelies(l, i)
  PROVE  MarketInv' /\ Monotone
<1> DEFINE i == [j EXCEPT !.row = r]
<1>1. TablesKept /\ Continue(t, l, i)
  BY NoTables DEF Begin, Start
<1>2. /\ i \in Jobs /\ i.row = r /\ i.keys = j.keys /\ i.qty = j.qty
      /\ i.target = j.target /\ i.batch = {}
  BY DEF Jobs
<1> HIDE DEF i
<1>3. MarketRelies(l, i)
  BY <1>2
<1> QED
  BY <1>1, <1>2, <1>3, MoveKeeps

\* The locals of a request that has read no keys yet.
LEMMA FreshJobs ==
  ASSUME NEW n \in Nat, NEW status \in ReservationStates
  PROVE  /\ NoJob \in Jobs /\ NoJob.batch = {} /\ NoJob.qty = 0
         /\ LET j == [NoJob EXCEPT !.qty = n] IN j \in Jobs /\ j.batch = {} /\ j.qty = n
         /\ LET j == [NoJob EXCEPT !.target = status] IN
              j \in Jobs /\ j.batch = {} /\ j.target = status
         /\ LET j == [NoJob EXCEPT !.qty = n, !.target = status] IN
              j \in Jobs /\ j.batch = {} /\ j.qty = n /\ j.target = status
<1> USE DEF NoJob, Jobs, ReservationStates
<1>1. NoJob \in Jobs /\ NoJob.batch = {} /\ NoJob.qty = 0
  OBVIOUS
<1>2. LET j == [NoJob EXCEPT !.qty = n] IN j \in Jobs /\ j.batch = {} /\ j.qty = n
  OBVIOUS
<1>3. LET j == [NoJob EXCEPT !.target = status] IN
        j \in Jobs /\ j.batch = {} /\ j.target = status
  OBVIOUS
<1>4. LET j == [NoJob EXCEPT !.qty = n, !.target = status] IN
        j \in Jobs /\ j.batch = {} /\ j.qty = n /\ j.target = status
  OBVIOUS
<1> QED
  BY <1>1, <1>2, <1>3, <1>4

\* A claim asks for what the row asks for.
LEMMA BeginClaim ==
  ASSUME MarketInv, NEW t \in Tasks, NEW r \in Reservations,
         \/ Begin(t, r, "claim", [NoJob EXCEPT !.qty = Quantity[r]])
         \/ Begin(t, r, "claim", [NoJob EXCEPT !.qty = Quantity[r], !.target = "failed"])
  PROVE  MarketInv' /\ Monotone
<1>1. Quantity[r] \in Nat /\ "failed" \in ReservationStates /\ "claim" \in Labels
  BY QuantityType DEF ReservationStates, Labels
<1>2. PICK j \in Jobs : j.batch = {} /\ j.qty = Quantity[r] /\ Begin(t, r, "claim", j)
  BY <1>1, FreshJobs
<1>3. \A i \in Jobs : i.row = r /\ i.qty = Quantity[r] /\ i.batch = {} => MarketRelies("claim", i)
  BY DEF MarketRelies, Rowless, Selling, AfterPending, Answering
<1> QED
  BY <1>1, <1>2, <1>3, BeginKeeps

\* Releasing needs a row in use and a status that closes it.
LEMMA BeginRelease ==
  ASSUME MarketInv, NEW t \in Tasks, NEW r \in Reservations, resv[r] # "none",
         NEW status \in Closed,
         NEW l \in {"release", "release_status", "k_read"}, l = "release_status" => Quiet(r),
         Begin(t, r, l, [NoJob EXCEPT !.target = status])
  PROVE  MarketInv' /\ Monotone
<1>1. status \in ReservationStates /\ l \in Labels
  BY DEF Closed, ReservationStates, Labels
<1>2. PICK j \in Jobs : j.batch = {} /\ j.target = status /\ Begin(t, r, l, j)
  <2>1. 0 \in Nat
    OBVIOUS
  <2> QED
    BY <1>1, <2>1, FreshJobs
<1>3. \A i \in Jobs : i.row = r /\ i.target = status /\ i.batch = {} => MarketRelies(l, i)
  BY DEF MarketRelies, Rowless, Selling, AfterPending, Answering
<1> QED
  BY <1>1, <1>2, <1>3, BeginKeeps

\* A return needs a quiet row.
LEMMA BeginReturn ==
  ASSUME MarketInv, NEW t \in Tasks, NEW r \in Reservations, Quiet(r),
         Begin(t, r, "ret_read", NoJob)
  PROVE  MarketInv' /\ Monotone
<1>1. NoJob \in Jobs /\ NoJob.batch = {} /\ "ret_read" \in Labels
  BY DEF NoJob, Jobs, ReservationStates, Labels
<1>2. \A i \in Jobs : i.row = r /\ i.batch = {} => MarketRelies("ret_read", i)
  BY DEF MarketRelies, Rowless, Selling, AfterPending, Answering
<1> QED
  BY <1>1, <1>2, BeginKeeps

\* A row that is not pending, or that final keys belong to, is quiet.
LEMMA QuietRows ==
  ASSUME MarketInv, NEW r \in Reservations
  PROVE  /\ resv[r] \notin {"none", "pending"} => Quiet(r)
         /\ ~Market(r, "kinguin") /\ given[r] # {} => Quiet(r)
<1>1. resv[r] \notin {"none", "pending"} => Quiet(r)
  BY DEF MarketInv, RowsMatchProvisions, Quiet
<1>2. Handed(r)
  BY DEF MarketInv
<1> QED
  BY <1>1, <1>2 DEF Handed

\* BUYING, BOUGHT, CANCELED, RETURNED and REFUNDED
LEMMA KinguinRequestKeeps ==
  ASSUME MarketInv, NEW t \in Tasks, NEW r \in Reservations, KinguinRequest(t, r)
  PROVE  MarketInv' /\ Monotone
<1>1. "cancelled" \in Closed /\ "failed" \in Closed
  BY DEF Closed
<1>2. resv[r] \in Closed \union {"provisioned"} => Quiet(r) /\ resv[r] # "none"
  BY QuietRows DEF Closed
<1>3. CASE Buying(t, r) \/ Bought(t, r)
  BY <1>1, <1>3, BeginClaim, BeginRelease DEF Buying, Bought
<1>4. CASE Cancelled(t, r)
  BY <1>1, <1>2, <1>4, BeginReturn, BeginRelease DEF Cancelled
<1>5. CASE Returned(t, r) \/ Refunded(t, r)
  BY <1>1, <1>2, <1>5, BeginReturn, BeginRelease DEF Returned, Refunded
<1> QED
  BY <1>3, <1>4, <1>5 DEF KinguinRequest

\* G2A asks about rows it was given keys of: those are quiet.
LEMMA G2ARequestKeeps ==
  ASSUME MarketInv, NEW t \in Tasks, NEW r \in Reservations, Market(r, "g2a"), G2ARequest(t, r)
  PROVE  MarketInv' /\ Monotone
<1>1. Known(r) => Quiet(r)
  BY QuietRows DEF Known, Market
<1>2. NoJob \in Jobs /\ NoJob.batch = {} /\ Quantity[r] \in Nat
  BY QuantityType DEF NoJob, Jobs, ReservationStates
<1>3. CASE GReserve(t, r)
  BY <1>3, BeginClaim DEF GReserve
<1>4. CASE GOrder(t, r)
  <2>1. "g_order" \in Labels
    BY DEF Labels
  <2>2. \A i \in Jobs : i.row = r /\ i.batch = {} => MarketRelies("g_order", i)
    BY DEF MarketRelies, Rowless, Selling, AfterPending, Answering
  <2> QED
    BY <1>2, <1>4, <2>1, <2>2, BeginKeeps DEF GOrder
<1>5. CASE GRenew(t, r)
  <2>1. CASE Begin(t, r, "reply",
               [NoJob EXCEPT !.keys = KeysWith(r, "pending") \union KeysWith(r, "delivered")])
    <3> DEFINE j == [NoJob EXCEPT !.keys = KeysWith(r, "pending") \union KeysWith(r, "delivered")]
    <3>1. j.keys \subseteq Final(r) /\ j \in Jobs /\ j.batch = {}
      BY <1>1, <1>2, <1>5 DEF GRenew, NoJob, Jobs, Quiet, Final, KeysWith
    <3>2. "reply" \in Labels /\ Begin(t, r, "reply", j)
      BY <2>1 DEF Labels
    <3> HIDE DEF j
    <3>3. \A i \in Jobs : i.row = r /\ i.keys = j.keys /\ i.batch = {} => MarketRelies("reply", i)
      BY <3>1 DEF MarketRelies, Rowless, Selling, AfterPending, Answering
    <3> QED
      BY <3>1, <3>2, <3>3, BeginKeeps
  <2>2. CASE Begin(t, r, "g_expire", [NoJob EXCEPT !.qty = Quantity[r], !.target = "expired"])
    <3>1. "expired" \in ReservationStates /\ "g_expire" \in Labels
      BY DEF ReservationStates, Labels
    <3>2. PICK j \in Jobs : j.batch = {} /\ j.qty = Quantity[r] /\ Begin(t, r, "g_expire", j)
      BY <1>2, <2>2, <3>1, FreshJobs, ZenonT(60)
    <3>3. Quiet(r)
      BY <1>1, <1>5 DEF GRenew
    <3>4. \A i \in Jobs : i.row = r /\ i.qty = Quantity[r] /\ i.batch = {} => MarketRelies("g_expire", i)
      BY <3>3 DEF MarketRelies, Rowless, Selling, AfterPending, Answering
    <3> QED
      BY <3>1, <3>2, <3>4, BeginKeeps
  <2> QED
    BY <1>5, <2>1, <2>2 DEF GRenew
<1>6. CASE GCancel(t, r)
  <2>1. Quiet(r) /\ "cancelled" \in Closed
    BY <1>1, <1>6 DEF GCancel, Closed
  <2> QED
    BY <1>6, <2>1, BeginReturn, BeginRelease DEF GCancel
<1>7. CASE GGetInventory(t, r)
  <2>1. "replay" \in Labels
    BY DEF Labels
  <2>2. \A i \in Jobs : i.row = r /\ i.batch = {} => MarketRelies("replay", i)
    BY DEF MarketRelies, Rowless, Selling, AfterPending, Answering, Market
  <2> QED
    BY <1>2, <1>7, <2>1, <2>2, BeginKeeps DEF GGetInventory
<1> QED
  BY <1>3, <1>4, <1>5, <1>6, <1>7 DEF G2ARequest

\* The locals of a return at one of its items.
LEMMA ItemJob ==
  ASSUME NEW r \in Reservations, NEW k \in Keys
  PROVE  LET j == Item(<<r, k>>) IN
           j \in Jobs /\ j.row = r /\ j.keys = {k} /\ j.batch = {}
  BY DEF Item, NoJob, Jobs, ReservationStates

\* A return goes on with an item that is final.
LEMMA ItemKeeps ==
  ASSUME MarketInv, TablesKept, NEW t \in Tasks, NEW p \in Reservations \X Keys,
         p[2] \in Final(p[1]), Continue(t, "g_return", Item(p))
  PROVE  MarketInv' /\ Monotone
<1>1. PICK r \in Reservations, k \in Keys : p = <<r, k>>
  OBVIOUS
<1>2. PICK j \in Jobs : j = Item(p) /\ j.row = r /\ j.keys = {k} /\ j.batch = {}
  BY <1>1, ItemJob
<1>3. "g_return" \in Labels /\ MarketRelies("g_return", j)
  BY <1>1, <1>2 DEF Labels, MarketRelies, Rowless, Selling, AfterPending, Answering
<1> QED
  BY <1>2, <1>3, MoveKeeps

\* The provisions a return finds were delivered.
LEMMA ReturnRequestKeeps ==
  ASSUME MarketInv, NEW t \in Workers, GReturnInventory(t)
  PROVE  MarketInv' /\ Monotone
<1>1. PICK S \in SUBSET Sent : \E p \in DeliveredOf(S) :
        /\ Start(t, "g_return", Item(p))
        /\ items' = [items EXCEPT ![t] = DeliveredOf(S) \ {p}]
  BY DEF GReturnInventory
<1>2. PICK p \in DeliveredOf(S) :
        /\ Start(t, "g_return", Item(p))
        /\ items' = [items EXCEPT ![t] = DeliveredOf(S) \ {p}]
  BY <1>1
<1>3. MarketTypeOK /\ t \in Tasks
  BY TasksAre DEF MarketInv, MarketplaceTypeOK
<1>4. DeliveredOf(S) \subseteq Reservations \X Keys
  BY <1>3 DEF DeliveredOf, Sent, MarketTypeOK
<1>5. p \in Reservations \X Keys /\ p[2] \in Final(p[1])
  BY <1>4 DEF DeliveredOf, Final, KeysWith
<1>6. TablesKept
  <2>1. MarketTypeOK'
    BY <1>2, <1>3, <1>4 DEF GReturnInventory, MarketTypeOK
  <2>2. DbTypeOK' /\ UNCHANGED <<prov, resv, given>>
    BY <1>3, Mover DEF GReturnInventory, dbVars, DbTypeOK
  <2> QED
    BY <2>1, <2>2, OtherTables
<1> QED
  BY <1>2, <1>3, <1>5, <1>6, ItemKeeps DEF Start

\* A Digiseller request claims, or replays what the invoice was given.
LEMMA DeliverKeeps ==
  ASSUME MarketInv, NEW t \in Tasks, NEW r \in Reservations, Deliver(t, r)
  PROVE  MarketInv' /\ Monotone
<1>1. CASE Begin(t, r, "claim", [NoJob EXCEPT !.qty = Quantity[r]])
  BY <1>1, BeginClaim
<1>2. CASE Begin(t, r, "replay", [NoJob EXCEPT !.qty = Quantity[r]])
  <2>1. Quantity[r] \in Nat /\ "replay" \in Labels /\ "none" \in ReservationStates
    BY QuantityType DEF Labels, ReservationStates
  <2>2. PICK j \in Jobs : j.batch = {} /\ j.qty = Quantity[r] /\ Begin(t, r, "replay", j)
    BY <1>2, <2>1, FreshJobs
  <2>3. \A i \in Jobs : i.row = r /\ i.qty = Quantity[r] /\ i.batch = {} => MarketRelies("replay", i)
    BY DEF MarketRelies, Rowless, Selling, AfterPending, Answering
  <2> QED
    BY <2>1, <2>2, <2>3, BeginKeeps
<1> QED
  BY <1>1, <1>2 DEF Deliver

-------------------------------------------------------------------------------
(* Kinguin: the keys are handed over before they are final.                  *)

\* All pending keys go to the upload, or the row is released.
LEMMA DecryptPendingKeeps ==
  ASSUME MarketInv, NEW t \in Tasks, DecryptPending(t)
  PROVE  MarketInv' /\ Monotone
<1>1. pc[t] = "k_read" /\ job[t] \in Jobs /\ MarketRelies("k_read", job[t]) /\ TablesKept
  BY NoTables, Mover DEF DecryptPending, MarketRelies
<1>2. CASE Goto(t, "release")
  <2>1. "release" \in Labels /\ MarketRelies("release", job[t])
    BY <1>1 DEF Labels, MarketRelies, Rowless, Selling, AfterPending, Answering
  <2> QED
    BY <1>1, <1>2, <2>1, MoveKeeps DEF Goto
<1>3. CASE ~Goto(t, "release")
  <2> DEFINE j == [job[t] EXCEPT !.keys = KeysWith(Row(t), "pending")]
  <2>1. Continue(t, "k_upload", j)
    BY <1>3 DEF DecryptPending
  <2>2. /\ j \in Jobs /\ j.row = job[t].row /\ j.batch = job[t].batch
        /\ j.target = job[t].target /\ j.keys = KeysWith(j.row, "pending")
    BY <1>1 DEF Jobs, KeysWith, Row
  <2> HIDE DEF j
  <2>3. j.keys \subseteq Claimed(j.row)
    BY <2>2 DEF KeysWith, Claimed
  <2>4. "k_upload" \in Labels /\ MarketRelies("k_upload", j)
    BY <1>1, <2>2, <2>3 DEF Labels, MarketRelies, Rowless, Selling, AfterPending, Answering
  <2> QED
    BY <1>1, <2>1, <2>2, <2>4, MoveKeeps
<1> QED
  BY <1>2, <1>3

\* Only when every key was uploaded does the task go on to finalize.
LEMMA UploadKeysKeeps ==
  ASSUME MarketInv, NEW t \in Tasks, Market(Row(t), "kinguin"), UploadKeys(t)
  PROVE  MarketInv' /\ Monotone
<1>1. pc[t] = "k_upload" /\ job[t] \in Jobs /\ MarketRelies("k_upload", job[t])
  BY Mover DEF UploadKeys, MarketRelies
<1>2. {"k_upload", "k_finalize", "release"} \subseteq Labels
  BY DEF Labels
<1>3. CASE \E k \in Missing(t) : Give(Row(t), {k}) /\ Goto(t, "k_upload")
  <2>1. PICK k \in Missing(t) : Give(Row(t), {k}) /\ Goto(t, "k_upload")
    BY <1>3
  <2>2. PICK r \in Reservations : r = Row(t)
    BY <1>1 DEF MarketRelies, Row, Rowless
  <2>3. PICK S \in SUBSET Claimed(r) : S = {k}
    BY <1>1, <2>2 DEF MarketRelies, Missing, Row
  <2>4. TablesKept
    BY <2>1, <2>2, <2>3, GiveKept DEF UploadKeys
  <2> QED
    BY <1>1, <1>2, <2>1, <2>4, MoveKeeps DEF Goto
<1>4. CASE Missing(t) = {} /\ Goto(t, "k_finalize") /\ UNCHANGED marketVars
  <2>1. MarketRelies("k_finalize", job[t])
    BY <1>1, <1>4 DEF MarketRelies, Missing, Row, Rowless, Selling, AfterPending, Answering
  <2> QED
    BY <1>1, <1>2, <1>4, <2>1, NoTables, MoveKeeps DEF UploadKeys, Goto
<1>5. CASE Goto(t, "release") /\ UNCHANGED marketVars
  <2>1. MarketRelies("release", job[t])
    BY <1>1 DEF MarketRelies, Rowless, Selling, AfterPending, Answering
  <2> QED
    BY <1>1, <1>2, <1>5, <2>1, NoTables, MoveKeeps DEF UploadKeys, Goto
<1> QED
  BY <1>3, <1>4, <1>5 DEF UploadKeys

\* What becomes final was uploaded.
LEMMA FinalizeUploadedKeeps ==
  ASSUME MarketInv, NEW t \in Tasks, FinalizeUploaded(t)
  PROVE  MarketInv' /\ Monotone
<1>1. pc[t] = "k_finalize" /\ MarketRelies("k_finalize", job[t])
  BY Mover DEF FinalizeUploaded, MarketRelies
<1>2. CASE Goto(t, "idle") /\ UNCHANGED dbVars
  BY <1>2, NoTables, StopKeeps DEF FinalizeUploaded
<1>3. CASE /\ CanFinalize(Row(t), job[t].keys)
           /\ FinalizeProvisions(Row(t), job[t].keys)
           /\ Goto(t, "sale_check") \/ Goto(t, "idle")
  <2>1. PICK r \in Reservations, j \in Jobs : r = Row(t) /\ j = job[t]
    BY <1>1, Mover DEF MarketRelies, Row, Rowless
  <2>2. /\ j.row = r /\ j.keys \in SUBSET Keys /\ KeysWith(r, "pending") \subseteq j.keys
        /\ j.keys \subseteq given[r]
        /\ \A q \in j.batch : resv[q] # "none"
    BY <1>1, <2>1 DEF MarketRelies, Row, Jobs
  <2>3. TablesKept /\ j.keys \subseteq Final(r)'
    BY <1>3, <2>1, <2>2, FinalizeKept DEF FinalizeUploaded
  <2>4. \A q \in j.batch : resv'[q] # "none"
    BY <2>2, <2>3 DEF TablesKept, Monotone, Jobs
  <2>5. "sale_check" \in Labels /\ MarketRelies("sale_check", j)'
    BY <2>2, <2>3, <2>4 DEF Labels, MarketRelies, Rowless, Selling, AfterPending, Answering
  <2>6. Goto(t, "sale_check") => MarketInv' /\ Monotone
    BY <2>1, <2>3, <2>5, StepKeeps DEF Goto
  <2> QED
    BY <1>3, <2>3, <2>6, StopKeeps
<1> QED
  BY <1>2, <1>3 DEF FinalizeUploaded

\* Every step of a Kinguin request.
LEMMA KinguinStepKeeps ==
  ASSUME MarketInv, NEW t \in Tasks, Market(Row(t), "kinguin"), KinguinStep(t)
  PROVE  MarketInv' /\ Monotone
<1>1. CASE Within(KClaim(t))
  <2> DEFINE ok == IF Fulfilling(t) THEN "k_read" ELSE "idle"
  <2>1. MayClaim(t, ok)
    BY DEF MayClaim, Fulfilling, Closed
  <2>2. /\ ClaimKeys(t, ok, "idle") \/ JitPurchase(t, "idle") \/ ClaimRetry(t, ok, "idle")
        /\ UNCHANGED marketVars
    BY <1>1 DEF Within, KClaim
  <2> HIDE DEF ok
  <2> QED
    BY <2>1, <2>2, ClaimKeysKeeps, JitPurchaseKeeps, ClaimRetryKeeps
<1>2. CASE DecryptPending(t) \/ UploadKeys(t) \/ FinalizeUploaded(t)
  BY <1>2, DecryptPendingKeeps, UploadKeysKeeps, FinalizeUploadedKeeps
<1>3. CASE ~(\/ Within(KClaim(t)) \/ DecryptPending(t) \/ UploadKeys(t) \/ FinalizeUploaded(t))
  BY <1>3, SaleKeeps, ReleaseKeeps, ReleaseStatusKeeps, ReturnStepsKeep DEF KinguinStep, Within
<1> QED
  BY <1>1, <1>2, <1>3

-------------------------------------------------------------------------------
(* G2A and Digiseller: the keys are handed over with the answer.             *)

\* The answer hands over final keys, and may be followed by the sale.
LEMMA AnswerKeeps ==
  ASSUME MarketInv, NEW t \in Tasks, NEW done \in {"idle", "sale_check"}, Answer(t, done)
  PROVE  MarketInv' /\ Monotone
<1>1. pc[t] = "reply" /\ job[t] \in Jobs /\ MarketRelies("reply", job[t])
  BY Mover DEF Answer, MarketRelies
<1>2. TablesKept
  <2>1. PICK r \in Reservations : r = Row(t)
    BY <1>1 DEF MarketRelies, Row, Rowless
  <2>2. job[t].keys \subseteq Final(r) /\ Final(r) \subseteq Claimed(r)
    BY <1>1, <2>1 DEF MarketRelies, Row, Answering, Final, Claimed, KeysWith
  <2>3. PICK S \in SUBSET Claimed(r) : S = job[t].keys
    BY <2>2
  <2> QED
    BY <2>1, <2>2, <2>3, GiveKept, NoTables DEF Answer
<1> QED
  BY <1>1, <1>2, KeepsAnswering DEF Answer, Answering, Selling

\* The order of G2A is marked and its keys read.
LEMMA OrderStepsKeep ==
  ASSUME MarketInv, NEW t \in Tasks, OrderMark(t) \/ OrderKeys(t)
  PROVE  MarketInv' /\ Monotone
<1>1. /\ pc[t] \in {"g_order", "g_keys"} /\ job[t] \in Jobs /\ job[t].row \in Reservations
      /\ \A q \in job[t].batch : resv[q] # "none"
  BY Mover DEF OrderMark, OrderKeys, MarketRelies, Rowless
<1>2. CASE OrderMark(t)
  <2>1. DbTypeOK' /\ MarketTypeOK' /\ UNCHANGED <<prov, resv, given>>
    BY <1>1, <1>2, Mover DEF OrderMark, dbVars, DbTypeOK, MarketTypeOK, Row
  <2>2. "g_keys" \in Labels /\ MarketRelies("g_keys", job[t])
    BY <1>1 DEF Labels, MarketRelies, Rowless, Selling, AfterPending, Answering
  <2> QED
    BY <1>1, <1>2, <2>1, <2>2, OtherTables, MoveKeeps DEF OrderMark, Goto
<1>3. CASE OrderKeys(t)
  <2> DEFINE j == [job[t] EXCEPT !.keys = KeysWith(Row(t), "delivered")]
  <2>1. Continue(t, "sale_check", j)
    BY <1>3 DEF OrderKeys
  <2>2. /\ j \in Jobs /\ j.row = job[t].row /\ j.batch = job[t].batch
        /\ j.keys = KeysWith(j.row, "delivered")
    BY <1>1 DEF Jobs, KeysWith, Row
  <2> HIDE DEF j
  <2>3. "sale_check" \in Labels /\ MarketRelies("sale_check", j)
    BY <1>1, <2>2 DEF Labels, MarketRelies, Rowless, Selling, AfterPending, Answering, Final
  <2> QED
    BY <1>3, <2>1, <2>2, <2>3, NoTables, MoveKeeps DEF OrderKeys
<1> QED
  BY <1>2, <1>3

\* A renewal that came too late closes the row, whose keys stay final.
LEMMA ExpireRowKeeps ==
  ASSUME MarketInv, NEW t \in Tasks, ExpireRow(t)
  PROVE  MarketInv' /\ Monotone
<1>1. pc[t] = "g_expire" /\ job[t] \in Jobs /\ MarketRelies("g_expire", job[t])
  BY Mover DEF ExpireRow, MarketRelies
<1>2. Row(t) \in Reservations /\ Quiet(Row(t)) /\ "expired" \in Closed
  BY <1>1 DEF MarketRelies, Row, Rowless, Closed
<1>3. TablesKept
  BY <1>2, CloseKept DEF ExpireRow
<1>4. "claim" \in Labels /\ MarketRelies("claim", job[t])
  BY <1>1 DEF Labels, MarketRelies, Rowless, Selling, AfterPending, Answering
<1> QED
  BY <1>1, <1>3, <1>4, MoveKeeps DEF ExpireRow, Goto

\* What a return still has to take is final.
ItemsFinal == \A t \in Workers : \A p \in items[t] : p[2] \in Final(p[1])

\* An item goes back in stock and its provision is refunded: it stays final.
LEMMA ReturnItemKeeps ==
  ASSUME MarketInv, ItemsFinal, NEW t \in Workers, ReturnItem(t)
  PROVE  MarketInv' /\ Monotone
<1>1. /\ pc[t] \in {"g_return", "g_refund"} /\ job[t] \in Jobs /\ t \in Tasks
      /\ MarketRelies(pc[t], job[t]) /\ MarketTypeOK
  BY Mover, TasksAre DEF ReturnItem, ReturnKey, RefundItem
<1>2. PICK r \in Reservations, S \in SUBSET Keys : r = Row(t) /\ S = job[t].keys
  BY <1>1 DEF MarketRelies, Row, Rowless, Jobs
<1>3. S # {} /\ S \subseteq Final(r)
  BY <1>1, <1>2 DEF MarketRelies, Row
<1>4. Quiet(r) /\ S \in SUBSET Claimed(r)
  BY <1>3 DEF MarketInv, Handed, Final, KeysWith, Claimed
<1>5. CASE ReturnKey(t)
  <2>1. DbTypeOK' /\ MarketTypeOK' /\ UNCHANGED <<prov, resv, given>>
    BY <1>1, <1>5, Mover DEF ReturnKey, SetKeys, KeyStates, rowVars, marketVars, DbTypeOK, MarketTypeOK
  <2>2. "g_refund" \in Labels /\ MarketRelies("g_refund", job[t])
    BY <1>1 DEF Labels, MarketRelies, Rowless, Selling, AfterPending, Answering
  <2> QED
    BY <1>1, <1>5, <2>1, <2>2, OtherTables, MoveKeeps DEF ReturnKey, Goto
<1>6. CASE RefundItem(t)
  <2>1. SetProvisions(r, S, "refunded")
    BY <1>2, <1>6 DEF RefundItem
  <2>2. Market(r, "kinguin") => S \subseteq given[r]
    BY <1>3 DEF MarketInv, Handed
  <2>3. /\ keyState' \in [Keys -> KeyStates]
        /\ UNCHANGED <<keyOrder, resv, createdAt, orders, given>>
    BY <1>1, <1>6, Mover DEF RefundItem, keyVars, DbTypeOK
  <2>4. MarketTypeOK'
    BY <1>1, <1>2, <1>6 DEF RefundItem, NextItem, MarketTypeOK
  <2>5. TablesKept
    BY <1>4, <2>1, <2>2, <2>3, <2>4, ProvisionsKept DEF Quiet
  <2>6. CASE Goto(t, "idle")
    BY <1>1, <2>5, <2>6, StopKeeps
  <2>7. CASE ~Goto(t, "idle")
    <3>1. PICK p \in items[t] : Continue(t, "g_return", Item(p))
      BY <1>6, <2>7 DEF RefundItem, NextItem
    <3>2. p \in Reservations \X Keys /\ p[2] \in Final(p[1])
      BY <1>1 DEF ItemsFinal, MarketTypeOK
    <3> QED
      BY <1>1, <2>5, <3>1, <3>2, ItemKeeps
  <2> QED
    BY <2>6, <2>7
<1> QED
  BY <1>5, <1>6 DEF ReturnItem

\* Every step of a G2A request.
LEMMA G2AStepKeeps ==
  ASSUME MarketInv, NEW t \in Tasks, Market(Row(t), "g2a"), G2AStep(t)
  PROVE  MarketInv' /\ Monotone
<1>1. MayClaim(t, "prov_read") /\ ~Market(Row(t), "kinguin")
  BY DEF MayClaim, Market
<1>2. PICK raised \in {"idle", "release"} :
        raised = GFailed(t) /\ (raised = "release" => job[t].target \in Closed)
  BY DEF GFailed, Closed
<1>3. CASE Within(ClaimKeys(t, "prov_read", "idle"))
           \/ Within(JitPurchase(t, "idle") \/ ClaimRetry(t, "prov_read", "idle"))
  BY <1>1, <1>3, ClaimKeysKeeps, JitPurchaseKeeps, ClaimRetryKeeps DEF Within
<1>4. CASE Within(ProvisionRead(t, GFailed(t)) \/ ProvisionFinalize(t, GFailed(t)))
           \/ Within(ProvisionDecrypt(t, "reply", GFailed(t)))
  BY <1>1, <1>2, <1>4, ProvisionReadKeeps, ProvisionFinalizeKeeps, ProvisionDecryptKeeps
     DEF Within
<1>5. CASE \/ Within(Release(t, "idle") \/ ReleaseStatus(t, "idle")) \/ Within(ReturnSteps(t))
           \/ Within(Replay(t)) \/ Within(SaleSteps(t))
  BY <1>5, ReleaseKeeps, ReleaseStatusKeeps, ReturnStepsKeep, ReplayKeeps, SaleKeeps
     DEF Within, SaleSteps
<1>6. CASE OrderMark(t) \/ OrderKeys(t) \/ ExpireRow(t) \/ Answer(t, "idle")
  BY <1>6, OrderStepsKeep, ExpireRowKeeps, AnswerKeeps
<1> QED
  BY <1>3, <1>4, <1>5, <1>6 DEF G2AStep

\* What was delivered is answered again; when nothing was, a claim is tried.
LEMMA ReplayDeliveredKeeps ==
  ASSUME MarketInv, NEW t \in Tasks, Market(Row(t), "digiseller"), ReplayDelivered(t)
  PROVE  MarketInv' /\ Monotone
<1>1. pc[t] = "replay" /\ job[t] \in Jobs /\ MarketRelies("replay", job[t]) /\ TablesKept
  BY NoTables, Mover DEF ReplayDelivered, MarketRelies
<1>2. CASE Goto(t, "claim")
  <2>1. "claim" \in Labels /\ MarketRelies("claim", job[t])
    BY <1>1 DEF Labels, MarketRelies, Row, Rowless, Selling, AfterPending, Answering
  <2> QED
    BY <1>1, <1>2, <2>1, MoveKeeps DEF Goto
<1>3. CASE ~Goto(t, "claim")
  <2> DEFINE j == [job[t] EXCEPT !.keys = KeysWith(Row(t), "delivered"), !.qty = 0]
  <2>1. Continue(t, "reply", j)
    BY <1>3 DEF ReplayDelivered
  <2>2. /\ j \in Jobs /\ j.row = job[t].row /\ j.batch = job[t].batch
        /\ j.keys = KeysWith(j.row, "delivered")
    BY <1>1 DEF Jobs, KeysWith, Row
  <2> HIDE DEF j
  <2>3. "reply" \in Labels /\ MarketRelies("reply", j)
    BY <1>1, <2>2 DEF Labels, MarketRelies, Rowless, Selling, AfterPending, Answering, Final
  <2> QED
    BY <1>1, <2>1, <2>2, <2>3, MoveKeeps
<1> QED
  BY <1>2, <1>3

\* Every step of a Digiseller request.
LEMMA DigisellerStepKeeps ==
  ASSUME MarketInv, NEW t \in Tasks, Market(Row(t), "digiseller"), DigisellerStep(t)
  PROVE  MarketInv' /\ Monotone
<1>1. MayClaim(t, "prov_read") /\ ~Market(Row(t), "kinguin")
  BY DEF MayClaim, Market
<1>2. PICK done \in {"idle", "sale_check"} : done = AfterAnswer(t)
  BY DEF AfterAnswer
<1>3. CASE Within(ClaimKeys(t, "prov_read", "idle"))
           \/ Within(JitPurchase(t, "idle") \/ ClaimRetry(t, "prov_read", "idle"))
  BY <1>1, <1>3, ClaimKeysKeeps, JitPurchaseKeeps, ClaimRetryKeeps DEF Within
<1>4. CASE Within(ProvisionRead(t, "idle") \/ ProvisionFinalize(t, "idle"))
           \/ Within(ProvisionDecrypt(t, "reply", "idle"))
  BY <1>1, <1>4, ProvisionReadKeeps, ProvisionFinalizeKeeps, ProvisionDecryptKeeps DEF Within
<1>5. CASE ReplayDelivered(t) \/ Answer(t, AfterAnswer(t))
  BY <1>2, <1>5, ReplayDeliveredKeeps, AnswerKeeps
<1>6. CASE Within(\/ SaleCheck(t, "idle") \/ SaleInsert(t, "idle") \/ SaleCredit(t)
                  \/ SaleLink(t, "idle"))
  BY <1>6, SaleKeeps DEF Within
<1> QED
  BY <1>3, <1>4, <1>5, <1>6 DEF DigisellerStep

-------------------------------------------------------------------------------
(* The sweep.                                                                *)

\* A sweep starts with rows in use, and takes them one by one to expire them.
LEMMA SweepKeeps ==
  ASSUME MarketInv, Within(Sweep)
  PROVE  MarketInv' /\ Monotone
<1>1. Cron \in Tasks /\ UNCHANGED marketVars /\ "cron_next" \in Labels /\ "release" \in Labels
  BY TasksAre DEF Within, Labels
<1>2. ASSUME NEW batch \in SUBSET Reservations, \A r \in batch : resv[r] = "pending",
             Continue(Cron, "cron_next", [NoJob EXCEPT !.batch = batch]), UNCHANGED dbVars
      PROVE  MarketInv' /\ Monotone
  <2> DEFINE j == [NoJob EXCEPT !.batch = batch]
  <2>1. j \in Jobs /\ j.batch = batch
    BY DEF NoJob, Jobs, ReservationStates
  <2>2. Continue(Cron, "cron_next", j)
    BY <1>2
  <2> HIDE DEF j
  <2>3. MarketRelies("cron_next", j)
    BY <1>2, <2>1 DEF MarketRelies, Rowless, Selling, AfterPending, Answering
  <2> QED
    BY <1>1, <1>2, <2>1, <2>2, <2>3, NoTables, MoveKeeps
<1>3. CASE SweepStart({r \in Reservations : MayStart(r)})
  <2>1. PICK batch \in SUBSET Reservations :
          /\ \A r \in batch : resv[r] = "pending"
          /\ Continue(Cron, "cron_next", [NoJob EXCEPT !.batch = batch])
    BY <1>3 DEF SweepStart, Start
  <2> QED
    BY <1>2, <1>3, <2>1 DEF SweepStart
<1>4. CASE Goto(Cron, "idle") /\ UNCHANGED dbVars
  BY <1>1, <1>4, NoTables, StopKeeps
<1>5. CASE SweepNext /\ ~(Goto(Cron, "idle") /\ UNCHANGED dbVars)
  <2>1. PICK r \in job[Cron].batch :
          Continue(Cron, "release", [NoJob EXCEPT !.row = r, !.target = "expired",
                                                  !.batch = job[Cron].batch \ {r}])
    BY <1>5 DEF SweepNext
  <2> DEFINE j == [NoJob EXCEPT !.row = r, !.target = "expired",
                                !.batch = job[Cron].batch \ {r}]
  <2>2. /\ job[Cron] \in Jobs /\ r \in Reservations
        /\ \A q \in job[Cron].batch : resv[q] # "none"
    BY <1>1, <2>1, Mover DEF MarketRelies, Jobs
  <2>3. j \in Jobs /\ j.row = r /\ j.target \in Closed /\ j.batch = job[Cron].batch \ {r}
    BY <2>2 DEF NoJob, Jobs, ReservationStates, Closed
  <2>4. Continue(Cron, "release", j)
    BY <2>1
  <2> HIDE DEF j
  <2>5. MarketRelies("release", j)
    BY <2>1, <2>2, <2>3 DEF MarketRelies, Rowless, Selling, AfterPending, Answering
  <2> QED
    BY <1>1, <1>5, <2>3, <2>4, <2>5, NoTables, MoveKeeps DEF SweepNext
<1>6. CASE SweepRelease
  BY <1>1, <1>6, ReleaseKeeps, ReleaseStatusKeeps DEF SweepRelease
<1> QED
  BY <1>3, <1>4, <1>5, <1>6 DEF Within, Sweep, SweepNext

-------------------------------------------------------------------------------
(* All steps.                                                                *)

\* Nobody waits and nothing is handed out at first.
LEMMA InitMarkets ==
  ASSUME MarketplaceInit
  PROVE  MarketInv /\ ItemsFinal
<1> USE DEF MarketplaceInit, MarketInit, Init, DbInit
<1>1. MarketplaceTypeOK
  <2>1. NoJob \in Jobs /\ "idle" \in Labels
    BY DEF Jobs, NoJob, ReservationStates, Labels
  <2>2. NoOrderRow \in OrderRows
    BY DEF NoOrderRow, OrderRows, OrderStates
  <2> QED
    BY <2>1, <2>2 DEF MarketplaceTypeOK, MarketTypeOK, TypeOK, DbTypeOK, KeyStates,
                      ProvisionStates, ReservationStates
<1>2. RowsMatchProvisions
  BY DEF RowsMatchProvisions, KeysWith
<1>3. ASSUME NEW r \in Reservations
      PROVE  Handed(r)
  <2>1. Claimed(r) = {} /\ Final(r) = {} /\ given[r] = {}
    BY DEF Claimed, Final, KeysWith
  <2>2. Cardinality(Claimed(r)) <= Quantity[r]
    BY <2>1, QuantityType, FS_EmptySet
  <2> QED
    BY <2>1, <2>2 DEF Handed
<1>4. \A t \in Tasks : MarketRelies(pc[t], job[t])
  BY DEF MarketRelies, NoJob, Rowless, Selling, AfterPending, Answering
<1>5. ItemsFinal
  BY DEF ItemsFinal
<1> QED
  BY <1>1, <1>2, <1>3, <1>4, <1>5 DEF MarketInv

\* Only a return and its items are about more than the row of their task.
LEMMA RequestsApart ==
  ASSUME NEW t \in Workers, Request(t), ~GReturnInventory(t)
  PROVE  UNCHANGED <<dbVars, marketVars>>
<1>1. \A r, l, j : Begin(t, r, l, j) => UNCHANGED <<dbVars, marketVars>>
  BY DEF Begin
<1> QED
  BY <1>1 DEF Request, KinguinRequest, Buying, Bought, Cancelled, Returned, Refunded, G2ARequest,
              GReserve, GOrder, GRenew, GCancel, GGetInventory, Deliver

LEMMA StepsApart ==
  ASSUME NEW t \in Workers, WorkerStep(t), ~ReturnItem(t)
  PROVE  UNCHANGED <<items, strayed>>
<1>1. UNCHANGED marketVars => UNCHANGED <<items, strayed>>
  BY DEF marketVars
<1>2. CASE Serves(t, "kinguin") /\ KinguinStep(t)
  BY <1>1, <1>2 DEF KinguinStep, Within, DecryptPending, UploadKeys, FinalizeUploaded, Give
<1>3. CASE Serves(t, "g2a") /\ G2AStep(t)
  BY <1>1, <1>3 DEF G2AStep, Within, OrderMark, OrderKeys, ExpireRow, Answer, Give
<1>4. CASE Serves(t, "digiseller") /\ DigisellerStep(t)
  BY <1>1, <1>4 DEF DigisellerStep, Within, ReplayDelivered, Answer, Give
<1> QED
  BY <1>2, <1>3, <1>4 DEF WorkerStep

\* Every step keeps the invariant and is monotone.
LEMMA NextMonotone ==
  ASSUME MarketInv, ItemsFinal, [MarketplaceNext]_marketplaceVars
  PROVE  MarketInv' /\ Monotone
<1>1. ASSUME NEW t \in Workers, Request(t)
      PROVE  MarketInv' /\ Monotone
  BY <1>1, TasksAre, ReturnRequestKeeps, KinguinRequestKeeps, G2ARequestKeeps, DeliverKeeps
     DEF Request
<1>2. ASSUME NEW t \in Workers, WorkerStep(t)
      PROVE  MarketInv' /\ Monotone
  BY <1>2, TasksAre, ReturnItemKeeps, KinguinStepKeeps, G2AStepKeeps, DigisellerStepKeeps
     DEF WorkerStep, Serves
<1>3. CASE Within(Sweep)
  BY <1>3, SweepKeeps
<1>4. CASE UNCHANGED marketplaceVars
  <2>1. UNCHANGED <<keyState, keyOrder, prov, resv, createdAt, orders, pc, job, marketVars>>
    BY <1>4 DEF marketplaceVars, vars, marketVars
  <2>2. TablesKept
    BY <2>1, NoTables DEF dbVars, marketVars
  <2>3. MarketplaceTypeOK' /\ \A t \in Tasks : MarketRelies(pc[t], job[t])'
    BY <2>1 DEF MarketInv, MarketplaceTypeOK, TypeOK, DbTypeOK, MarketTypeOK, MarketRelies,
                Quiet, Final, Claimed, KeysWith, marketVars
  <2> QED
    BY <2>2, <2>3 DEF MarketInv, TablesKept
<1> QED
  BY <1>1, <1>2, <1>3, <1>4 DEF MarketplaceNext

\* What a return finds was delivered, and what is final stays final.
LEMMA ItemsStayFinal ==
  ASSUME MarketInv, ItemsFinal, Monotone, [MarketplaceNext]_marketplaceVars
  PROVE  ItemsFinal'
<1>1. MarketTypeOK
  BY DEF MarketInv, MarketplaceTypeOK
<1>2. \A p \in Reservations \X Keys : p[2] \in Final(p[1]) => p[2] \in Final(p[1])'
  BY DEF Monotone, Final, KeysWith
<1>3. \A u \in Workers : items[u] \subseteq Reservations \X Keys
  BY <1>1 DEF MarketTypeOK
<1>4. (\A u \in Workers : items'[u] \subseteq items[u]) => ItemsFinal'
  BY <1>2, <1>3 DEF ItemsFinal
<1>5. CASE UNCHANGED items
  BY <1>4, <1>5
<1>6. ASSUME NEW t \in Workers, RefundItem(t)
      PROVE  \A u \in Workers : items'[u] \subseteq items[u]
  BY <1>1, <1>6 DEF RefundItem, NextItem, MarketTypeOK
<1>7. ASSUME NEW t \in Workers, GReturnInventory(t)
      PROVE  ItemsFinal'
  <2>1. PICK S \in SUBSET Sent : \E p \in DeliveredOf(S) :
          items' = [items EXCEPT ![t] = DeliveredOf(S) \ {p}]
    BY <1>7 DEF GReturnInventory
  <2>2. DeliveredOf(S) \subseteq Reservations \X Keys
    BY <1>1 DEF DeliveredOf, Sent, MarketTypeOK
  <2>3. \A q \in DeliveredOf(S) : q[2] \in Final(q[1])
    BY <2>2 DEF DeliveredOf, Final, KeysWith
  <2>4. \A u \in Workers : items'[u] \subseteq items[u] \union DeliveredOf(S)
    BY <1>1, <2>1 DEF MarketTypeOK
  <2> QED
    BY <1>2, <1>3, <2>2, <2>3, <2>4 DEF ItemsFinal
<1>8. ASSUME NEW t \in Workers, ReturnKey(t)
      PROVE  UNCHANGED items
  BY <1>8 DEF ReturnKey, marketVars
<1>9. CASE \E t \in Workers : Request(t) \/ WorkerStep(t)
  BY <1>4, <1>5, <1>6, <1>7, <1>8, <1>9, RequestsApart, StepsApart DEF ReturnItem, marketVars
<1> QED
  BY <1>5, <1>9 DEF MarketplaceNext, Within, marketVars, marketplaceVars

LEMMA NextKeeps ==
  ASSUME MarketInv, ItemsFinal, [MarketplaceNext]_marketplaceVars
  PROVE  MarketInv' /\ ItemsFinal' /\ Monotone
  BY NextMonotone, ItemsStayFinal

-------------------------------------------------------------------------------
(* The theorems.                                                             *)

\* Reservations, provisions and the keys handed out agree at every call of every
\* handler.
THEOREM MarketInvariant == MarketplaceSpec => [](MarketInv /\ ItemsFinal)
<1>1. MarketplaceInit => MarketInv /\ ItemsFinal
  BY InitMarkets
<1>2. MarketInv /\ ItemsFinal /\ [MarketplaceNext]_marketplaceVars => (MarketInv /\ ItemsFinal)'
  BY NextKeeps
<1> QED
  BY <1>1, <1>2, PTL DEF MarketplaceSpec

\* Tables and locals stay well typed.
THEOREM MarketTypes == MarketplaceSpec => []MarketplaceTypeOK
<1>1. MarketInv => MarketplaceTypeOK
  BY DEF MarketInv
<1> QED
  BY <1>1, MarketInvariant, PTL

\* What is booked as delivered to Kinguin was uploaded to Kinguin.
THEOREM KinguinHasItsKeys == MarketplaceSpec => []DeliveredWasUploaded
<1>1. MarketInv => DeliveredWasUploaded
  BY DEF MarketInv, Handed, Final, DeliveredWasUploaded
<1> QED
  BY <1>1, MarketInvariant, PTL

\* What G2A and Digiseller were handed stays final.
THEOREM AnswersStayFinal == MarketplaceSpec => []GivenIsFinal
<1>1. MarketInv => GivenIsFinal
  BY DEF MarketInv, Handed, GivenIsFinal
<1> QED
  BY <1>1, MarketInvariant, PTL

\* No reservation is handed more keys than it asked for, whatever is repeated.
THEOREM NoneGivenTwice == MarketplaceSpec => []GivenWithinQuantity
<1>1. ASSUME MarketInv, NEW r \in Reservations
      PROVE  Cardinality(given[r]) <= Quantity[r]
  <2>1. given[r] \subseteq Claimed(r) /\ Cardinality(Claimed(r)) <= Quantity[r]
    BY <1>1 DEF MarketInv, Handed
  <2>2. IsFiniteSet(Claimed(r)) /\ Cardinality(Claimed(r)) \in Nat
    BY KeysCount DEF Claimed
  <2>3. Cardinality(given[r]) \in Nat /\ Cardinality(given[r]) <= Cardinality(Claimed(r))
    BY <2>1, <2>2, FS_Subset, FS_CardinalityType
  <2> QED
    BY <2>1, <2>2, <2>3, QuantityType
<1>2. MarketInv => GivenWithinQuantity
  BY <1>1 DEF GivenWithinQuantity
<1> QED
  BY <1>2, MarketInvariant, PTL

\* No pending provision is left behind a row that is closed or provisioned.
THEOREM MarketNoPhantoms == MarketplaceSpec => []NoPhantomProvision
<1>1. MarketInv => NoPhantomProvision
  BY DEF MarketInv, RowsMatchProvisions, NoPhantomProvision
<1> QED
  BY <1>1, MarketInvariant, PTL

\* A closed reservation stays closed, also when G2A renews it too late.
THEOREM MarketNeverReopened == MarketplaceSpec => NeverReopened
<1> DEFINE Stays == \A r \in Reservations : resv[r] \in Closed => resv'[r] \in Closed
<1>1. MarketInv /\ ItemsFinal /\ [MarketplaceNext]_marketplaceVars => [Stays]_vars
  BY NextKeeps DEF Monotone
<1> QED
  BY <1>1, MarketInvariant, PTL DEF MarketplaceSpec, NeverReopened

-------------------------------------------------------------------------------
(* What a step leaves alone: a worker writes what is final, and the books,   *)
(* of its own row only.                                                      *)

SameBooks(q) ==
  /\ orders'[q] = orders[q]
  /\ KeysWith(q, "delivered")' = KeysWith(q, "delivered")
  /\ KeysWith(q, "refunded")' = KeysWith(q, "refunded")

\* Calls that write nothing leave all books alone.
LEMMA NoBooks ==
  ASSUME UNCHANGED <<prov, orders>>
  PROVE  \A q \in Reservations : SameBooks(q)
  BY DEF SameBooks, KeysWith

\* Claims, and releases by anyone, touch pending provisions only.
LEMMA ClaimSameBooks ==
  ASSUME MarketInv, NEW t \in Tasks, NEW pool, NEW ok, pc[t] \in {"claim", "claim_retry"},
         ClaimFrom(t, pool, ok)
  PROVE  \A q \in Reservations : SameBooks(q)
<1>1. PICK r \in Reservations : r = Row(t)
  BY Mover DEF MarketRelies, Rowless, Row
<1>2. PICK S \in SUBSET Keys : ClaimAndReserve(r, S)
  BY <1>1 DEF ClaimFrom, Claimable
<1>3. /\ \A k \in Keys : prov[r][k] = "none"
      /\ prov \in [Reservations -> [Keys -> ProvisionStates]]
  BY <1>1, Mover DEF ClaimFrom, RowsMatchProvisions, DbTypeOK
<1>4. \A q \in Reservations, k \in Keys :
        prov'[q][k] = prov[q][k] \/ (prov'[q][k] = "pending" /\ prov[q][k] = "none")
  BY <1>2, <1>3 DEF ClaimAndReserve, SetProvisions
<1> QED
  BY <1>2, <1>4 DEF ClaimAndReserve, SameBooks, KeysWith

LEMMA ReleaseSameBooks ==
  ASSUME MarketInv, NEW t \in Tasks, NEW l, Release(t, l) \/ ReleaseStatus(t, l)
  PROVE  \A q \in Reservations : SameBooks(q)
<1>1. CASE UNCHANGED <<prov, orders>>
  BY <1>1, NoBooks
<1>2. CASE ReleaseReserved(Row(t))
  <2>1. prov \in [Reservations -> [Keys -> ProvisionStates]]
    BY Mover DEF DbTypeOK
  <2>2. \A q \in Reservations, k \in Keys :
          prov'[q][k] = prov[q][k] \/ (prov'[q][k] = "failed" /\ prov[q][k] = "pending")
    BY <1>2, <2>1 DEF ReleaseReserved, SetProvisions, KeysWith
  <2> QED
    BY <1>2, <2>2 DEF ReleaseReserved, SameBooks, KeysWith
<1> QED
  BY <1>1, <1>2 DEF Release, ReleaseStatus, dbVars, rowVars

\* other rows' books stay
Apart(r) == \A q \in Reservations : q # r => SameBooks(q)

\* A worker leaves other rows than its own alone.
LEMMA OthersBooks ==
  ASSUME MarketInv, NEW t \in Tasks, WorkerStep(t)
  PROVE  Apart(Row(t))
<1>1. /\ prov \in [Reservations -> [Keys -> ProvisionStates]]
      /\ orders \in [Reservations -> OrderRows]
  BY Mover DEF DbTypeOK
<1>2. ASSUME UNCHANGED <<prov, orders>>
      PROVE  Apart(Row(t))
  BY <1>2, NoBooks DEF Apart
<1>3. ASSUME NEW S, NEW status, SetProvisions(Row(t), S, status), UNCHANGED orders
      PROVE  Apart(Row(t))
  BY <1>1, <1>3 DEF Apart, SetProvisions, SameBooks, KeysWith
<1>4. ASSUME NEW order, SetOrder(Row(t), order)
      PROVE  Apart(Row(t))
  BY <1>1, <1>4 DEF Apart, SetOrder, SameBooks, KeysWith, rowVars
<1>5. CASE \E ok : ClaimKeys(t, ok, "idle") \/ JitPurchase(t, "idle") \/ ClaimRetry(t, ok, "idle")
  BY <1>2, <1>3, <1>5 DEF ClaimKeys, JitPurchase, ClaimRetry, ClaimFrom, ClaimAndReserve,
                          dbVars, rowVars
<1>6. CASE \E ok, raised : \/ ProvisionRead(t, raised) \/ ProvisionFinalize(t, raised)
                           \/ ProvisionDecrypt(t, ok, raised)
  BY <1>2, <1>3, <1>6 DEF ProvisionRead, ProvisionFinalize, ProvisionDecrypt,
                          FinalizeProvisions, dbVars, rowVars
<1>7. CASE Release(t, "idle") \/ ReleaseStatus(t, "idle")
  BY <1>2, <1>3, <1>7 DEF Release, ReleaseStatus, ReleaseReserved, dbVars, rowVars
<1>8. CASE ReturnSteps(t)
  <2>1. CASE ReturnRead(t) \/ ReturnRestock(t) \/ ReturnFlip(t) \/ ReturnTotals(t) \/ ReturnFinal(t)
    BY <1>2, <1>3, <2>1 DEF ReturnRead, ReturnRestock, ReturnFlip, ReturnTotals, ReturnFinal,
                            RestockKeys, dbVars, rowVars
  <2>2. CASE LedgerRead(t) \/ LedgerInsert(t) \/ LedgerStatus(t)
    BY <1>2, <1>4, <2>2 DEF LedgerRead, LedgerInsert, LedgerStatus, dbVars, rowVars
  <2> QED
    BY <1>8, <2>1, <2>2 DEF ReturnSteps
<1>9. CASE \E done : \/ SaleCheck(t, done) \/ SaleInsert(t, done) \/ SaleCredit(t)
                     \/ SaleLink(t, done) \/ Answer(t, done)
  BY <1>2, <1>4, <1>9 DEF SaleCheck, SaleInsert, SaleCredit, SaleLink, Answer, dbVars, rowVars
<1>10. CASE \/ Replay(t) \/ OrderMark(t) \/ OrderKeys(t) \/ ExpireRow(t) \/ ReplayDelivered(t)
            \/ DecryptPending(t) \/ UploadKeys(t) \/ FinalizeUploaded(t) \/ ReturnItem(t)
  BY <1>2, <1>3, <1>10 DEF Replay, OrderMark, OrderKeys, ExpireRow, ReturnItem, ReturnKey,
     RefundItem, ReplayDelivered, DecryptPending, UploadKeys, FinalizeUploaded,
     FinalizeProvisions, dbVars, rowVars
<1>11. CASE G2AStep(t)
  <2>1. CASE SaleSteps(t) \/ Answer(t, "idle")
    BY <1>9, <2>1 DEF SaleSteps
  <2>2. CASE ~(SaleSteps(t) \/ Answer(t, "idle"))
    BY <1>5, <1>6, <1>7, <1>8, <1>10, <1>11, <2>2 DEF G2AStep, Within
  <2> QED
    BY <2>1, <2>2
<1>12. CASE DigisellerStep(t)
  BY <1>5, <1>6, <1>9, <1>10, <1>12 DEF DigisellerStep, Within
<1>13. CASE KinguinStep(t)
  BY <1>5, <1>7, <1>8, <1>9, <1>10, <1>13 DEF KinguinStep, KClaim, Within
<1> QED
  BY <1>10, <1>11, <1>12, <1>13 DEF WorkerStep

-------------------------------------------------------------------------------
(* Stock.  Returns write a key and its provision one after the other, so two *)
(* workers at one reservation, or a provision that cannot be written, would  *)
(* leave in stock what a buyer has.                                          *)

Serial == (~Overlap \/ \A t, u \in Workers : t = u) /\ "write" \notin Faults

\* states of a key that a claim can take, now or once it is bought
Free == {"absent", "available"}

\* labels at which keys are given up before their provisions
Taking == {"ret_restock", "ret_flip", "g_return", "g_refund"}

StepOf(t) == \A u \in Tasks : u # t => pc'[u] = pc[u] /\ job'[u] = job[u]

\* the key is in stock again, its provision about to follow
GivesUp(r, k) == Returning(r, k) \/ HandingBack(r, k)

Keeps(r, k) == prov[r][k] = "pending" \/ (prov[r][k] = "delivered" /\ ~GivesUp(r, k))

CronReleases == pc[Cron] \notin Taking

OneWorkerPerRow ==
  \A t, u \in Workers : Row(t) = Row(u) /\ Row(t) # NoRow => t = u

\* what is about to be taken back is still delivered to its row
TakesOwnKeys ==
  \A t \in Tasks : pc[t] \in Taking \ {"ret_flip"} =>
    job[t].keys \subseteq KeysWith(Row(t), "delivered")

OneKeeper == \A k \in Keys : \A r, q \in Reservations : Keeps(r, k) /\ Keeps(q, k) => r = q

KeptStates ==
  \A r \in Reservations, k \in Keys : Keeps(r, k) =>
    keyState[k] = IF prov[r][k] = "pending" THEN "seller_reserved" ELSE "seller_provisioned"

Owned == TakesOwnKeys /\ OneKeeper /\ KeptStates

\* what a return still has to take is delivered, and nobody works on its row
ItemsAwait ==
  \A t \in Workers : \A p \in items[t] :
    /\ pc[t] \in {"g_return", "g_refund"}
    /\ p[2] \in KeysWith(p[1], "delivered")
    /\ ~(p[1] = Row(t) /\ p[2] \in job[t].keys)
    /\ \A u \in Workers \ {t} : Row(u) # p[1] /\ \A q \in items[u] : q[1] # p[1]

StockInv == CronReleases /\ OneWorkerPerRow /\ Owned /\ ItemsAwait

\* A task that takes keys back works on a row.
LEMMA TakerHasRow ==
  ASSUME MarketInv, NEW t \in Tasks, pc[t] \in Taking
  PROVE  Row(t) \in Reservations /\ Row(t) # NoRow
  BY Mover, NoRowIsNoRow DEF MarketRelies, Rowless, Taking, Row

\* Nobody else takes keys back from that row.
LEMMA OneTaker ==
  ASSUME MarketInv, CronReleases, OneWorkerPerRow, NEW t \in Tasks, NEW u \in Tasks,
         pc[t] \in Taking, pc[u] \in Taking, Row(t) = Row(u)
  PROVE  t = u
<1>1. t \in Workers /\ u \in Workers
  BY TasksAre DEF CronReleases
<1> QED
  BY <1>1, TakerHasRow DEF OneWorkerPerRow

\* A key that is given up stays so while others move.
LEMMA GivesUpStays ==
  ASSUME NEW t \in Tasks, StepOf(t), pc[t] \notin {"ret_flip", "g_refund"},
         NEW r \in Reservations, NEW k \in Keys, GivesUp(r, k)
  PROVE  GivesUp(r, k)'
<1>1. CASE Returning(r, k)
  BY <1>1 DEF Returning, GivesUp, StepOf, Row
<1>2. CASE HandingBack(r, k)
  BY <1>2 DEF HandingBack, GivesUp, StepOf, Row
<1> QED
  BY <1>1, <1>2 DEF GivesUp

\* Then no reservation keeps more than before.
LEMMA KeepersStay ==
  ASSUME NEW t \in Tasks, StepOf(t), pc[t] \notin {"ret_flip", "g_refund"},
         \A q \in Reservations, k \in Keys :
           /\ prov'[q][k] = "pending" => prov[q][k] = "pending"
           /\ prov'[q][k] = "delivered" => prov[q][k] \in {"pending", "delivered"}
  PROVE  \A q \in Reservations, k \in Keys : Keeps(q, k)' => Keeps(q, k)
<1>1. \A q \in Reservations, k \in Keys : GivesUp(q, k) => GivesUp(q, k)'
  BY GivesUpStays
<1> QED
  BY <1>1 DEF Keeps

\* Keys that others are about to take back are still theirs.
LEMMA TakersStay ==
  ASSUME MarketInv, TakesOwnKeys, NEW t \in Tasks, StepOf(t), pc'[t] \notin Taking \ {"ret_flip"},
         \A u \in Tasks, k \in Keys :
           u # t /\ pc[u] \in Taking /\ prov[Row(u)][k] = "delivered" =>
             prov'[Row(u)][k] = "delivered"
  PROVE  TakesOwnKeys'
<1> SUFFICES ASSUME NEW u \in Tasks, pc'[u] \in Taking \ {"ret_flip"}
             PROVE  job'[u].keys \subseteq KeysWith(Row(u), "delivered")'
  BY DEF TakesOwnKeys
<1>1. u # t /\ pc[u] \in Taking \ {"ret_flip"} /\ job'[u] = job[u]
  BY DEF StepOf
<1>2. job[u].keys \subseteq KeysWith(job[u].row, "delivered")
  BY <1>1 DEF TakesOwnKeys, Row
<1> QED
  BY <1>1, <1>2 DEF KeysWith, Row

\* Who keeps a key after the step kept it before, in the same state.
LEMMA KeptStay ==
  ASSUME Owned,
         \A r \in Reservations, k \in Keys : Keeps(r, k)' =>
           Keeps(r, k) /\ prov'[r][k] = prov[r][k] /\ keyState'[k] = keyState[k]
  PROVE  OneKeeper' /\ KeptStates'
<1>1. OneKeeper'
  BY DEF Owned, OneKeeper
<1>2. KeptStates'
  BY DEF Owned, KeptStates
<1> QED
  BY <1>1, <1>2

\* What can be claimed, or bought, nobody keeps.
LEMMA FreeIsUnkept ==
  ASSUME Owned, NEW k \in Keys, keyState[k] \in Free
  PROVE  \A r \in Reservations : ~Keeps(r, k)
  BY DEF Owned, KeptStates, Free

\* the task neither takes keys back nor goes on to, and only free keys change
Calm(t) ==
  /\ StepOf(t)
  /\ pc[t] \notin {"ret_flip", "g_refund"} /\ pc'[t] \notin Taking
  /\ UNCHANGED prov
  /\ \A k \in Keys : keyState'[k] = keyState[k] \/ keyState[k] \in Free

\* A calm step leaves each key with its keeper.
LEMMA CalmOwned ==
  ASSUME MarketInv, Owned, NEW t \in Tasks, Calm(t)
  PROVE  Owned'
<1>1. \A r \in Reservations, k \in Keys : Keeps(r, k)' => Keeps(r, k)
  BY KeepersStay DEF Calm
<1>2. OneKeeper' /\ KeptStates'
  BY <1>1, FreeIsUnkept, KeptStay DEF Calm
<1>3. TakesOwnKeys'
  BY TakersStay DEF Owned, Calm
<1> QED
  BY <1>2, <1>3 DEF Owned

\* Going on without a write is calm, unless keys are taken back then.
LEMMA GoesOnCalmly ==
  ASSUME MarketInv, Owned, NEW t \in Tasks, NEW l, NEW j, Continue(t, l, j),
         UNCHANGED <<keyState, prov>>, pc[t] \notin {"ret_flip", "g_refund"}, l \notin Taking
  PROVE  Owned'
<1>1. Calm(t)
  BY DEF Calm, StepOf, Continue, MarketInv, MarketplaceTypeOK, TypeOK
<1> QED
  BY <1>1, CalmOwned

\* A worker goes on to take back keys of its own row.
LEMMA TakesOwned ==
  ASSUME MarketInv, Owned, NEW t \in Tasks, pc[t] \notin {"ret_flip", "g_refund"},
         NEW l \in {"ret_restock", "g_return"}, NEW j, Continue(t, l, j),
         UNCHANGED <<keyState, prov>>, j.keys \subseteq KeysWith(j.row, "delivered")
  PROVE  Owned'
<1>1. StepOf(t) /\ pc'[t] = l /\ job'[t] = j
  BY DEF Continue, StepOf, MarketInv, MarketplaceTypeOK, TypeOK
<1>2. \A r \in Reservations, k \in Keys : Keeps(r, k)' => Keeps(r, k)
  BY <1>1, KeepersStay
<1>3. OneKeeper' /\ KeptStates'
  BY <1>2, KeptStay
<1>4. TakesOwnKeys'
  BY <1>1 DEF Owned, TakesOwnKeys, StepOf, Row, KeysWith
<1> QED
  BY <1>3, <1>4 DEF Owned

\* A claim promises keys that nobody keeps to a row that had none.
LEMMA ClaimFromOwned ==
  ASSUME MarketInv, Owned, NEW t \in Tasks, NEW pool, NEW ok, ok \notin Taking,
         pc[t] \in {"claim", "claim_retry"}, ClaimFrom(t, pool, ok)
  PROVE  Owned'
<1>1. PICK r \in Reservations : r = Row(t)
  BY Mover DEF MarketRelies, Rowless, Row
<1>2. PICK S \in SUBSET Claimable(pool) : ClaimAndReserve(r, S)
  BY <1>1 DEF ClaimFrom
<1>3. /\ \A k \in Keys : prov[r][k] = "none"
      /\ prov \in [Reservations -> [Keys -> ProvisionStates]]
  BY <1>1, Mover DEF ClaimFrom, RowsMatchProvisions, DbTypeOK
<1>4. \A q \in Reservations, k \in Keys :
        prov'[q][k] = IF q = r /\ k \in S THEN "pending" ELSE prov[q][k]
  BY <1>2, <1>3 DEF ClaimAndReserve, SetProvisions
<1>5. \A k \in Keys : keyState'[k] = IF k \in S THEN "seller_reserved" ELSE keyState[k]
  BY <1>2 DEF ClaimAndReserve, SetKeys
<1>6. \A k \in S : k \in Keys /\ keyState[k] \in Free
  BY <1>2 DEF Claimable, Free
<1>7. StepOf(t) /\ pc'[t] = ok
  BY DEF ClaimFrom, Goto, Continue, StepOf, MarketInv, MarketplaceTypeOK, TypeOK
<1>8. \A q \in Reservations, k \in Keys : GivesUp(q, k) => GivesUp(q, k)'
  BY <1>7, GivesUpStays
<1>9. \A q \in Reservations, k \in Keys : Keeps(q, k)' => Keeps(q, k) \/ (q = r /\ k \in S)
  BY <1>4, <1>8 DEF Keeps
<1>10. \A k \in S : \A q \in Reservations : ~Keeps(q, k)
  BY <1>6, FreeIsUnkept
<1>11. OneKeeper'
  BY <1>9, <1>10 DEF Owned, OneKeeper
<1>12. KeptStates'
  BY <1>4, <1>5, <1>9, <1>10 DEF Owned, KeptStates
<1>13. \A u \in Tasks, k \in Keys :
         u # t /\ pc[u] \in Taking /\ prov[Row(u)][k] = "delivered" =>
           prov'[Row(u)][k] = "delivered"
  BY <1>3, <1>4, TakerHasRow
<1>14. TakesOwnKeys'
  BY <1>7, <1>13, TakersStay DEF Owned
<1> QED
  BY <1>11, <1>12, <1>14 DEF Owned

\* Provisions that become final are still kept by their row.
LEMMA FinalizeOwned ==
  ASSUME MarketInv, Owned, NEW t \in Tasks, pc[t] \in {"prov_finalize", "k_finalize"},
         CanFinalize(Row(t), job[t].keys), FinalizeProvisions(Row(t), job[t].keys),
         NEW l, l \notin Taking, Goto(t, l)
  PROVE  Owned'
<1>1. PICK r \in Reservations, S \in SUBSET Keys : r = Row(t) /\ S = job[t].keys
  BY Mover DEF MarketRelies, Rowless, Row, Jobs
<1>2. /\ prov \in [Reservations -> [Keys -> ProvisionStates]]
      /\ \A k \in S : prov[r][k] = "pending"
  BY <1>1, Mover DEF DbTypeOK, CanFinalize
<1>3. \A q \in Reservations, k \in Keys :
        prov'[q][k] = IF q = r /\ k \in S THEN "delivered" ELSE prov[q][k]
  BY <1>1, <1>2 DEF FinalizeProvisions, SetProvisions
<1>4. \A k \in Keys : keyState'[k] = IF k \in S THEN "seller_provisioned" ELSE keyState[k]
  BY <1>1 DEF FinalizeProvisions, SetKeys
<1>5. StepOf(t) /\ pc'[t] = l
  BY DEF Goto, Continue, StepOf, MarketInv, MarketplaceTypeOK, TypeOK
<1>6. \A q \in Reservations, k \in Keys : Keeps(q, k)' => Keeps(q, k)
  BY <1>2, <1>3, <1>5, KeepersStay
<1>7. OneKeeper'
  BY <1>6 DEF Owned, OneKeeper
<1>8. KeptStates'
  <2> SUFFICES ASSUME NEW q \in Reservations, NEW k \in Keys, Keeps(q, k)'
               PROVE  keyState'[k] = IF prov'[q][k] = "pending" THEN "seller_reserved"
                                                             ELSE "seller_provisioned"
    BY DEF KeptStates
  <2>1. CASE k \in S
    <3>1. q = r
      BY <1>2, <1>6, <2>1 DEF Keeps, Owned, OneKeeper
    <3> QED
      BY <1>3, <1>4, <2>1, <3>1
  <2>2. CASE k \notin S
    BY <1>3, <1>4, <1>6, <2>2 DEF Owned, KeptStates
  <2> QED
    BY <2>1, <2>2
<1>9. \A u \in Tasks, k \in Keys :
        u # t /\ pc[u] \in Taking /\ prov[Row(u)][k] = "delivered" => prov'[Row(u)][k] = "delivered"
  BY <1>3, TakerHasRow
<1>10. TakesOwnKeys'
  BY <1>5, <1>9, TakersStay DEF Owned
<1> QED
  BY <1>7, <1>8, <1>10 DEF Owned

\* A release frees keys that only its row was promised.
LEMMA ReleaseOwned ==
  ASSUME MarketInv, Owned, NEW t \in Tasks, NEW l \in {"idle", "cron_next"}, Release(t, l)
  PROVE  Owned'
<1>1. CASE Goto(t, l) /\ UNCHANGED dbVars
  <2>1. pc[t] \notin {"ret_flip", "g_refund"} /\ l \notin Taking /\ UNCHANGED <<keyState, prov>>
    BY <1>1 DEF Release, Taking, dbVars
  <2> QED
    BY <1>1, <2>1, GoesOnCalmly DEF Goto
<1>2. CASE ReleaseReserved(Row(t)) /\ Goto(t, "release_status")
  <2>1. PICK r \in Reservations : r = Row(t)
    BY Mover DEF Release, MarketRelies, Rowless, Row
  <2>2. prov \in [Reservations -> [Keys -> ProvisionStates]]
    BY Mover DEF DbTypeOK
  <2>3. \A q \in Reservations, k \in Keys :
          prov'[q][k] = IF q = r /\ prov[r][k] = "pending" THEN "failed" ELSE prov[q][k]
    BY <1>2, <2>1, <2>2 DEF ReleaseReserved, SetProvisions, KeysWith
  <2>4. \A k \in Keys : keyState'[k] = keyState[k] \/ prov[r][k] = "pending"
    BY <1>2, <2>1 DEF ReleaseReserved, SetKeys, KeysWith
  <2>5. StepOf(t) /\ pc'[t] = "release_status" /\ pc[t] = "release"
    BY <1>2 DEF Release, Goto, Continue, StepOf, MarketInv, MarketplaceTypeOK, TypeOK
  <2>6. \A q \in Reservations, k \in Keys : Keeps(q, k)' => Keeps(q, k)
    BY <2>3, <2>5, KeepersStay
  <2>7. \A k \in Keys : prov[r][k] = "pending" => \A q \in Reservations : Keeps(q, k) => q = r
    BY DEF Owned, OneKeeper, Keeps
  <2>8. \A k \in Keys : prov[r][k] = "pending" => ~Keeps(r, k)'
    BY <2>3 DEF Keeps
  <2>9. OneKeeper' /\ KeptStates'
    <3>1. ASSUME NEW q \in Reservations, NEW k \in Keys, Keeps(q, k)'
          PROVE  Keeps(q, k) /\ prov'[q][k] = prov[q][k] /\ keyState'[k] = keyState[k]
      BY <2>3, <2>4, <2>6, <2>7, <2>8, <3>1
    <3> QED
      BY <3>1, KeptStay
  <2>10. \A u \in Tasks, k \in Keys :
           u # t /\ pc[u] \in Taking /\ prov[Row(u)][k] = "delivered" =>
             prov'[Row(u)][k] = "delivered"
    BY <2>3, TakerHasRow
  <2>11. TakesOwnKeys'
    BY <2>5, <2>10, TakersStay DEF Owned, Taking
  <2> QED
    BY <2>9, <2>11 DEF Owned
<1> QED
  BY <1>1, <1>2 DEF Release

\* What goes back in stock only the row of the task kept, which gives it up with
\* the same step.
LEMMA GivenUpOwned ==
  ASSUME MarketInv, StockInv, NEW t \in Tasks, StepOf(t),
         pc[t] \in {"ret_restock", "g_return"}, pc'[t] \in {"ret_flip", "g_refund"},
         NEW r \in Reservations, r = Row(t),
         NEW S \in SUBSET Keys, S \subseteq job[t].keys, \A k \in S : GivesUp(r, k)',
         \A k \in Keys : keyState'[k] = IF k \in S THEN "available" ELSE keyState[k],
         UNCHANGED prov, job'[t].row = job[t].row, job'[t].keys = job[t].keys
  PROVE  Owned'
<1>1. \A q \in Reservations, k \in Keys : Keeps(q, k)' => Keeps(q, k)
  BY KeepersStay
<1>2. ASSUME NEW k \in S
      PROVE  \A q \in Reservations : ~Keeps(q, k)'
  <2>1. k \in Keys /\ prov[r][k] = "delivered"
    BY <1>2 DEF StockInv, Owned, TakesOwnKeys, Taking, KeysWith
  <2>2. ~GivesUp(r, k)
    <3>1. \A u \in Tasks : pc[u] \in Taking /\ Row(u) = r => u = t
      BY OneTaker DEF StockInv, Taking
    <3> QED
      BY <3>1 DEF GivesUp, Returning, HandingBack, Taking
  <2>3. \A q \in Reservations : Keeps(q, k) => q = r
    BY <2>1, <2>2 DEF Keeps, StockInv, Owned, OneKeeper
  <2>4. ~Keeps(r, k)'
    <3>1. GivesUp(r, k)'
      BY <1>2
    <3>2. prov'[r][k] = "delivered"
      BY <2>1
    <3> QED
      BY <3>1, <3>2 DEF Keeps
  <2> QED
    BY <1>1, <2>1, <2>3, <2>4
<1>3. OneKeeper' /\ KeptStates'
  BY <1>1, <1>2, KeptStay DEF StockInv
<1>4. TakesOwnKeys'
  <2> SUFFICES ASSUME NEW u \in Tasks, pc'[u] \in Taking \ {"ret_flip"}
               PROVE  job'[u].keys \subseteq KeysWith(Row(u), "delivered")'
    BY DEF TakesOwnKeys
  <2>1. pc[u] \in Taking \ {"ret_flip"} /\ job'[u].keys = job[u].keys /\ job'[u].row = job[u].row
    BY DEF StepOf, Taking
  <2> QED
    BY <2>1 DEF StockInv, Owned, TakesOwnKeys, Row, KeysWith
<1> QED
  BY <1>3, <1>4 DEF Owned

\* A return restocks keys and goes on to flip their provisions.
LEMMA ReturnRestockOwned ==
  ASSUME MarketInv, StockInv, NEW t \in Tasks, ReturnRestock(t)
  PROVE  Owned'
<1>1. PICK S \in SUBSET Restockable(job[t].keys) :
        /\ RestockKeys(S)
        /\ Continue(t, IF S = {} THEN "ret_totals" ELSE "ret_flip",
                    [job[t] EXCEPT !.count = Cardinality(S)])
  BY DEF ReturnRestock
<1>2. /\ pc[t] = "ret_restock" /\ job[t] \in Jobs
      /\ pc \in [Tasks -> Labels] /\ job \in [Tasks -> Jobs]
  BY DEF ReturnRestock, MarketInv, MarketplaceTypeOK, TypeOK
<1>3. PICK j : j = [job[t] EXCEPT !.count = Cardinality(S)]
  OBVIOUS
<1>4. j.row = job[t].row /\ j.keys = job[t].keys /\ S \subseteq job[t].keys /\ S \in SUBSET Keys
  BY <1>2, <1>3 DEF Jobs, Restockable
<1>5. UNCHANGED prov /\ \A k \in Keys : keyState'[k] = IF k \in S THEN "available" ELSE keyState[k]
  BY <1>1 DEF RestockKeys, SetKeys
<1>6. CASE S = {}
  <2>1. Calm(t)
    BY <1>1, <1>2, <1>5, <1>6 DEF Calm, StepOf, Continue, Taking
  <2> QED
    BY <2>1, CalmOwned DEF StockInv
<1>7. CASE S # {}
  <2>1. StepOf(t) /\ pc'[t] = "ret_flip" /\ job'[t] = j
    BY <1>1, <1>2, <1>3, <1>7 DEF StepOf, Continue
  <2>2. PICK r \in Reservations : r = Row(t)
    BY <1>2, TakerHasRow DEF Taking
  <2>3. ASSUME NEW k \in S
        PROVE  GivesUp(r, k)'
    BY <1>4, <2>1, <2>2, <2>3 DEF GivesUp, Returning, Row
  <2> QED
    BY <1>2, <1>4, <1>5, <2>1, <2>2, <2>3, GivenUpOwned
<1> QED
  BY <1>6, <1>7

\* An item goes back in stock, and its provision comes next.
LEMMA ReturnKeyOwned ==
  ASSUME MarketInv, StockInv, NEW t \in Tasks, ReturnKey(t)
  PROVE  Owned'
<1>1. PICK S \in SUBSET Keys : S = job[t].keys
  BY Mover DEF Jobs
<1>2. /\ pc[t] = "g_return" /\ UNCHANGED prov
      /\ \A i \in Keys : keyState'[i] = IF i \in S THEN "available" ELSE keyState[i]
  BY <1>1 DEF ReturnKey, SetKeys, rowVars
<1>3. StepOf(t) /\ pc'[t] = "g_refund" /\ job'[t] = job[t]
  BY DEF ReturnKey, Goto, Continue, StepOf, MarketInv, MarketplaceTypeOK, TypeOK
<1>4. PICK r \in Reservations : r = Row(t)
  BY <1>2, TakerHasRow DEF Taking
<1>5. \A i \in S : GivesUp(r, i)'
  BY <1>1, <1>3, <1>4 DEF GivesUp, HandingBack, Row
<1> QED
  BY <1>1, <1>2, <1>3, <1>4, <1>5, GivenUpOwned

\* Provisions that become refunded were given up already.
LEMMA FlipOwned ==
  ASSUME MarketInv, StockInv, NEW t \in Tasks, StepOf(t),
         pc[t] \in {"ret_flip", "g_refund"}, UNCHANGED keyState,
         NEW r \in Reservations, r = Row(t), NEW S \in SUBSET Keys,
         SetProvisions(r, S \intersect KeysWith(r, "delivered"), "refunded"),
         \A i \in Keys : GivesUp(r, i) => GivesUp(r, i)' \/ i \in S,
         pc'[t] \in {"ret_totals", "ret_flip", "idle", "g_return"},
         pc'[t] = "g_return" =>
           \E q \in Reservations : job'[t].row = q /\ job'[t].keys \subseteq KeysWith(q, "delivered")'
  PROVE  Owned'
<1>1. prov \in [Reservations -> [Keys -> ProvisionStates]]
  BY Mover DEF DbTypeOK
<1>2. \A q \in Reservations, i \in Keys :
        prov'[q][i] = IF q = r /\ i \in S /\ prov[r][i] = "delivered" THEN "refunded" ELSE prov[q][i]
  BY <1>1 DEF SetProvisions, KeysWith
<1>3. ASSUME NEW q \in Reservations, q # r, NEW i \in Keys, GivesUp(q, i)
      PROVE  GivesUp(q, i)'
  BY <1>3 DEF Returning, HandingBack, GivesUp, StepOf, Row
<1>4. ASSUME NEW q \in Reservations, NEW i \in Keys, Keeps(q, i)'
      PROVE  Keeps(q, i) /\ prov'[q][i] = prov[q][i]
  <2>1. prov'[q][i] = prov[q][i]
    BY <1>2, <1>4 DEF Keeps
  <2>2. CASE prov'[q][i] = "pending"
    BY <2>1, <2>2 DEF Keeps
  <2>3. CASE prov'[q][i] = "delivered"
    <3>1. ~GivesUp(q, i)' /\ ~(q = r /\ i \in S)
      BY <1>2, <1>4, <2>1, <2>3 DEF Keeps
    <3>2. ~GivesUp(q, i)
      BY <1>3, <3>1
    <3> QED
      BY <2>1, <2>3, <3>2 DEF Keeps
  <2> QED
    BY <1>4, <2>1, <2>2, <2>3 DEF Keeps
<1>5. OneKeeper' /\ KeptStates'
  BY <1>4, KeptStay DEF StockInv
<1>6. TakesOwnKeys'
  <2> SUFFICES ASSUME NEW u \in Tasks, pc'[u] \in Taking \ {"ret_flip"}
               PROVE  job'[u].keys \subseteq KeysWith(Row(u), "delivered")'
    BY DEF TakesOwnKeys
  <2>1. CASE u = t
    <3>1. PICK q \in Reservations :
            job'[t].row = q /\ job'[t].keys \subseteq KeysWith(q, "delivered")'
      BY <2>1 DEF Taking
    <3> QED
      BY <2>1, <3>1 DEF Row, KeysWith
  <2>2. CASE u # t
    <3>1. pc[u] \in Taking \ {"ret_flip"} /\ job'[u] = job[u] /\ Row(u) \in Reservations
      BY <2>2, TakerHasRow DEF StepOf
    <3>2. Row(u) # r
      BY <2>2, <3>1, OneTaker DEF StockInv, Taking
    <3>3. job[u].keys \subseteq KeysWith(Row(u), "delivered")
      BY <3>1 DEF StockInv, Owned, TakesOwnKeys
    <3> QED
      BY <1>2, <3>1, <3>2, <3>3 DEF KeysWith, Row
  <2> QED
    BY <2>1, <2>2
<1> QED
  BY <1>5, <1>6 DEF Owned

\* A return flips a provision of a key it has restocked.
LEMMA ReturnFlipOwned ==
  ASSUME Serial, MarketInv, StockInv, NEW t \in Tasks, ReturnFlip(t)
  PROVE  Owned'
<1>1. PICK k \in job[t].keys :
        /\ SetProvisions(Row(t), {k} \intersect KeysWith(Row(t), "delivered"), "refunded")
        /\ Continue(t, IF job[t].keys = {k} THEN "ret_totals" ELSE "ret_flip",
                    [job[t] EXCEPT !.keys = @ \ {k}])
  BY DEF ReturnFlip, CanFail, Serial
<1>2. /\ pc[t] = "ret_flip" /\ UNCHANGED keyState /\ job[t] \in Jobs
      /\ pc \in [Tasks -> Labels] /\ job \in [Tasks -> Jobs]
  BY DEF ReturnFlip, keyVars, MarketInv, MarketplaceTypeOK, TypeOK
<1>3. PICK j : j = [job[t] EXCEPT !.keys = @ \ {k}]
  OBVIOUS
<1>4. j.row = job[t].row /\ j.keys = job[t].keys \ {k} /\ k \in Keys
  BY <1>2, <1>3 DEF Jobs
<1>5. /\ StepOf(t)
      /\ pc'[t] = IF job[t].keys = {k} THEN "ret_totals" ELSE "ret_flip"
      /\ pc'[t] = "ret_flip" => job'[t] = j
  BY <1>1, <1>2, <1>3 DEF Continue, StepOf
<1>6. PICK r \in Reservations : r = Row(t)
  BY <1>2, TakerHasRow DEF Taking
<1>7. ASSUME NEW i \in Keys, GivesUp(r, i), i # k
      PROVE  GivesUp(r, i)'
  <2>1. \A u \in Tasks : pc[u] \in Taking /\ Row(u) = r => u = t
    BY <1>2, <1>6, OneTaker DEF StockInv, Taking
  <2>2. i \in job[t].keys
    BY <1>2, <1>7, <2>1 DEF GivesUp, Returning, HandingBack, Taking
  <2>3. pc'[t] = "ret_flip" /\ i \in j.keys
    BY <1>4, <1>5, <1>7, <2>2
  <2> QED
    BY <1>4, <1>5, <1>6, <2>3 DEF GivesUp, Returning, Row
<1>8. PICK S \in SUBSET Keys : S = {k}
  BY <1>4
<1>9. SetProvisions(r, S \intersect KeysWith(r, "delivered"), "refunded")
  BY <1>1, <1>6, <1>8
<1> QED
  BY <1>2, <1>5, <1>6, <1>7, <1>8, <1>9, FlipOwned

\* An item's provision follows its key; the next item is delivered.
LEMMA RefundItemOwned ==
  ASSUME MarketInv, StockInv, NEW t \in Workers, RefundItem(t)
  PROVE  Owned'
<1>1. /\ pc[t] = "g_refund" /\ UNCHANGED keyState /\ job[t] \in Jobs /\ t \in Tasks
      /\ pc \in [Tasks -> Labels] /\ job \in [Tasks -> Jobs]
      /\ prov \in [Reservations -> [Keys -> ProvisionStates]] /\ MarketTypeOK
  BY TasksAre, Mover DEF RefundItem, keyVars, MarketInv, MarketplaceTypeOK, TypeOK, DbTypeOK
<1>2. PICK r \in Reservations, S \in SUBSET Keys : r = Row(t) /\ S = job[t].keys
  BY <1>1, TakerHasRow DEF Taking, Jobs
<1>3. S \subseteq KeysWith(r, "delivered") /\ SetProvisions(r, S, "refunded")
  BY <1>1, <1>2 DEF StockInv, Owned, TakesOwnKeys, Taking, RefundItem
<1>4. SetProvisions(r, S \intersect KeysWith(r, "delivered"), "refunded")
  <2>1. S \intersect KeysWith(r, "delivered") = S
    BY <1>3
  <2> QED
    BY <1>3, <2>1
<1>5. \A q \in Reservations, k \in Keys :
        prov'[q][k] = IF q = r /\ k \in S THEN "refunded" ELSE prov[q][k]
  BY <1>1, <1>3 DEF SetProvisions
<1>6. \A i \in Keys : GivesUp(r, i) => i \in S
  <2>1. \A u \in Tasks : pc[u] \in Taking /\ Row(u) = r => u = t
    BY <1>1, <1>2, OneTaker DEF StockInv, Taking
  <2> QED
    BY <1>1, <1>2, <2>1 DEF GivesUp, Returning, HandingBack, Taking
<1>7. CASE Goto(t, "idle")
  <2>1. StepOf(t) /\ pc'[t] = "idle"
    BY <1>1, <1>7 DEF Goto, Continue, StepOf
  <2> QED
    BY <1>1, <1>2, <1>4, <1>6, <2>1, FlipOwned
<1>8. CASE ~Goto(t, "idle")
  <2>1. PICK p \in items[t] : Continue(t, "g_return", Item(p))
    BY <1>8 DEF RefundItem, NextItem
  <2>2. p \in Reservations \X Keys
    BY <1>1 DEF MarketTypeOK
  <2>3. PICK q \in Reservations, k \in Keys : p = <<q, k>>
    BY <2>2
  <2>4. PICK j \in Jobs : j = Item(p) /\ j.row = q /\ j.keys = {k}
    BY <2>3, ItemJob
  <2>5. StepOf(t) /\ pc'[t] = "g_return" /\ job'[t] = j
    BY <1>1, <2>1, <2>4 DEF Continue, StepOf
  <2>6. prov[q][k] = "delivered" /\ ~(q = r /\ k \in S)
    BY <1>2, <2>1, <2>3 DEF StockInv, ItemsAwait, KeysWith
  <2>7. job'[t].row = q /\ job'[t].keys \subseteq KeysWith(q, "delivered")'
    <3>1. prov'[q][k] = "delivered"
      BY <1>5, <2>6
    <3> QED
      BY <2>4, <2>5, <3>1 DEF KeysWith
  <2> QED
    BY <1>1, <1>2, <1>4, <1>6, <2>5, <2>7, FlipOwned
<1> QED
  BY <1>7, <1>8

\* The delivered keys of its row a return reads.
LEMMA ReturnReadOwned ==
  ASSUME MarketInv, Owned, NEW t \in Tasks, ReturnRead(t)
  PROVE  Owned'
<1>1. PICK S \in SUBSET KeysWith(Row(t), "delivered") :
        Continue(t, IF S = {} THEN "ret_totals" ELSE "ret_restock", [job[t] EXCEPT !.keys = S])
  BY DEF ReturnRead
<1>2. pc[t] = "ret_read" /\ UNCHANGED <<keyState, prov>> /\ job[t] \in Jobs
  BY Mover DEF ReturnRead, dbVars
<1>3. PICK j : j = [job[t] EXCEPT !.keys = S]
  OBVIOUS
<1>4. j.row = job[t].row /\ j.keys = S /\ j.keys \subseteq KeysWith(j.row, "delivered")
  BY <1>1, <1>2, <1>3 DEF Jobs, Row
<1>5. CASE S = {}
  BY <1>1, <1>2, <1>5, GoesOnCalmly DEF Taking
<1>6. CASE S # {}
  <2>1. Continue(t, "ret_restock", j)
    BY <1>1, <1>3, <1>6
  <2> QED
    BY <1>2, <1>4, <2>1, TakesOwned
<1> QED
  BY <1>5, <1>6

\* Every step of a return; those after the last flip write no key and no provision.
LEMMA ReturnStepsOwned ==
  ASSUME Serial, MarketInv, StockInv, NEW t \in Tasks, ReturnSteps(t)
  PROVE  Owned'
<1>1. CASE ReturnRead(t) \/ ReturnRestock(t) \/ ReturnFlip(t)
  BY <1>1, ReturnReadOwned, ReturnRestockOwned, ReturnFlipOwned DEF StockInv
<1>2. CASE \/ ReturnTotals(t) \/ LedgerRead(t) \/ LedgerInsert(t) \/ LedgerStatus(t)
           \/ ReturnFinal(t)
  <2>1. PICK l \in {"ledger_read", "ledger_insert", "ledger_status", "ret_final", "idle"} :
          \E j : Continue(t, l, j)
    BY <1>2 DEF ReturnTotals, LedgerRead, LedgerInsert, LedgerStatus, ReturnFinal, Goto
  <2>2. pc[t] \notin {"ret_flip", "g_refund"} /\ UNCHANGED <<keyState, prov>> /\ l \notin Taking
    BY <1>2 DEF ReturnTotals, LedgerRead, LedgerInsert, LedgerStatus, ReturnFinal,
                SetOrder, dbVars, keyVars, rowVars, Taking
  <2> QED
    BY <2>1, <2>2, GoesOnCalmly DEF StockInv
<1> QED
  BY <1>1, <1>2 DEF ReturnSteps

\* A claim, or the way to another source.
LEMMA ClaimStepsOwned ==
  ASSUME MarketInv, Owned, NEW t \in Tasks, NEW ok, ok \notin Taking,
         ClaimKeys(t, ok, "idle") \/ JitPurchase(t, "idle") \/ ClaimRetry(t, ok, "idle")
  PROVE  Owned'
<1>1. pc[t] \in {"claim", "jit", "claim_retry"}
  BY DEF ClaimKeys, JitPurchase, ClaimRetry
<1>2. ASSUME NEW l \in {"claim", "jit", "idle"}, NEW j, Continue(t, l, j), UNCHANGED dbVars
      PROVE  Owned'
  <2>1. UNCHANGED <<keyState, prov>> /\ l \notin Taking /\ pc[t] \notin {"ret_flip", "g_refund"}
    BY <1>1, <1>2 DEF dbVars, keyVars, rowVars, Taking
  <2> QED
    BY <1>2, <2>1, GoesOnCalmly
<1>3. CASE ClaimKeys(t, ok, "idle")
  <2>1. CASE ClaimFrom(t, job[t].pool, ok)
    BY <1>1, <1>3, <2>1, ClaimFromOwned DEF ClaimKeys
  <2>2. CASE ~ClaimFrom(t, job[t].pool, ok)
    <3>1. /\ UNCHANGED dbVars
          /\ \/ Goto(t, "jit") \/ Goto(t, "idle")
             \/ Continue(t, "claim", [job[t] EXCEPT !.pool = @ + 1])
      BY <1>3, <2>2 DEF ClaimKeys
    <3> QED
      BY <1>2, <3>1 DEF Goto
  <2> QED
    BY <2>1, <2>2
<1>4. CASE ClaimRetry(t, ok, "idle")
  BY <1>1, <1>2, <1>4, ClaimFromOwned DEF ClaimRetry, Goto
<1>5. CASE JitPurchase(t, "idle")
  <2>1. CASE Goto(t, "idle") /\ UNCHANGED dbVars
    BY <1>2, <2>1 DEF Goto
  <2>2. CASE ~(Goto(t, "idle") /\ UNCHANGED dbVars)
    <3>1. PICK S \in SUBSET {k \in Keys : keyState[k] = "absent" /\ PoolOf[k] = 1} :
            SetKeys(S, "available") /\ Goto(t, "claim_retry") /\ UNCHANGED prov
      BY <1>5, <2>2 DEF JitPurchase, rowVars
    <3>2. Calm(t)
      BY <1>1, <3>1 DEF Calm, StepOf, Goto, Continue, Taking, SetKeys, Free,
                        MarketInv, MarketplaceTypeOK, TypeOK
    <3> QED
      BY <3>2, CalmOwned
  <2> QED
    BY <2>1, <2>2
<1> QED
  BY <1>3, <1>4, <1>5

\* Provisions are read, made final and answered.
LEMMA ProvisionStepsOwned ==
  ASSUME MarketInv, Owned, NEW t \in Tasks, NEW raised \in {"idle", "release"},
         \/ ProvisionRead(t, raised) \/ ProvisionFinalize(t, raised)
         \/ ProvisionDecrypt(t, "reply", raised)
  PROVE  Owned'
<1>1. CASE /\ FinalizeProvisions(Row(t), job[t].keys) /\ CanFinalize(Row(t), job[t].keys)
           /\ pc[t] = "prov_finalize" /\ Goto(t, "prov_decrypt")
  BY <1>1, FinalizeOwned DEF Taking
<1>2. CASE /\ UNCHANGED dbVars /\ pc[t] \in {"prov_read", "prov_finalize", "prov_decrypt"}
           /\ \E l \in {"prov_finalize", "idle", "release", "reply"} : \E j : Continue(t, l, j)
  <2>1. UNCHANGED <<keyState, prov>> /\ pc[t] \notin {"ret_flip", "g_refund"}
    BY <1>2 DEF dbVars, keyVars, rowVars
  <2>2. PICK l \in {"prov_finalize", "idle", "release", "reply"} : \E j : Continue(t, l, j)
    BY <1>2
  <2> QED
    BY <2>1, <2>2, GoesOnCalmly DEF Taking
<1>3. CASE ProvisionRead(t, raised) \/ ProvisionDecrypt(t, "reply", raised)
  BY <1>2, <1>3 DEF ProvisionRead, ProvisionDecrypt, Goto
<1>4. CASE ProvisionFinalize(t, raised)
  BY <1>1, <1>2, <1>4 DEF ProvisionFinalize, Goto
<1> QED
  BY <1>3, <1>4

\* Steps that read, or write neither keys' states nor provisions.
LEMMA OtherStepsOwned ==
  ASSUME MarketInv, Owned, NEW t \in Tasks,
         \/ SaleCheck(t, "idle") \/ SaleInsert(t, "idle") \/ SaleLink(t, "idle")
         \/ SaleSteps(t) \/ ReleaseStatus(t, "idle") \/ ReleaseStatus(t, "cron_next")
         \/ Replay(t) \/ DecryptPending(t) \/ UploadKeys(t) \/ OrderMark(t) \/ OrderKeys(t)
         \/ ExpireRow(t) \/ ReplayDelivered(t) \/ Answer(t, "idle") \/ Answer(t, "sale_check")
  PROVE  Owned'
<1>1. SUFFICES /\ UNCHANGED <<keyState, prov>> /\ pc[t] \notin {"ret_flip", "g_refund"}
               /\ \E l : l \notin Taking /\ \E j : Continue(t, l, j)
  BY GoesOnCalmly
<1> DEFINE Onward == {"idle", "sale_insert", "sale_credit", "sale_link", "sale_check", "reply",
                     "cron_next", "k_upload", "k_finalize", "release", "g_keys", "claim"}
<1>2. SUFFICES /\ UNCHANGED <<keyState, prov>> /\ pc[t] \notin {"ret_flip", "g_refund"}
               /\ \E l \in Onward : \E j : Continue(t, l, j)
  BY DEF Taking
<1>3. CASE SaleCheck(t, "idle") \/ SaleInsert(t, "idle") \/ SaleLink(t, "idle") \/ SaleSteps(t)
  BY <1>3 DEF SaleSteps, SaleCheck, SaleInsert, SaleCredit, SaleLink, Goto, SetOrder,
              dbVars, keyVars, rowVars
<1>4. CASE ReleaseStatus(t, "idle") \/ ReleaseStatus(t, "cron_next") \/ ExpireRow(t)
  BY <1>4 DEF ReleaseStatus, ExpireRow, Goto, keyVars
<1>5. CASE Replay(t) \/ ReplayDelivered(t) \/ DecryptPending(t)
  BY <1>5 DEF Replay, ReplayDelivered, DecryptPending, Goto, dbVars, keyVars, rowVars
<1>6. CASE UploadKeys(t) \/ OrderMark(t) \/ OrderKeys(t)
  BY <1>6 DEF UploadKeys, OrderMark, OrderKeys, Goto, dbVars, keyVars, rowVars
<1>7. CASE Answer(t, "idle") \/ Answer(t, "sale_check")
  BY <1>7 DEF Answer, Goto, dbVars, keyVars, rowVars
<1> QED
  BY <1>3, <1>4, <1>5, <1>6, <1>7

\* Every step of a request.
LEMMA WorkerStepsOwned ==
  ASSUME Serial, MarketInv, StockInv, NEW t \in Workers, WorkerStep(t)
  PROVE  Owned'
<1> USE TasksAre DEF StockInv, Within
<1>1. CASE Within(KClaim(t))
  <2>1. PICK ok \in {"k_read", "idle"} :
          ClaimKeys(t, ok, "idle") \/ JitPurchase(t, "idle") \/ ClaimRetry(t, ok, "idle")
    BY <1>1 DEF KClaim
  <2> QED
    BY <2>1, ClaimStepsOwned DEF Taking
<1>2. CASE FinalizeUploaded(t)
  <2>1. CASE /\ CanFinalize(Row(t), job[t].keys) /\ FinalizeProvisions(Row(t), job[t].keys)
             /\ Goto(t, "sale_check") \/ Goto(t, "idle")
    BY <1>2, <2>1, FinalizeOwned DEF FinalizeUploaded, Taking
  <2>2. CASE Goto(t, "idle") /\ UNCHANGED dbVars
    BY <1>2, <2>2, GoesOnCalmly DEF FinalizeUploaded, Goto, dbVars, keyVars, rowVars, Taking
  <2> QED
    BY <1>2, <2>1, <2>2 DEF FinalizeUploaded
<1>3. CASE KinguinStep(t)
  BY <1>1, <1>2, <1>3, OtherStepsOwned, ReleaseOwned, ReturnStepsOwned DEF KinguinStep, SaleSteps
<1>4. CASE \/ ClaimKeys(t, "prov_read", "idle") \/ JitPurchase(t, "idle")
           \/ ClaimRetry(t, "prov_read", "idle")
  BY <1>4, ClaimStepsOwned DEF Taking
<1>5. ASSUME NEW raised \in {"idle", "release"},
             \/ ProvisionRead(t, raised) \/ ProvisionFinalize(t, raised)
             \/ ProvisionDecrypt(t, "reply", raised)
      PROVE  Owned'
  BY <1>5, ProvisionStepsOwned
<1>6. CASE ReturnItem(t)
  BY <1>6, ReturnKeyOwned, RefundItemOwned DEF ReturnItem
<1>7. CASE G2AStep(t)
  <2>1. GFailed(t) \in {"idle", "release"}
    BY DEF GFailed
  <2> QED
    BY <1>4, <1>5, <1>7, <2>1, OtherStepsOwned, ReleaseOwned, ReturnStepsOwned DEF G2AStep
<1>8. CASE DigisellerStep(t)
  <2>1. AfterAnswer(t) \in {"idle", "sale_check"}
    BY DEF AfterAnswer
  <2> QED
    BY <1>4, <1>5, <1>8, <2>1, OtherStepsOwned DEF DigisellerStep, SaleSteps
<1> QED
  BY <1>3, <1>6, <1>7, <1>8 DEF WorkerStep

\* the task stays with its row, or ends
StaysInRow(t) == StepOf(t) /\ job'[t].row \in {job[t].row, NoRow}

\* Every step of a request stays with its row, but for the next item of a return.
LEMMA WorkersStay ==
  ASSUME MarketInv, NEW t \in Tasks, WorkerStep(t), ~RefundItem(t)
  PROVE  StaysInRow(t)
<1>1. job[t] \in Jobs /\ pc \in [Tasks -> Labels] /\ job \in [Tasks -> Jobs] /\ NoJob.row = NoRow
  BY DEF MarketInv, MarketplaceTypeOK, TypeOK, NoJob
<1>2. ASSUME NEW l, NEW j, Continue(t, l, j), j.row = job[t].row
      PROVE  StaysInRow(t)
  BY <1>1, <1>2 DEF StaysInRow, StepOf, Continue
<1>3. ASSUME NEW l, Goto(t, l)
      PROVE  StaysInRow(t)
  BY <1>2, <1>3 DEF Goto
<1>4. ASSUME NEW l, NEW f \in {"pool", "keys", "count", "delta"}, NEW v,
             Continue(t, l, [job[t] EXCEPT ![f] = v])
      PROVE  StaysInRow(t)
  <2>1. PICK j : j = [job[t] EXCEPT ![f] = v]
    OBVIOUS
  <2>2. j.row = job[t].row
    BY <1>1, <2>1 DEF Jobs
  <2> QED BY <1>2, <1>4, <2>1, <2>2
<1>5. ASSUME NEW l, NEW f \in {"num", "keys"}, NEW g \in {"den", "qty"}, NEW v, NEW w,
             Continue(t, l, [job[t] EXCEPT ![f] = v, ![g] = w])
      PROVE  StaysInRow(t)
  <2>1. PICK j : j = [job[t] EXCEPT ![f] = v, ![g] = w]
    OBVIOUS
  <2>2. j.row = job[t].row
    BY <1>1, <2>1 DEF Jobs
  <2> QED BY <1>2, <1>5, <2>1, <2>2
<1>6. ASSUME NEW ok, ClaimKeys(t, ok, "idle") \/ JitPurchase(t, "idle") \/ ClaimRetry(t, ok, "idle")
      PROVE  StaysInRow(t)
  BY <1>3, <1>4, <1>6 DEF ClaimKeys, JitPurchase, ClaimRetry, ClaimFrom
<1>7. ASSUME NEW raised, NEW ok,
             \/ ProvisionRead(t, raised) \/ ProvisionFinalize(t, raised)
             \/ ProvisionDecrypt(t, ok, raised)
      PROVE  StaysInRow(t)
  BY <1>3, <1>4, <1>7 DEF ProvisionRead, ProvisionFinalize, ProvisionDecrypt
<1>8. ASSUME NEW l, \/ SaleCheck(t, l) \/ SaleInsert(t, l) \/ SaleCredit(t) \/ SaleLink(t, l)
                    \/ Release(t, l) \/ ReleaseStatus(t, l) \/ Answer(t, l)
      PROVE  StaysInRow(t)
  BY <1>3, <1>8 DEF SaleCheck, SaleInsert, SaleCredit, SaleLink, Release, ReleaseStatus, Answer
<1>9. ASSUME ReturnSteps(t)
      PROVE  StaysInRow(t)
  <2>1. CASE ReturnRead(t) \/ ReturnRestock(t) \/ ReturnFlip(t) \/ LedgerRead(t)
    BY <1>4, <2>1 DEF ReturnRead, ReturnRestock, ReturnFlip, LedgerRead
  <2>2. CASE ReturnTotals(t)
    BY <1>5, <2>2 DEF ReturnTotals
  <2>3. CASE LedgerInsert(t) \/ LedgerStatus(t) \/ ReturnFinal(t)
    BY <1>3, <2>3 DEF LedgerInsert, LedgerStatus, ReturnFinal
  <2> QED BY <1>9, <2>1, <2>2, <2>3 DEF ReturnSteps
<1>10. CASE KinguinStep(t)
  <2>1. CASE DecryptPending(t) \/ UploadKeys(t) \/ FinalizeUploaded(t)
    BY <1>3, <1>4, <2>1 DEF DecryptPending, UploadKeys, FinalizeUploaded
  <2> QED
    BY <1>6, <1>8, <1>9, <1>10, <2>1 DEF KinguinStep, KClaim, Within
<1>11. CASE G2AStep(t)
  <2>1. CASE OrderMark(t) \/ OrderKeys(t) \/ ExpireRow(t) \/ Replay(t)
    BY <1>3, <1>4, <2>1 DEF OrderMark, OrderKeys, ExpireRow, Replay
  <2> QED
    BY <1>6, <1>7, <1>8, <1>9, <1>11, <2>1 DEF G2AStep, SaleSteps, Within
<1>12. CASE DigisellerStep(t)
  <2>1. CASE ReplayDelivered(t)
    BY <1>3, <1>5, <2>1 DEF ReplayDelivered
  <2> QED
    BY <1>6, <1>7, <1>8, <1>12, <2>1 DEF DigisellerStep, Within
<1>13. CASE ReturnKey(t)
  BY <1>3, <1>13 DEF ReturnKey
<1> QED
  BY <1>10, <1>11, <1>12, <1>13 DEF WorkerStep, ReturnItem

\* Only its own steps move a return.
LEMMA LabelsApart ==
  ASSUME NEW t, WorkerStep(t), ~ReturnItem(t)
  PROVE  pc[t] \notin {"g_return", "g_refund"}
<1>1. ASSUME NEW ok, ClaimKeys(t, ok, "idle") \/ JitPurchase(t, "idle") \/ ClaimRetry(t, ok, "idle")
      PROVE  pc[t] \notin {"g_return", "g_refund"}
  BY <1>1 DEF ClaimKeys, JitPurchase, ClaimRetry
<1>2. ASSUME NEW raised, NEW ok,
             \/ ProvisionRead(t, raised) \/ ProvisionFinalize(t, raised)
             \/ ProvisionDecrypt(t, ok, raised)
      PROVE  pc[t] \notin {"g_return", "g_refund"}
  BY <1>2 DEF ProvisionRead, ProvisionFinalize, ProvisionDecrypt
<1>3. ASSUME NEW l, \/ SaleCheck(t, l) \/ SaleInsert(t, l) \/ SaleCredit(t) \/ SaleLink(t, l)
                    \/ Release(t, l) \/ ReleaseStatus(t, l) \/ Answer(t, l)
      PROVE  pc[t] \notin {"g_return", "g_refund"}
  BY <1>3 DEF SaleCheck, SaleInsert, SaleCredit, SaleLink, Release, ReleaseStatus, Answer
<1>4. ASSUME ReturnSteps(t)
      PROVE  pc[t] \notin {"g_return", "g_refund"}
  BY <1>4 DEF ReturnSteps, ReturnRead, ReturnRestock, ReturnFlip, LedgerRead, ReturnTotals,
              LedgerInsert, LedgerStatus, ReturnFinal
<1>5. CASE \/ DecryptPending(t) \/ UploadKeys(t) \/ FinalizeUploaded(t) \/ ReplayDelivered(t)
           \/ OrderMark(t) \/ OrderKeys(t) \/ ExpireRow(t) \/ Replay(t)
  BY <1>5 DEF DecryptPending, UploadKeys, FinalizeUploaded, ReplayDelivered, OrderMark,
              OrderKeys, ExpireRow, Replay
<1>6. CASE KinguinStep(t)
  BY <1>1, <1>3, <1>4, <1>5, <1>6 DEF KinguinStep, KClaim, Within
<1>7. CASE G2AStep(t)
  BY <1>1, <1>2, <1>3, <1>4, <1>5, <1>7 DEF G2AStep, SaleSteps, Within
<1>8. CASE DigisellerStep(t)
  BY <1>1, <1>2, <1>3, <1>5, <1>8 DEF DigisellerStep, Within
<1> QED
  BY <1>6, <1>7, <1>8 DEF WorkerStep

\* What returns wait for stays where it is while a task works on its own row.
LEMMA ItemsStay ==
  ASSUME MarketInv, StockInv, NEW t \in Tasks, StepOf(t), UNCHANGED items,
         \/ t = Cron /\ \A q \in Reservations : SameBooks(q)
         \/ t \in Workers /\ StaysInRow(t) /\ items[t] = {} /\ Apart(Row(t))
         \/ t \in Workers /\ StaysInRow(t) /\ UNCHANGED prov
            /\ pc'[t] = "g_refund" /\ job'[t] = job[t]
  PROVE  ItemsAwait'
<1> SUFFICES ASSUME NEW u \in Workers, NEW p \in items[u]
             PROVE  /\ pc'[u] \in {"g_return", "g_refund"}
                    /\ p[2] \in KeysWith(p[1], "delivered")'
                    /\ ~(p[1] = Row(u)' /\ p[2] \in job'[u].keys)
                    /\ \A v \in Workers \ {u} : Row(v)' # p[1] /\ \A q \in items[v] : q[1] # p[1]
  BY DEF ItemsAwait
<1>1. p \in Reservations \X Keys /\ u \in Tasks
  BY TasksAre DEF MarketInv, MarketplaceTypeOK, MarketTypeOK
<1>2. /\ pc[u] \in {"g_return", "g_refund"}
      /\ p[2] \in KeysWith(p[1], "delivered")
      /\ ~(p[1] = Row(u) /\ p[2] \in job[u].keys)
      /\ \A v \in Workers \ {u} : Row(v) # p[1] /\ \A q \in items[v] : q[1] # p[1]
  BY DEF StockInv, ItemsAwait
<1>3. pc'[u] \in {"g_return", "g_refund"} /\ job'[u] = job[u]
  <2>1. CASE u = t
    BY <2>1, TasksAre
  <2>2. CASE u # t
    BY <1>1, <1>2, <2>2 DEF StepOf
  <2> QED
    BY <2>1, <2>2
<1>4. p[2] \in KeysWith(p[1], "delivered")'
  <2>1. CASE \A q \in Reservations : SameBooks(q)
    BY <1>1, <1>2, <2>1 DEF SameBooks
  <2>2. CASE UNCHANGED prov
    BY <1>2, <2>2 DEF KeysWith
  <2>3. CASE t \in Workers /\ items[t] = {} /\ Apart(Row(t))
    <3>1. u # t
      BY <2>3
    <3>2. p[1] # Row(t)
      BY <1>2, <2>3, <3>1
    <3> QED
      BY <1>1, <1>2, <2>3, <3>2 DEF Apart, SameBooks
  <2> QED
    BY <2>1, <2>2, <2>3
<1>5. \A v \in Workers \ {u} : Row(v)' # p[1]
  <2> SUFFICES ASSUME NEW v \in Workers \ {u}
               PROVE  Row(v)' # p[1]
    OBVIOUS
  <2>1. Row(v)' \in {Row(v), NoRow}
    BY TasksAre DEF StaysInRow, StepOf, Row
  <2> QED
    BY <1>1, <1>2, <2>1, NoRowIsNoRow
<1> QED
  BY <1>2, <1>3, <1>4, <1>5 DEF Row

\* A request that may start finds no other at its row, nor a return that waits
\* for it.
LEMMA AloneAt ==
  ASSUME Serial, NEW t \in Workers, NEW r, MayStart(r)
  PROVE  \A u \in Workers \ {t} : Row(u) # r /\ \A q \in items[u] : q[1] # r
  BY TasksAre DEF Serial, MayStart, Working, Awaiting, Row

\* So one worker is at each row then.
LEMMA BeginsAlone ==
  ASSUME Serial, StockInv, NEW t \in Workers, StepOf(t), NEW r \in Reservations, MayStart(r),
         job'[t].row \in {r, NoRow}
  PROVE  CronReleases' /\ OneWorkerPerRow'
<1>1. CronReleases'
  BY TasksAre DEF StockInv, CronReleases, StepOf
<1>2. \A u \in Workers \ {t} : Row(u) # r /\ job'[u] = job[u]
  BY AloneAt, TasksAre DEF StepOf
<1>3. OneWorkerPerRow'
  BY <1>2 DEF StockInv, OneWorkerPerRow, Row
<1> QED
  BY <1>1, <1>3

\* A request that begins takes a row that no other has, or is the only one.
LEMMA BeginStock ==
  ASSUME Serial, StockInv, MarketInv, NEW t \in Workers, NEW r \in Reservations,
         NEW l, NEW j, Begin(t, r, l, j), "row" \in DOMAIN j, l \notin Taking
  PROVE  StockInv'
<1>1. PICK i : i = [j EXCEPT !.row = r]
  OBVIOUS
<1>2. i.row = r
  BY <1>1
<1>3. /\ Continue(t, l, i) /\ MayStart(r) /\ pc[t] = "idle" /\ t \in Tasks
      /\ UNCHANGED <<keyState, prov, items>>
  BY <1>1, TasksAre DEF Begin, Start, dbVars, keyVars, rowVars, marketVars
<1>4. StepOf(t) /\ job'[t].row \in {r, NoRow}
  BY <1>2, <1>3 DEF Continue, StepOf, NoJob, MarketInv, MarketplaceTypeOK, TypeOK
<1>5. CronReleases' /\ OneWorkerPerRow'
  BY <1>3, <1>4, BeginsAlone
<1>6. Owned'
  BY <1>3, GoesOnCalmly DEF StockInv
<1>7. ItemsAwait'
  <2> SUFFICES ASSUME NEW u \in Workers, NEW p \in items[u]
               PROVE  /\ pc'[u] \in {"g_return", "g_refund"}
                      /\ p[2] \in KeysWith(p[1], "delivered")'
                      /\ ~(p[1] = Row(u)' /\ p[2] \in job'[u].keys)
                      /\ \A v \in Workers \ {u} :
                           Row(v)' # p[1] /\ \A q \in items[v] : q[1] # p[1]
    BY <1>3 DEF ItemsAwait
  <2>1. /\ pc[u] \in {"g_return", "g_refund"}
        /\ p[2] \in KeysWith(p[1], "delivered")
        /\ ~(p[1] = Row(u) /\ p[2] \in job[u].keys)
        /\ \A v \in Workers \ {u} : Row(v) # p[1] /\ \A q \in items[v] : q[1] # p[1]
    BY DEF StockInv, ItemsAwait
  <2>2. u # t /\ u \in Tasks /\ p[1] \in Reservations
    BY <1>3, <2>1, TasksAre DEF MarketInv, MarketplaceTypeOK, MarketTypeOK
  <2>3. pc'[u] = pc[u] /\ job'[u] = job[u] /\ p[1] # r
    BY <1>3, <1>4, <2>2, AloneAt DEF StepOf
  <2>4. \A v \in Workers \ {u} : Row(v)' # p[1]
    BY <1>4, <2>1, <2>2, <2>3, TasksAre, NoRowIsNoRow DEF StepOf, Row
  <2> QED
    BY <1>3, <2>1, <2>3, <2>4 DEF Row, KeysWith
<1> QED
  BY <1>5, <1>6, <1>7 DEF StockInv

\* A return finds delivered provisions, of rows where nobody works.
LEMMA ReturnRequestStock ==
  ASSUME Serial, StockInv, MarketInv, NEW t \in Workers, GReturnInventory(t)
  PROVE  StockInv'
<1>1. PICK S \in SUBSET Sent :
        /\ \A q \in DeliveredOf(S) : MayStart(q[1])
        /\ \E p \in DeliveredOf(S) :
             /\ Start(t, "g_return", Item(p))
             /\ items' = [items EXCEPT ![t] = DeliveredOf(S) \ {p}]
  BY DEF GReturnInventory
<1>2. PICK D : D = DeliveredOf(S)
  OBVIOUS
<1>3. PICK p \in D : Start(t, "g_return", Item(p)) /\ items' = [items EXCEPT ![t] = D \ {p}]
  BY <1>1, <1>2
<1>4. MarketTypeOK /\ t \in Tasks /\ UNCHANGED <<keyState, prov>>
  BY TasksAre DEF MarketInv, MarketplaceTypeOK, GReturnInventory, dbVars, keyVars, rowVars
<1>5. \A q \in D : q \in Reservations \X Keys /\ q[2] \in KeysWith(q[1], "delivered")
  BY <1>2, <1>4 DEF DeliveredOf, Sent, MarketTypeOK, KeysWith
<1>6. PICK r \in Reservations, k \in Keys : p = <<r, k>>
  BY <1>5
<1>7. PICK j \in Jobs : j = Item(p) /\ j.row = r /\ j.keys = {k}
  BY <1>6, ItemJob
<1>8. Continue(t, "g_return", j) /\ pc[t] = "idle" /\ k \in KeysWith(r, "delivered")
  BY <1>3, <1>5, <1>6, <1>7 DEF Start
<1>9. StepOf(t) /\ pc'[t] = "g_return" /\ job'[t] = j
  BY <1>4, <1>8 DEF Continue, StepOf, MarketInv, MarketplaceTypeOK, TypeOK
<1>10. \A q \in D : \A u \in Workers \ {t} : Row(u) # q[1] /\ \A i \in items[u] : i[1] # q[1]
  BY <1>1, <1>2, AloneAt
<1>11. CronReleases' /\ OneWorkerPerRow'
  <2>1. MayStart(r)
    BY <1>1, <1>2, <1>6
  <2> QED
    BY <1>7, <1>9, <2>1, BeginsAlone
<1>12. Owned'
  BY <1>4, <1>7, <1>8, TakesOwned DEF StockInv
<1>13. \A u \in Workers : items'[u] = IF u = t THEN D \ {p} ELSE items[u]
  BY <1>3, <1>4 DEF MarketTypeOK
<1>14. ItemsAwait'
  <2> SUFFICES ASSUME NEW u \in Workers, NEW q \in items'[u]
               PROVE  /\ pc'[u] \in {"g_return", "g_refund"}
                      /\ q[2] \in KeysWith(q[1], "delivered")'
                      /\ ~(q[1] = Row(u)' /\ q[2] \in job'[u].keys)
                      /\ \A v \in Workers \ {u} :
                           Row(v)' # q[1] /\ \A i \in items'[v] : i[1] # q[1]
    BY DEF ItemsAwait
  <2>1. CASE u = t
    <3>1. q \in D /\ q # p /\ q \in Reservations \X Keys
      BY <1>5, <1>13, <2>1
    <3>2. ~(q[1] = r /\ q[2] \in {k})
      BY <1>6, <3>1
    <3>3. \A v \in Workers \ {t} : job'[v] = job[v] /\ items'[v] = items[v]
      BY <1>9, <1>13, TasksAre DEF StepOf
    <3> QED
      BY <1>4, <1>5, <1>7, <1>9, <1>10, <2>1, <3>1, <3>2, <3>3 DEF Row, KeysWith
  <2>2. CASE u # t
    <3>1. /\ q \in items[u] /\ q[1] \in Reservations /\ u \in Tasks
          /\ pc'[u] = pc[u] /\ job'[u] = job[u]
      BY <1>4, <1>9, <1>13, <2>2, TasksAre DEF StepOf, MarketTypeOK
    <3>2. /\ pc[u] \in {"g_return", "g_refund"}
          /\ q[2] \in KeysWith(q[1], "delivered")
          /\ ~(q[1] = Row(u) /\ q[2] \in job[u].keys)
          /\ \A v \in Workers \ {u} : Row(v) # q[1] /\ \A i \in items[v] : i[1] # q[1]
      BY <3>1 DEF StockInv, ItemsAwait
    <3>3. \A i \in D : i[1] # q[1]
      BY <1>10, <2>2, <3>1
    <3>4. \A v \in Workers \ {u} : Row(v)' # q[1] /\ \A i \in items'[v] : i[1] # q[1]
      <4>1. r # q[1]
        BY <1>6, <3>3
      <4> QED
        BY <1>7, <1>9, <1>13, <3>2, <3>3, <4>1, TasksAre DEF StepOf, Row
    <3> QED
      BY <1>4, <3>1, <3>2, <3>4 DEF Row, KeysWith
  <2> QED
    BY <2>1, <2>2
<1> QED
  BY <1>11, <1>12, <1>14 DEF StockInv

\* All requests begin so.
LEMMA RequestStock ==
  ASSUME Serial, StockInv, MarketInv, NEW t \in Workers, Request(t)
  PROVE  StockInv'
<1>1. CASE GReturnInventory(t)
  BY <1>1, ReturnRequestStock
<1>2. SUFFICES ASSUME ~GReturnInventory(t)
                PROVE  StockInv'
  BY <1>1
<1>3. PICK r \in Reservations : KinguinRequest(t, r) \/ G2ARequest(t, r) \/ Deliver(t, r)
  BY <1>2 DEF Request
<1>4. "row" \in DOMAIN NoJob
  BY DEF NoJob
<1>5. ASSUME NEW l \in {"claim", "k_read", "ret_read", "release", "release_status", "g_order",
                        "reply", "g_expire", "replay"},
             NEW j, DOMAIN j = DOMAIN NoJob, Begin(t, r, l, j)
      PROVE  StockInv'
  BY <1>4, <1>5, BeginStock DEF Taking
<1>6. ASSUME NEW q, NEW s, NEW l \in {"claim", "g_expire"},
             Begin(t, r, l, [NoJob EXCEPT !.qty = q, !.target = s])
      PROVE  StockInv'
  <2>1. PICK j : j = [NoJob EXCEPT !.qty = q, !.target = s]
    OBVIOUS
  <2>2. DOMAIN j = DOMAIN NoJob /\ Begin(t, r, l, j)
    BY <1>6, <2>1
  <2> QED
    BY <1>5, <2>2
<1>7. CASE KinguinRequest(t, r)
  <2>1. CASE Buying(t, r) \/ Bought(t, r)
    <3>1. CASE Begin(t, r, "claim", [NoJob EXCEPT !.qty = Quantity[r], !.target = "failed"])
      BY <1>6, <3>1
    <3>2. CASE \/ Begin(t, r, "claim", [NoJob EXCEPT !.qty = Quantity[r]])
               \/ Begin(t, r, "k_read", [NoJob EXCEPT !.target = "failed"])
      BY <1>5, <3>2
    <3> QED
      BY <2>1, <3>1, <3>2 DEF Buying, Bought
  <2>2. CASE Cancelled(t, r)
    BY <1>5, <2>2 DEF Cancelled
  <2>3. CASE Returned(t, r) \/ Refunded(t, r)
    BY <1>5, <2>3 DEF Returned, Refunded
  <2> QED
    BY <1>7, <2>1, <2>2, <2>3 DEF KinguinRequest
<1>8. CASE G2ARequest(t, r)
  <2>1. CASE GReserve(t, r)
    BY <1>6, <2>1 DEF GReserve
  <2>2. CASE GRenew(t, r)
    <3>1. CASE Begin(t, r, "g_expire", [NoJob EXCEPT !.qty = Quantity[r], !.target = "expired"])
      BY <1>6, <3>1
    <3>2. CASE ~Begin(t, r, "g_expire", [NoJob EXCEPT !.qty = Quantity[r], !.target = "expired"])
      BY <1>5, <2>2, <3>2 DEF GRenew
    <3> QED
      BY <3>1, <3>2
  <2>3. CASE GOrder(t, r) \/ GCancel(t, r) \/ GGetInventory(t, r)
    BY <1>5, <2>3 DEF GOrder, GCancel, GGetInventory
  <2> QED
    BY <1>8, <2>1, <2>2, <2>3 DEF G2ARequest
<1>9. CASE Deliver(t, r)
  BY <1>5, <1>9 DEF Deliver
<1> QED
  BY <1>3, <1>7, <1>8, <1>9

\* An item and the next: nobody else is at the row of either.
LEMMA RefundItemStock ==
  ASSUME StockInv, MarketInv, NEW t \in Workers, RefundItem(t)
  PROVE  OneWorkerPerRow' /\ ItemsAwait'
<1>1. /\ pc[t] = "g_refund" /\ job[t] \in Jobs /\ t \in Tasks
      /\ pc \in [Tasks -> Labels] /\ job \in [Tasks -> Jobs]
      /\ prov \in [Reservations -> [Keys -> ProvisionStates]] /\ MarketTypeOK
  BY TasksAre, Mover DEF RefundItem, MarketInv, MarketplaceTypeOK, TypeOK, DbTypeOK
<1>2. PICK r \in Reservations, S \in SUBSET Keys : r = Row(t) /\ S = job[t].keys
  BY <1>1, TakerHasRow DEF Taking, Jobs
<1>3. \A q \in Reservations, k \in Keys :
        prov'[q][k] = IF q = r /\ k \in S THEN "refunded" ELSE prov[q][k]
  BY <1>1, <1>2 DEF RefundItem, SetProvisions
<1>4. \A u \in Workers \ {t} : Row(u) # r
  BY <1>2, NoRowIsNoRow DEF StockInv, OneWorkerPerRow
<1>5. \A u \in Workers : items[u] \subseteq Reservations \X Keys
  BY <1>1 DEF MarketTypeOK
<1>6. ASSUME NEW u \in Workers, NEW q \in items[u]
      PROVE  /\ pc[u] \in {"g_return", "g_refund"}
             /\ q \in Reservations \X Keys /\ q[2] \in KeysWith(q[1], "delivered")
             /\ ~(q[1] = Row(u) /\ q[2] \in job[u].keys)
             /\ \A v \in Workers \ {u} : Row(v) # q[1] /\ \A i \in items[v] : i[1] # q[1]
             /\ q[2] \in KeysWith(q[1], "delivered")'
  <2>1. /\ pc[u] \in {"g_return", "g_refund"}
        /\ q \in Reservations \X Keys /\ q[2] \in KeysWith(q[1], "delivered")
        /\ ~(q[1] = Row(u) /\ q[2] \in job[u].keys)
        /\ \A v \in Workers \ {u} : Row(v) # q[1] /\ \A i \in items[v] : i[1] # q[1]
    BY <1>5 DEF StockInv, ItemsAwait
  <2>2. ~(q[1] = r /\ q[2] \in S)
    BY <1>2, <2>1
  <2> QED
    BY <1>3, <2>1, <2>2 DEF KeysWith
<1>7. CASE Goto(t, "idle") /\ UNCHANGED items
  <2>1. items[t] = {}
    BY <1>1, <1>7 DEF RefundItem, NextItem, Goto, Continue
  <2>2. StepOf(t) /\ job'[t].row = NoRow
    BY <1>1, <1>7 DEF Goto, Continue, StepOf, NoJob
  <2>3. \A u \in Workers : Row(u)' = IF u = t THEN NoRow ELSE Row(u)
    BY <2>2, TasksAre DEF StepOf, Row
  <2>4. OneWorkerPerRow'
    BY <2>3 DEF StockInv, OneWorkerPerRow
  <2>5. ItemsAwait'
    <3> SUFFICES ASSUME NEW u \in Workers, NEW q \in items[u]
                 PROVE  /\ pc'[u] \in {"g_return", "g_refund"}
                        /\ q[2] \in KeysWith(q[1], "delivered")'
                        /\ ~(q[1] = Row(u)' /\ q[2] \in job'[u].keys)
                        /\ \A v \in Workers \ {u} :
                             Row(v)' # q[1] /\ \A i \in items[v] : i[1] # q[1]
      BY <1>7 DEF ItemsAwait
    <3>1. u # t
      BY <2>1
    <3>2. pc'[u] = pc[u] /\ job'[u] = job[u]
      BY <2>2, <3>1, TasksAre DEF StepOf
    <3>3. \A v \in Workers \ {u} : Row(v)' # q[1]
      BY <1>6, <2>3, NoRowIsNoRow
    <3> QED
      BY <1>6, <3>2, <3>3 DEF Row
  <2> QED
    BY <2>4, <2>5
<1>8. CASE ~(Goto(t, "idle") /\ UNCHANGED items)
  <2>1. PICK p \in items[t] :
          Continue(t, "g_return", Item(p)) /\ items' = [items EXCEPT ![t] = @ \ {p}]
    BY <1>8 DEF RefundItem, NextItem
  <2>2. PICK q \in Reservations, k \in Keys : p = <<q, k>>
    BY <1>5
  <2>3. PICK j \in Jobs : j = Item(p) /\ j.row = q /\ j.keys = {k}
    BY <2>2, ItemJob
  <2>4. StepOf(t) /\ pc'[t] = "g_return" /\ job'[t] = j
    BY <1>1, <2>1, <2>3 DEF Continue, StepOf
  <2>5. \A u \in Workers : items'[u] = IF u = t THEN items[t] \ {p} ELSE items[u]
    BY <1>1, <2>1 DEF MarketTypeOK
  <2>6. \A u \in Workers \ {t} : Row(u) # q /\ \A i \in items[u] : i[1] # q
    BY <1>6, <2>2
  <2>7. \A u \in Workers : Row(u)' = IF u = t THEN q ELSE Row(u)
    BY <2>3, <2>4, TasksAre DEF StepOf, Row
  <2>8. OneWorkerPerRow'
    BY <2>6, <2>7 DEF StockInv, OneWorkerPerRow
  <2>9. ItemsAwait'
    <3> SUFFICES ASSUME NEW u \in Workers, NEW i \in items'[u]
                 PROVE  /\ pc'[u] \in {"g_return", "g_refund"}
                        /\ i[2] \in KeysWith(i[1], "delivered")'
                        /\ ~(i[1] = Row(u)' /\ i[2] \in job'[u].keys)
                        /\ \A v \in Workers \ {u} :
                             Row(v)' # i[1] /\ \A h \in items'[v] : h[1] # i[1]
      BY DEF ItemsAwait
    <3>1. i \in items[u] /\ (u = t => i # p)
      BY <2>5
    <3>2. \A v \in Workers \ {u} : \A h \in items'[v] : h[1] # i[1]
      BY <1>6, <2>5, <3>1
    <3>3. CASE u = t
      <4>1. ~(i[1] = q /\ i[2] \in {k})
        BY <1>6, <2>2, <3>1, <3>3
      <4>2. \A v \in Workers \ {u} : Row(v)' # i[1]
        BY <1>6, <2>7, <3>1, <3>3
      <4> QED
        BY <1>6, <2>3, <2>4, <2>7, <3>1, <3>2, <3>3, <4>1, <4>2
    <3>4. CASE u # t
      <4>1. pc'[u] = pc[u] /\ job'[u] = job[u] /\ i[1] # q
        BY <2>4, <2>6, <3>1, <3>4, TasksAre DEF StepOf
      <4>2. \A v \in Workers \ {u} : Row(v)' # i[1]
        BY <1>6, <2>7, <3>1, <4>1
      <4> QED
        BY <1>6, <3>1, <3>2, <4>1, <4>2 DEF Row
    <3> QED
      BY <3>3, <3>4
  <2> QED
    BY <2>8, <2>9
<1> QED
  BY <1>7, <1>8

\* Every step of a worker.
LEMMA WorkerStock ==
  ASSUME Serial, StockInv, MarketInv, NEW t \in Workers, WorkerStep(t)
  PROVE  StockInv'
<1>1. t \in Tasks /\ t # Cron /\ Owned'
  BY TasksAre, WorkerStepsOwned
<1>2. CASE RefundItem(t)
  <2>1. StepOf(t)
    <3>1. \E l, j : Continue(t, l, j)
      BY <1>2 DEF RefundItem, NextItem, Goto
    <3> QED
      BY <3>1 DEF Continue, StepOf, MarketInv, MarketplaceTypeOK, TypeOK
  <2>2. CronReleases'
    BY <1>1, <2>1, TasksAre DEF StockInv, CronReleases, StepOf
  <2> QED
    BY <1>1, <1>2, <2>2, RefundItemStock DEF StockInv
<1>3. CASE ~RefundItem(t)
  <2>1. StaysInRow(t) /\ StepOf(t)
    BY <1>1, <1>3, WorkersStay DEF StaysInRow
  <2>2. CronReleases' /\ OneWorkerPerRow'
    BY <1>1, <2>1, TasksAre DEF StockInv, CronReleases, OneWorkerPerRow, StaysInRow, StepOf, Row
  <2>3. ItemsAwait'
    <3>1. CASE ReturnKey(t)
      <4>1. /\ UNCHANGED <<items, prov>> /\ pc'[t] = "g_refund" /\ job'[t] = job[t]
        BY <1>1, <3>1 DEF ReturnKey, Goto, Continue, marketVars, rowVars, MarketInv,
                          MarketplaceTypeOK, TypeOK
      <4> QED
        BY <1>1, <2>1, <4>1, ItemsStay
    <3>2. CASE ~ReturnKey(t)
      <4>1. ~ReturnItem(t)
        BY <1>3, <3>2 DEF ReturnItem
      <4>2. items[t] = {} /\ UNCHANGED items /\ Apart(Row(t))
        BY <1>1, <4>1, LabelsApart, StepsApart, OthersBooks DEF StockInv, ItemsAwait
      <4> QED
        BY <1>1, <2>1, <4>2, ItemsStay
    <3> QED
      BY <3>1, <3>2
  <2> QED
    BY <1>1, <2>2, <2>3 DEF StockInv
<1> QED
  BY <1>2, <1>3

\* The sweep releases, and takes nothing back.
LEMMA SweepStock ==
  ASSUME StockInv, MarketInv, Within(Sweep)
  PROVE  StockInv'
<1>1. /\ pc[Cron] \notin Taking /\ Cron \in Tasks /\ UNCHANGED items
      /\ pc \in [Tasks -> Labels] /\ job \in [Tasks -> Jobs]
  BY TasksAre DEF StockInv, CronReleases, Within, marketVars, MarketInv, MarketplaceTypeOK, TypeOK
<1>2. CASE SweepStart({r \in Reservations : MayStart(r)}) \/ SweepNext
  <2>1. PICK l \in {"cron_next", "idle", "release"} : \E j : Continue(Cron, l, j)
    BY <1>2 DEF SweepStart, SweepNext, Start, Goto
  <2>2. UNCHANGED <<keyState, prov, orders>> /\ l \notin Taking /\ pc[Cron] \notin {"ret_flip", "g_refund"}
    BY <1>1, <1>2 DEF SweepStart, SweepNext, dbVars, keyVars, rowVars, Taking
  <2>3. Owned'
    BY <1>1, <2>1, <2>2, GoesOnCalmly DEF StockInv
  <2>4. StepOf(Cron) /\ pc'[Cron] = l
    BY <1>1, <2>1 DEF Continue, StepOf
  <2>5. CronReleases' /\ OneWorkerPerRow'
    BY <2>2, <2>4, TasksAre DEF StockInv, CronReleases, OneWorkerPerRow, StepOf, Row
  <2>6. ItemsAwait'
    BY <1>1, <2>2, <2>4, NoBooks, ItemsStay
  <2> QED
    BY <2>3, <2>5, <2>6 DEF StockInv
<1>3. CASE SweepRelease
  <2>1. Owned'
    BY <1>1, <1>3, ReleaseOwned, OtherStepsOwned DEF StockInv, SweepRelease
  <2>2. StepOf(Cron) /\ pc'[Cron] \in {"release_status", "cron_next"}
    BY <1>1, <1>3 DEF SweepRelease, Release, ReleaseStatus, Goto, Continue, StepOf
  <2>3. CronReleases' /\ OneWorkerPerRow'
    BY <2>2, TasksAre DEF StockInv, CronReleases, OneWorkerPerRow, StepOf, Row, Taking
  <2>4. ItemsAwait'
    BY <1>1, <1>3, <2>2, ReleaseSameBooks, ItemsStay DEF SweepRelease
  <2> QED
    BY <2>1, <2>3, <2>4 DEF StockInv
<1> QED
  BY <1>2, <1>3 DEF Sweep, Within

\* Stock is empty handed at first.
LEMMA InitStock ==
  ASSUME MarketplaceInit
  PROVE  StockInv
<1>1. \A t \in Tasks : pc[t] = "idle" /\ Row(t) = NoRow
  BY DEF MarketplaceInit, Init, Row, NoJob
<1>2. \A r \in Reservations, k \in Keys : prov[r][k] = "none"
  BY DEF MarketplaceInit, Init, DbInit
<1>3. ItemsAwait
  BY DEF MarketplaceInit, MarketInit, ItemsAwait
<1> QED
  BY <1>1, <1>2, <1>3, TasksAre DEF StockInv, CronReleases, OneWorkerPerRow, Owned, TakesOwnKeys,
     OneKeeper, KeptStates, Keeps, Taking

\* Every step keeps the stock in order.
LEMMA NextStock ==
  ASSUME Serial, MarketInv, StockInv, [MarketplaceNext]_marketplaceVars
  PROVE  StockInv'
<1>1. CASE UNCHANGED marketplaceVars
  <2>1. UNCHANGED <<keyState, prov, pc, job, items>>
    BY <1>1 DEF marketplaceVars, marketVars, vars
  <2>2. CronReleases' /\ OneWorkerPerRow' /\ ItemsAwait'
    BY <2>1 DEF StockInv, CronReleases, OneWorkerPerRow, Row, ItemsAwait, KeysWith
  <2>3. Owned'
    BY <2>1 DEF StockInv, Row, Owned, TakesOwnKeys, OneKeeper, KeptStates, Keeps, KeysWith,
                GivesUp, Returning, HandingBack
  <2> QED
    BY <2>2, <2>3 DEF StockInv
<1> QED
  BY <1>1, RequestStock, WorkerStock, SweepStock DEF MarketplaceNext

\* One keeper per key, and none for a key in stock, where one request at a time
\* works on a row.
THEOREM MarketStock == ASSUME Serial PROVE MarketplaceSpec => []StockInv
<1>1. MarketplaceInit => StockInv
  BY InitStock
<1>2. Serial /\ MarketInv /\ StockInv /\ [MarketplaceNext]_marketplaceVars => StockInv'
  BY NextStock
<1> QED
  BY <1>1, <1>2, MarketInvariant, PTL DEF MarketplaceSpec

\* What three marketplaces can claim, no buyer of theirs has.
THEOREM MarketStockIsFree == ASSUME Serial PROVE MarketplaceSpec => []SharedStockIsFree
<1>1. StockInv => SharedStockIsFree
  BY FreeIsUnkept DEF StockInv, Free, Keeps, GivesUp, SharedStockIsFree, Holds
<1> QED
  BY <1>1, MarketStock, PTL

-------------------------------------------------------------------------------
(* Books of Kinguin.  Where no procedure call and no read fails, a return    *)
(* takes back all a row has and refunds all of it.  One that can restock     *)
(* nothing refunds keys that stay delivered.  Rows that a return of G2A's    *)
(* took a key from are not counted.                                          *)

Reliable == Serial /\ "rpc" \notin Faults /\ "read" \notin Faults

Counted(r) == Market(r, "kinguin") /\ r \notin strayed

\* the task works on a row whose books are counted, and strays none
Counts(t) == Row(t) \in Reservations /\ Counted(Row(t)) /\ UNCHANGED strayed

\* the sale of the row is on record
Booked(r) ==
  /\ orders[r].total = Cardinality(Final(r))
  /\ orders[r].credit = orders[r].total
  /\ orders[r].status = "none" <=> orders[r].total = 0

\* Kinguin's refunds are of the whole sale
Sold(r) ==
  /\ Booked(r)
  /\ orders[r].refunded = IF orders[r].status = "refunded" THEN orders[r].total ELSE 0

\* each refund is a key taken back
Even(r) == Sold(r) /\ orders[r].refunded = Cardinality(KeysWith(r, "refunded"))

TakenBack(r) == Sold(r) /\ KeysWith(r, "delivered") = {}

\* the refund is written, the status is not
Repaid(r) ==
  /\ Booked(r)
  /\ Final(r) = KeysWith(r, "refunded")
  /\ orders[r].refunded = orders[r].total

\* keys are final whose sale is not on record
Unsettled(r) == Final(r) # {} /\ KeysWith(r, "refunded") = {} /\ orders[r].refunded = 0

\* labels at which the books of a row are even and no local matters
Plain == {"idle", "claim", "jit", "claim_retry", "k_read", "k_upload", "k_finalize",
          "release", "release_status", "sale_link", "ret_final", "g_return", "g_refund"}

\* What is written of a sale or a return at label l with locals j.
BookStage(l, j) ==
  /\ l \in Plain \union {"ret_read", "ret_restock"} => Even(j.row)
  /\ l \in {"sale_check", "sale_insert"} =>
       /\ Unsettled(j.row) /\ j.keys = Final(j.row)
       /\ orders[j.row].status = "none" /\ orders[j.row].credit = 0
  /\ l = "sale_credit" =>
       /\ Unsettled(j.row) /\ j.keys = Final(j.row)
       /\ orders[j.row].status = "fulfilled" /\ orders[j.row].credit = 0
       /\ orders[j.row].total = Cardinality(j.keys)
  /\ l \in {"ret_read", "ret_restock", "ret_flip", "ret_totals", "ledger_read", "ledger_insert"} =>
       j.event = 0
  /\ l = "ret_read" => j.qty = 0
  /\ l \in {"ret_restock", "ret_flip"} => j.keys = KeysWith(j.row, "delivered")
  /\ l = "ret_flip" => Sold(j.row)
  /\ l = "ret_totals" => j.keys = {}
  /\ l \in {"ret_totals", "ledger_read", "ledger_insert"} => TakenBack(j.row)
  /\ l = "ledger_status" => Repaid(j.row)
  /\ l \in {"ledger_read", "ledger_insert", "ledger_status"} => j.num >= j.den
  /\ l \in {"ledger_insert", "ledger_status"} => orders[j.row].status # "none"
  /\ l = "ledger_insert" => orders[j.row].refunded + j.delta = orders[j.row].total

BooksStaged ==
  \A r \in Reservations : Counted(r) =>
    /\ (\A t \in Workers : Row(t) # r) => Even(r)
    /\ \A t \in Workers : Row(t) = r => BookStage(pc[t], job[t])

\* The keys of a row are counted once.
LEMMA FinalCount ==
  ASSUME NEW r \in Reservations
  PROVE  /\ Cardinality(Final(r)) \in Nat /\ Cardinality(KeysWith(r, "refunded")) \in Nat
         /\ Cardinality(KeysWith(r, "delivered")) \in Nat
         /\ Cardinality(Final(r)) = 0 <=> Final(r) = {}
         /\ Cardinality(KeysWith(r, "refunded")) <= Cardinality(Final(r))
<1>1. /\ Final(r) \in SUBSET Keys /\ KeysWith(r, "refunded") \in SUBSET Keys
      /\ KeysWith(r, "delivered") \in SUBSET Keys /\ KeysWith(r, "refunded") \subseteq Final(r)
  BY DEF Final, KeysWith
<1>2. IsFiniteSet(Final(r))
  BY <1>1, KeysCount
<1> QED
  BY <1>1, <1>2, KeysCount, FS_Subset, FS_EmptySet

\* Books that do not change are where they were.
LEMMA StagesStay ==
  ASSUME NEW r, SameBooks(r)
  PROVE  /\ Even(r) => Even(r)'
         /\ \A l, j : j.row = r /\ BookStage(l, j) => BookStage(l, j)'
<1>1. Final(r)' = Final(r)
  BY DEF SameBooks, Final
<1>2. /\ Sold(r)' = Sold(r) /\ Even(r)' = Even(r) /\ TakenBack(r)' = TakenBack(r)
      /\ Unsettled(r)' = Unsettled(r) /\ Repaid(r)' = Repaid(r)
  BY <1>1 DEF SameBooks, Booked, Sold, Even, TakenBack, Repaid, Unsettled
<1>3. ASSUME NEW l, NEW j, j.row = r, BookStage(l, j)
      PROVE  BookStage(l, j)'
  BY <1>1, <1>2, <1>3 DEF SameBooks, BookStage
<1> QED
  BY <1>2, <1>3

\* The task moves on, or to, a row that nobody else has, and writes in the
\* books of no other.
LEMMA BooksTaken ==
  ASSUME MarketInv, BooksStaged, NEW t \in Workers, strayed \subseteq strayed',
         NEW r \in Reservations, \A u \in Workers : u # t => Row(u) # r,
         \A q \in Reservations : q # r /\ Counted(q)' => SameBooks(q),
         \A q \in Reservations : q # r /\ Counted(q)' /\ Row(t) = q => Even(q),
         NEW l, NEW j, Continue(t, l, j), j.row = r, BookStage(l, j)'
  PROVE  BooksStaged'
<1>1. /\ \A u \in Tasks : u # t => pc'[u] = pc[u] /\ job'[u] = job[u]
      /\ pc'[t] = l /\ job'[t] = IF l = "idle" THEN NoJob ELSE j
  BY TasksAre DEF Continue, MarketInv, MarketplaceTypeOK, TypeOK
<1>2. NoJob.row = NoRow /\ NoRow \notin Reservations
  BY NoRowIsNoRow DEF NoJob
<1>3. \A u \in Workers : u # t => Row(u) # r
  OBVIOUS
<1>4. ASSUME NEW q \in Reservations, q # r, Counted(q)'
      PROVE  /\ (\A u \in Workers : Row(u)' # q) => Even(q)'
             /\ \A u \in Workers : Row(u)' = q => BookStage(pc[u], job[u])'
  <2>1. (\A u \in Workers : Row(u) # q) => Even(q)
    BY <1>4 DEF BooksStaged, Counted
  <2>2. \A u \in Workers : Row(u) = q => BookStage(pc[u], job[u])
    BY <1>4 DEF BooksStaged, Counted
  <2>3. \A u \in Workers : Row(u)' = q <=> u # t /\ Row(u) = q
    BY <1>1, <1>2, <1>4, TasksAre DEF Row
  <2>4. SameBooks(q)
    BY <1>4
  <2>5. (\A u \in Workers : Row(u)' # q) => Even(q)'
    <3>1. (\A u \in Workers : Row(u)' # q) => Even(q)
      BY <1>4, <2>1, <2>3
    <3> QED
      BY <2>4, <3>1, StagesStay
  <2>6. ASSUME NEW u \in Workers, Row(u)' = q
        PROVE  BookStage(pc[u], job[u])'
    <3>1. PICK m, i : m = pc[u] /\ i = job[u]
      OBVIOUS
    <3>2. pc'[u] = m /\ job'[u] = i /\ i.row = q /\ BookStage(m, i)
      BY <1>1, <2>2, <2>3, <2>6, <3>1, TasksAre DEF Row
    <3>3. BookStage(m, i)'
      BY <2>4, <3>2, StagesStay
    <3> QED
      BY <3>2, <3>3
  <2> QED
    BY <2>5, <2>6
<1>5. (\A u \in Workers : Row(u)' # r) => Even(r)'
  <2>1. CASE l = "idle"
    BY <2>1 DEF BookStage, Plain
  <2>2. CASE l # "idle"
    BY <1>1, <2>2 DEF Row
  <2> QED
    BY <2>1, <2>2
<1>6. ASSUME NEW u \in Workers, Row(u)' = r
      PROVE  BookStage(pc[u], job[u])'
  <2>1. u = t /\ l # "idle"
    BY <1>1, <1>2, <1>3, <1>6, TasksAre DEF Row
  <2>2. pc'[u] = l /\ job'[u] = j
    BY <1>1, <2>1
  <2> QED
    BY <2>2
<1>7. ASSUME NEW q \in Reservations, Counted(q)'
      PROVE  /\ (\A u \in Workers : Row(u)' # q) => Even(q)'
             /\ \A u \in Workers : Row(u)' = q => BookStage(pc[u], job[u])'
  BY <1>4, <1>5, <1>6, <1>7
<1> QED
  BY <1>7 DEF BooksStaged

\* The task moves, and writes in the books of its own row only.
LEMMA BooksMove ==
  ASSUME MarketInv, StockInv, BooksStaged, NEW t \in Workers,
         UNCHANGED strayed, NEW r \in Reservations, r = Row(t),
         \A q \in Reservations : q # r => SameBooks(q),
         NEW l, NEW j, Continue(t, l, j), j.row = r, BookStage(l, j)'
  PROVE  BooksStaged'
<1>1. \A u \in Workers : u # t => Row(u) # r
  BY NoRowIsNoRow DEF StockInv, OneWorkerPerRow
<1> QED
  BY <1>1, BooksTaken

\* The row a step is about, and what the invariant says of its books.
LEMMA BookKeeper ==
  ASSUME MarketInv, BooksStaged, NEW t \in Workers, Counts(t)
  PROVE  /\ Row(t) \in Reservations /\ BookStage(pc[t], job[t]) /\ job[t] \in Jobs
         /\ t \in Tasks /\ UNCHANGED strayed
  BY TasksAre, Mover DEF Counts, BooksStaged

\* Between labels at which books are even.
LEMMA PlainMove ==
  ASSUME MarketInv, StockInv, BooksStaged, NEW t \in Workers, Counts(t),
         pc[t] \in Plain, \A q \in Reservations : SameBooks(q),
         NEW l \in Plain, NEW j, Continue(t, l, j), j.row = job[t].row
  PROVE  BooksStaged'
<1>1. PICK r \in Reservations : r = Row(t)
  BY BookKeeper
<1>2. Even(r)
  BY <1>1, BookKeeper DEF BookStage, Row
<1>3. Even(r)'
  BY <1>2, StagesStay
<1>4. j.row = r
  BY <1>1 DEF Row
<1>5. BookStage(l, j)'
  BY <1>3, <1>4 DEF BookStage, Plain
<1> QED
  BY <1>1, <1>4, <1>5, BookKeeper, BooksMove

\* A claim.
LEMMA ClaimBooks ==
  ASSUME MarketInv, StockInv, BooksStaged, NEW t \in Workers, Counts(t), KClaim(t)
  PROVE  BooksStaged'
<1>1. PICK ok \in {"k_read", "idle"} :
        ClaimKeys(t, ok, "idle") \/ JitPurchase(t, "idle") \/ ClaimRetry(t, ok, "idle")
  BY DEF KClaim
<1>2. pc[t] \in {"claim", "jit", "claim_retry"} /\ t \in Tasks /\ job[t] \in Jobs
  BY <1>1, BookKeeper DEF ClaimKeys, JitPurchase, ClaimRetry
<1>3. \A q \in Reservations : SameBooks(q)
  <2>1. CASE \E pool : ClaimFrom(t, pool, ok) /\ pc[t] \in {"claim", "claim_retry"}
    BY <1>2, <2>1, ClaimSameBooks
  <2>2. CASE UNCHANGED <<prov, orders>>
    BY <2>2, NoBooks
  <2> QED
    BY <1>1, <2>1, <2>2 DEF ClaimKeys, JitPurchase, ClaimRetry, dbVars, rowVars
<1>4. ASSUME NEW l \in Plain, Goto(t, l)
      PROVE  BooksStaged'
  BY <1>2, <1>3, <1>4, PlainMove DEF Goto, Plain
<1>5. ASSUME Continue(t, "claim", [job[t] EXCEPT !.pool = @ + 1])
      PROVE  BooksStaged'
  <2>1. PICK j : j = [job[t] EXCEPT !.pool = @ + 1]
    OBVIOUS
  <2>2. j.row = job[t].row
    BY <1>2, <2>1 DEF Jobs
  <2> QED
    BY <1>2, <1>3, <1>5, <2>1, <2>2, PlainMove DEF Plain
<1> QED
  BY <1>1, <1>4, <1>5 DEF ClaimKeys, JitPurchase, ClaimRetry, ClaimFrom, Plain

\* The way from the pending provisions to the upload.
LEMMA UploadBooks ==
  ASSUME MarketInv, StockInv, BooksStaged, NEW t \in Workers, Counts(t),
         DecryptPending(t) \/ UploadKeys(t)
  PROVE  BooksStaged'
<1>1. /\ pc[t] \in {"k_read", "k_upload"} /\ job[t] \in Jobs
      /\ \A q \in Reservations : SameBooks(q)
  BY NoBooks, BookKeeper DEF DecryptPending, UploadKeys, dbVars, rowVars
<1>2. ASSUME NEW l \in Plain, NEW j, j.row = job[t].row, Continue(t, l, j)
      PROVE  BooksStaged'
  BY <1>1, <1>2, PlainMove DEF Plain
<1>3. CASE Continue(t, "k_upload", [job[t] EXCEPT !.keys = KeysWith(Row(t), "pending")])
  <2>1. PICK j : j = [job[t] EXCEPT !.keys = KeysWith(Row(t), "pending")]
    OBVIOUS
  <2>2. j.row = job[t].row
    BY <1>1, <2>1 DEF Jobs
  <2> QED
    BY <1>2, <1>3, <2>1, <2>2 DEF Plain
<1>4. CASE \E l \in {"release", "k_upload", "k_finalize"} : Goto(t, l)
  BY <1>2, <1>4 DEF Goto, Plain
<1> QED
  BY <1>3, <1>4 DEF DecryptPending, UploadKeys

\* A release.
LEMMA ReleaseBooks ==
  ASSUME MarketInv, StockInv, BooksStaged, NEW t \in Workers, Counts(t),
         Release(t, "idle") \/ ReleaseStatus(t, "idle")
  PROVE  BooksStaged'
<1>1. \A q \in Reservations : SameBooks(q)
  BY ReleaseSameBooks, BookKeeper
<1>2. PICK l \in {"idle", "release_status"} : Goto(t, l) /\ pc[t] \in Plain
  BY DEF Release, ReleaseStatus, Plain
<1> QED
  BY <1>1, <1>2, PlainMove DEF Goto, Plain

\* Keys are final once the upload is through, and none was before.
LEMMA FinalizeBooks ==
  ASSUME Reliable, MarketInv, StockInv, BooksStaged, NEW t \in Workers, Counts(t),
         FinalizeUploaded(t)
  PROVE  BooksStaged'
<1>1. PICK r \in Reservations, j \in Jobs : r = Row(t) /\ j = job[t] /\ j.row = r
  BY BookKeeper DEF Row
<1>2. /\ pc[t] = "k_finalize" /\ Even(r) /\ MarketRelies("k_finalize", j) /\ t \in Tasks
      /\ prov \in [Reservations -> [Keys -> ProvisionStates]]
  BY <1>1, BookKeeper, Mover DEF FinalizeUploaded, BookStage, Plain, DbTypeOK
<1>3. CASE Goto(t, "idle") /\ UNCHANGED dbVars
  BY <1>1, <1>2, <1>3, NoBooks, PlainMove DEF Goto, Plain, dbVars, rowVars
<1>4. CASE /\ CanFinalize(r, j.keys) /\ FinalizeProvisions(r, j.keys)
           /\ Continue(t, "sale_check", j)
  <2>1. j.keys # {} /\ j.keys = KeysWith(r, "pending")
    BY <1>1, <1>2, <1>4 DEF CanFinalize, MarketRelies, KeysWith, Jobs
  <2>2. Final(r) = {}
    BY <2>1 DEF MarketInv, Handed, Quiet
  <2>3. /\ orders[r].status = "none" /\ orders[r].credit = 0 /\ orders[r].refunded = 0
    BY <1>2, <2>2, FS_EmptySet DEF Even, Booked, Sold, Final
  <2>4. \A q \in Reservations, k \in Keys :
          prov'[q][k] = IF q = r /\ k \in j.keys THEN "delivered" ELSE prov[q][k]
    BY <1>2, <1>4 DEF FinalizeProvisions, SetProvisions
  <2>5. Final(r)' = j.keys /\ KeysWith(r, "refunded")' = {}
    BY <1>1, <2>2, <2>4 DEF Final, KeysWith, Jobs
  <2>6. BookStage("sale_check", j)'
    BY <1>1, <1>4, <2>1, <2>3, <2>5 DEF BookStage, Unsettled, Plain, FinalizeProvisions
  <2>7. \A q \in Reservations : q # r => SameBooks(q)
    BY <1>4, <2>4 DEF FinalizeProvisions, SameBooks, KeysWith
  <2> QED
    BY <1>1, <1>4, <2>6, <2>7, BookKeeper, BooksMove
<1> QED
  BY <1>1, <1>3, <1>4 DEF FinalizeUploaded, Goto, CanFail, Reliable

\* An order that is written is the order of one row.
LEMMA OneOrder ==
  ASSUME MarketInv, NEW r \in Reservations, NEW order, SetOrder(r, order)
  PROVE  /\ orders'[r] = order /\ KeysWith(r, "delivered")' = KeysWith(r, "delivered")
         /\ KeysWith(r, "refunded")' = KeysWith(r, "refunded") /\ Final(r)' = Final(r)
         /\ \A q \in Reservations : q # r => SameBooks(q)
<1>1. orders \in [Reservations -> OrderRows]
  BY DEF MarketInv, MarketplaceTypeOK, TypeOK, DbTypeOK
<1>2. UNCHANGED prov /\ orders' = [orders EXCEPT ![r] = order]
  BY DEF SetOrder, rowVars
<1> QED
  BY <1>1, <1>2 DEF SameBooks, KeysWith, Final

\* The sale is on record before it is credited, and credited before it is linked.
LEMMA SaleBooks ==
  ASSUME Reliable, MarketInv, StockInv, BooksStaged, NEW t \in Workers, Counts(t),
         \/ SaleCheck(t, "idle") \/ SaleInsert(t, "idle") \/ SaleCredit(t) \/ SaleLink(t, "idle")
  PROVE  BooksStaged'
<1>1. PICK r \in Reservations, j \in Jobs : r = Row(t) /\ j = job[t] /\ j.row = r
  BY BookKeeper DEF Row
<1>2. BookStage(pc[t], j) /\ ~CanFail("write") /\ orders[r] \in OrderRows
  BY <1>1, BookKeeper, Mover DEF CanFail, Reliable, Serial, DbTypeOK
<1>3. Cardinality(Final(r)) \in Nat /\ (Final(r) # {} => Cardinality(Final(r)) # 0)
  BY FinalCount
<1>4. CASE SaleCheck(t, "idle")
  <2>1. Unsettled(r) /\ j.keys = Final(r) /\ orders[r].status = "none" /\ orders[r].credit = 0
    BY <1>1, <1>2, <1>4 DEF SaleCheck, BookStage
  <2>2. Continue(t, "sale_insert", j) /\ UNCHANGED <<prov, orders>>
    BY <1>1, <1>4, <2>1 DEF SaleCheck, Goto, dbVars, rowVars
  <2>3. Unsettled(r)' /\ Final(r)' = Final(r)
    BY <2>1, <2>2 DEF Unsettled, Final, KeysWith
  <2>4. BookStage("sale_insert", j)'
    BY <1>1, <2>1, <2>2, <2>3 DEF BookStage, Plain
  <2> QED
    BY <1>1, <2>2, <2>4, NoBooks, BookKeeper, BooksMove
<1>5. CASE SaleInsert(t, "idle")
  <2>1. Unsettled(r) /\ j.keys = Final(r) /\ orders[r].credit = 0
    BY <1>1, <1>2, <1>5 DEF SaleInsert, BookStage
  <2>2. PICK order : order = [orders[r] EXCEPT !.status = "fulfilled",
                                !.total = Cardinality(j.keys), !.rows = @ + 1]
    OBVIOUS
  <2>3. /\ order.status = "fulfilled" /\ order.total = Cardinality(j.keys)
        /\ order.credit = orders[r].credit /\ order.refunded = orders[r].refunded
    BY <1>2, <2>2 DEF OrderRows
  <2>4. SetOrder(r, order) /\ Continue(t, "sale_credit", j)
    BY <1>1, <1>2, <1>5, <2>2 DEF SaleInsert, Goto
  <2>5. /\ orders'[r] = order /\ KeysWith(r, "refunded")' = KeysWith(r, "refunded")
        /\ Final(r)' = Final(r) /\ \A q \in Reservations : q # r => SameBooks(q)
    BY <2>4, OneOrder
  <2>6. BookStage("sale_credit", j)'
    BY <1>1, <2>1, <2>3, <2>5 DEF BookStage, Plain, Unsettled
  <2> QED
    BY <1>1, <2>4, <2>5, <2>6, BookKeeper, BooksMove
<1>6. CASE SaleCredit(t)
  <2>1. /\ Unsettled(r) /\ j.keys = Final(r) /\ orders[r].credit = 0
        /\ orders[r].status = "fulfilled" /\ orders[r].total = Cardinality(j.keys)
    BY <1>1, <1>2, <1>6 DEF SaleCredit, BookStage
  <2>2. PICK order : order = [orders[r] EXCEPT !.credit = @ + Cardinality(j.keys)]
    OBVIOUS
  <2>3. /\ order.status = "fulfilled" /\ order.total = Cardinality(j.keys)
        /\ order.credit = Cardinality(j.keys) /\ order.refunded = orders[r].refunded
    BY <1>2, <1>3, <2>1, <2>2 DEF OrderRows
  <2>4. SetOrder(r, order) /\ Continue(t, "sale_link", j)
    BY <1>1, <1>2, <1>6, <2>2 DEF SaleCredit, Goto
  <2>5. /\ orders'[r] = order /\ KeysWith(r, "refunded")' = KeysWith(r, "refunded")
        /\ Final(r)' = Final(r) /\ \A q \in Reservations : q # r => SameBooks(q)
    BY <2>4, OneOrder
  <2>6. Even(r)'
    BY <1>3, <2>1, <2>3, <2>5, FS_EmptySet DEF Even, Booked, Sold, Unsettled
  <2>7. BookStage("sale_link", j)'
    BY <1>1, <2>6 DEF BookStage, Plain
  <2> QED
    BY <1>1, <2>4, <2>5, <2>7, BookKeeper, BooksMove
<1>7. CASE SaleLink(t, "idle")
  BY <1>7, NoBooks, PlainMove DEF SaleLink, Goto, Plain, rowVars
<1> QED
  BY <1>4, <1>5, <1>6, <1>7

\* A return of Kinguin's has no cap: it reads all delivered keys.
LEMMA ReturnReadBooks ==
  ASSUME MarketInv, StockInv, BooksStaged, NEW t \in Workers, Counts(t), ReturnRead(t)
  PROVE  BooksStaged'
<1>1. PICK r \in Reservations, j \in Jobs : r = Row(t) /\ j = job[t] /\ j.row = r
  BY BookKeeper DEF Row
<1>2. Even(r) /\ j.qty = 0 /\ j.event = 0
  BY <1>1, BookKeeper DEF ReturnRead, BookStage
<1>3. PICK S \in SUBSET KeysWith(r, "delivered") :
        /\ Cardinality(S) = Cardinality(KeysWith(r, "delivered"))
        /\ Continue(t, IF S = {} THEN "ret_totals" ELSE "ret_restock", [j EXCEPT !.keys = S])
  BY <1>1, <1>2 DEF ReturnRead
<1>4. S = KeysWith(r, "delivered")
  <2>1. KeysWith(r, "delivered") \in SUBSET Keys
    BY DEF KeysWith
  <2> QED
    BY <1>3, <2>1, KeysCount, FS_Subset
<1>5. PICK i : i = [j EXCEPT !.keys = S]
  OBVIOUS
<1>6. i.row = r /\ i.keys = S /\ i.event = 0
  BY <1>1, <1>2, <1>5 DEF Jobs
<1>7. UNCHANGED <<prov, orders>>
  BY DEF ReturnRead, dbVars, rowVars
<1>8. SameBooks(r) /\ Even(r)' /\ Sold(r)'
  BY <1>2, <1>7, NoBooks, StagesStay DEF Even
<1>9. CASE S = {}
  <2>1. BookStage("ret_totals", i)'
    BY <1>4, <1>6, <1>8, <1>9 DEF BookStage, Plain, TakenBack, SameBooks
  <2> QED
    BY <1>1, <1>3, <1>5, <1>6, <1>7, <1>9, <2>1, NoBooks, BookKeeper, BooksMove
<1>10. CASE S # {}
  <2>1. BookStage("ret_restock", i)'
    BY <1>4, <1>6, <1>8 DEF BookStage, Plain, SameBooks
  <2> QED
    BY <1>1, <1>3, <1>5, <1>6, <1>7, <1>10, <2>1, NoBooks, BookKeeper, BooksMove
<1> QED
  BY <1>9, <1>10

\* A row keeps what it was delivered, so all of it can be restocked.
LEMMA AllRestockable ==
  ASSUME MarketInv, StockInv, NEW t \in Tasks, pc[t] = "ret_restock"
  PROVE  Restockable(job[t].keys) = job[t].keys
<1>1. PICK r \in Reservations : r = Row(t)
  BY TakerHasRow DEF Taking
<1>2. ASSUME NEW k \in job[t].keys
      PROVE  keyState[k] = "seller_provisioned"
  <2>1. k \in Keys /\ prov[r][k] = "delivered"
    BY <1>1, <1>2 DEF StockInv, Owned, TakesOwnKeys, Taking, KeysWith
  <2>2. \A u \in Tasks : pc[u] \in Taking /\ Row(u) = r => u = t
    BY <1>1, OneTaker DEF StockInv, Taking
  <2>3. ~GivesUp(r, k)
    BY <2>2 DEF GivesUp, Returning, HandingBack, Taking
  <2> QED
    BY <2>1, <2>3 DEF StockInv, Owned, KeptStates, Keeps
<1> QED
  BY <1>2 DEF Restockable, RestockableStates

\* All keys read are put back in stock.
LEMMA ReturnRestockBooks ==
  ASSUME Reliable, MarketInv, StockInv, BooksStaged, NEW t \in Workers, Counts(t),
         ReturnRestock(t)
  PROVE  BooksStaged'
<1>1. PICK r \in Reservations, j \in Jobs : r = Row(t) /\ j = job[t] /\ j.row = r
  BY BookKeeper DEF Row
<1>2. Even(r) /\ j.event = 0 /\ j.keys = KeysWith(r, "delivered")
  BY <1>1, BookKeeper DEF ReturnRestock, BookStage
<1>3. PICK S : /\ S = j.keys /\ RestockKeys(S)
               /\ Continue(t, IF S = {} THEN "ret_totals" ELSE "ret_flip",
                           [j EXCEPT !.count = Cardinality(S)])
  BY <1>1, AllRestockable, BookKeeper DEF ReturnRestock, CanFail, Reliable
<1>4. PICK i : i = [j EXCEPT !.count = Cardinality(S)]
  OBVIOUS
<1>5. i.row = r /\ i.keys = S /\ i.event = 0
  BY <1>1, <1>2, <1>3, <1>4 DEF Jobs
<1>6. UNCHANGED <<prov, orders>>
  BY <1>3 DEF RestockKeys
<1>7. SameBooks(r) /\ Sold(r)'
  BY <1>2, <1>6, NoBooks, StagesStay DEF Even
<1>8. CASE S = {}
  <2>1. BookStage("ret_totals", i)'
    BY <1>2, <1>3, <1>5, <1>7, <1>8 DEF BookStage, Plain, TakenBack, SameBooks
  <2> QED
    BY <1>1, <1>3, <1>4, <1>5, <1>6, <1>8, <2>1, NoBooks, BookKeeper, BooksMove
<1>9. CASE S # {}
  <2>1. BookStage("ret_flip", i)'
    BY <1>2, <1>3, <1>5, <1>7 DEF BookStage, Plain, SameBooks
  <2> QED
    BY <1>1, <1>3, <1>4, <1>5, <1>6, <1>9, <2>1, NoBooks, BookKeeper, BooksMove
<1> QED
  BY <1>8, <1>9

\* A provision that is flipped was delivered and is final still.
LEMMA ReturnFlipBooks ==
  ASSUME Reliable, MarketInv, StockInv, BooksStaged, NEW t \in Workers, Counts(t),
         ReturnFlip(t)
  PROVE  BooksStaged'
<1>1. PICK r \in Reservations, j \in Jobs : r = Row(t) /\ j = job[t] /\ j.row = r
  BY BookKeeper DEF Row
<1>2. Sold(r) /\ j.event = 0 /\ j.keys = KeysWith(r, "delivered")
  BY <1>1, BookKeeper DEF ReturnFlip, BookStage
<1>3. PICK k \in j.keys :
        /\ SetProvisions(r, {k} \intersect KeysWith(r, "delivered"), "refunded")
        /\ Continue(t, IF j.keys = {k} THEN "ret_totals" ELSE "ret_flip",
                    [j EXCEPT !.keys = @ \ {k}])
  BY <1>1 DEF ReturnFlip, CanFail, Reliable, Serial
<1>4. UNCHANGED orders /\ prov \in [Reservations -> [Keys -> ProvisionStates]]
  BY BookKeeper, Mover DEF ReturnFlip, DbTypeOK
<1>5. k \in Keys /\ prov[r][k] = "delivered"
  BY <1>2, <1>3 DEF KeysWith
<1>6. \A q \in Reservations, i \in Keys :
        prov'[q][i] = IF q = r /\ i = k THEN "refunded" ELSE prov[q][i]
  BY <1>3, <1>4, <1>5 DEF SetProvisions, KeysWith
<1>7. /\ KeysWith(r, "delivered")' = j.keys \ {k} /\ Final(r)' = Final(r)
      /\ \A q \in Reservations : q # r => SameBooks(q)
  BY <1>2, <1>4, <1>5, <1>6 DEF SameBooks, KeysWith, Final
<1>8. Sold(r)'
  BY <1>2, <1>4, <1>7 DEF Booked, Sold
<1>9. PICK i : i = [j EXCEPT !.keys = @ \ {k}]
  OBVIOUS
<1>10. i.row = r /\ i.keys = j.keys \ {k} /\ i.event = 0
  BY <1>1, <1>2, <1>9 DEF Jobs
<1>11. CASE j.keys = {k}
  <2>1. BookStage("ret_totals", i)'
    BY <1>7, <1>8, <1>10, <1>11 DEF BookStage, Plain, TakenBack
  <2> QED
    BY <1>1, <1>3, <1>7, <1>9, <1>10, <1>11, <2>1, BookKeeper, BooksMove
<1>12. CASE j.keys # {k}
  <2>1. BookStage("ret_flip", i)'
    BY <1>7, <1>8, <1>10 DEF BookStage, Plain
  <2> QED
    BY <1>1, <1>3, <1>7, <1>9, <1>10, <1>12, <2>1, BookKeeper, BooksMove
<1> QED
  BY <1>11, <1>12

\* All keys given were taken back: the refund is a full one.
LEMMA ReturnTotalsBooks ==
  ASSUME MarketInv, StockInv, BooksStaged, NEW t \in Workers, Counts(t),
         ReturnTotals(t)
  PROVE  BooksStaged'
<1>1. PICK r \in Reservations, j \in Jobs : r = Row(t) /\ j = job[t] /\ j.row = r
  BY BookKeeper DEF Row
<1>2. TakenBack(r) /\ j.event = 0 /\ j.keys = {}
  BY <1>1, BookKeeper DEF ReturnTotals, BookStage
<1>3. PICK n, a : n = RefundedCount(r) /\ a = Cardinality(j.keys)
  OBVIOUS
<1>4. n \in Nat /\ a = 0 /\ ProvisionedCount(r) = n
  <2>1. Cardinality({}) = 0
    BY FS_EmptySet
  <2>2. n \in Nat
    BY <1>3, FinalCount DEF RefundedCount
  <2>3. ProvisionedCount(r) = n + 0
    BY <1>2, <1>3, <2>1 DEF TakenBack, ProvisionedCount
  <2> QED
    BY <1>2, <1>3, <2>1, <2>2, <2>3
<1>5. Continue(t, "ledger_read",
        [j EXCEPT !.num = MinOf(IF n = 0 /\ j.count = 0 THEN a ELSE n, ProvisionedCount(r)),
                  !.den = ProvisionedCount(r)])
  BY <1>1, <1>3 DEF ReturnTotals
<1>6. MinOf(IF n = 0 /\ j.count = 0 THEN a ELSE n, ProvisionedCount(r)) = n
  BY <1>4 DEF MinOf
<1>7. PICK i : i = [j EXCEPT !.num = n, !.den = n]
  OBVIOUS
<1>8. i.row = r /\ i.num >= i.den /\ i.event = 0
  BY <1>1, <1>2, <1>4, <1>7 DEF Jobs
<1>9. Continue(t, "ledger_read", i)
  BY <1>4, <1>5, <1>6, <1>7
<1>10. UNCHANGED <<prov, orders>>
  BY DEF ReturnTotals, dbVars, rowVars
<1>11. TakenBack(r)'
  BY <1>2, <1>10 DEF TakenBack, Booked, Sold, Final, KeysWith
<1>12. BookStage("ledger_read", i)'
  BY <1>8, <1>11 DEF BookStage, Plain
<1> QED
  BY <1>1, <1>8, <1>9, <1>10, <1>12, NoBooks, BookKeeper, BooksMove

\* What is refunded makes the books even.
LEMMA LedgerReadBooks ==
  ASSUME MarketInv, StockInv, BooksStaged, NEW t \in Workers, Counts(t),
         LedgerRead(t)
  PROVE  BooksStaged'
<1>1. PICK r \in Reservations, j \in Jobs : r = Row(t) /\ j = job[t] /\ j.row = r
  BY BookKeeper DEF Row
<1>2. TakenBack(r) /\ j.event = 0 /\ j.num >= j.den
  BY <1>1, BookKeeper DEF LedgerRead, BookStage
<1>3. PICK order \in OrderRows : order = orders[r]
  BY Mover, TasksAre DEF DbTypeOK
<1>4. /\ order.total = Cardinality(KeysWith(r, "refunded")) /\ order.total \in Nat
      /\ order.refunded = IF order.status = "refunded" THEN order.total ELSE 0
      /\ order.status = "none" <=> order.total = 0
  <2>1. Final(r) = KeysWith(r, "refunded")
    BY <1>2 DEF TakenBack, Final
  <2> QED
    BY <1>2, <1>3, <2>1 DEF TakenBack, Booked, Sold, OrderRows
<1>5. RefundTarget(t) = order.total
  BY <1>1, <1>2, <1>3 DEF RefundTarget, FullRefund
<1>6. PICK refunded \in {order.refunded, 0} :
        LET d == IF RefundTarget(t) > refunded THEN RefundTarget(t) - refunded ELSE 0
        IN Continue(t, IF order.status \in {"none", "refunded"} THEN "ret_final"
                       ELSE IF d = 0 THEN "ledger_status" ELSE "ledger_insert",
                    [j EXCEPT !.delta = d])
  BY <1>1, <1>3 DEF LedgerRead
<1>7. PICK delta : delta = IF order.total > refunded THEN order.total - refunded ELSE 0
  OBVIOUS
<1>8. PICK i : i = [j EXCEPT !.delta = delta]
  OBVIOUS
<1>9. i.row = r /\ i.event = 0 /\ i.num >= i.den /\ i.delta = delta
  BY <1>1, <1>2, <1>8 DEF Jobs
<1>10. Continue(t, IF order.status \in {"none", "refunded"} THEN "ret_final"
                   ELSE IF delta = 0 THEN "ledger_status" ELSE "ledger_insert", i)
  BY <1>5, <1>6, <1>7, <1>8
<1>11. UNCHANGED <<prov, orders>>
  BY DEF LedgerRead, dbVars, rowVars
<1>12. SameBooks(r) /\ TakenBack(r)'
  BY <1>2, <1>11, NoBooks DEF TakenBack, Booked, Sold, Final, KeysWith
<1>13. CASE order.status \in {"none", "refunded"}
  <2>1. order.refunded = order.total
    BY <1>4, <1>13
  <2>2. Even(r)'
    BY <1>3, <1>4, <1>12, <2>1 DEF Even, TakenBack, SameBooks
  <2>3. BookStage("ret_final", i)'
    BY <1>9, <2>2 DEF BookStage, Plain
  <2> QED
    BY <1>1, <1>9, <1>10, <1>11, <1>13, <2>3, NoBooks, BookKeeper, BooksMove
<1>14. CASE order.status \notin {"none", "refunded"}
  <2>1. refunded = 0 /\ order.refunded = 0 /\ order.total # 0
    BY <1>4, <1>6, <1>14
  <2>2. delta = order.total
    BY <1>4, <1>7, <2>1
  <2>3. orders[r].refunded + i.delta = orders[r].total /\ orders[r].status # "none"
    BY <1>3, <1>4, <1>9, <1>14, <2>1, <2>2
  <2>4. BookStage("ledger_insert", i)'
    BY <1>9, <1>12, <2>3 DEF BookStage, Plain, SameBooks
  <2> QED
    BY <1>1, <1>4, <1>9, <1>10, <1>11, <1>14, <2>1, <2>2, <2>4, NoBooks, BookKeeper, BooksMove
<1> QED
  BY <1>13, <1>14

\* The debit evens the books, and the status says so.
LEMMA LedgerWriteBooks ==
  ASSUME Reliable, MarketInv, StockInv, BooksStaged, NEW t \in Workers, Counts(t),
         LedgerInsert(t) \/ LedgerStatus(t)
  PROVE  BooksStaged'
<1>1. PICK r \in Reservations, j \in Jobs : r = Row(t) /\ j = job[t] /\ j.row = r
  BY BookKeeper DEF Row
<1>2. /\ BookStage(pc[t], j) /\ ~CanFail("write") /\ t \in Tasks
      /\ pc[t] \in {"ledger_insert", "ledger_status"}
  BY <1>1, BookKeeper DEF CanFail, Reliable, Serial, LedgerInsert, LedgerStatus
<1>3. /\ j.num >= j.den /\ orders[r].status # "none" /\ orders[r] \in OrderRows
  BY <1>1, <1>2, Mover DEF BookStage, DbTypeOK
<1>4. CASE LedgerInsert(t)
  <2>1. TakenBack(r) /\ orders[r].refunded + j.delta = orders[r].total /\ j.event = 0
    BY <1>1, <1>2, <1>4 DEF BookStage, LedgerInsert
  <2>2. PICK order : order = [orders[r] EXCEPT !.refunded = @ + j.delta, !.events = @]
    OBVIOUS
  <2>3. /\ order.refunded = order.total /\ order.total = orders[r].total
        /\ order.credit = orders[r].credit /\ order.status = orders[r].status
    BY <1>3, <2>1, <2>2 DEF OrderRows
  <2>4. SetOrder(r, order) /\ Continue(t, "ledger_status", j)
    BY <1>1, <1>2, <1>4, <2>1, <2>2 DEF LedgerInsert, Goto
  <2>5. /\ orders'[r] = order /\ KeysWith(r, "refunded")' = KeysWith(r, "refunded")
        /\ KeysWith(r, "delivered")' = KeysWith(r, "delivered")
        /\ Final(r)' = Final(r) /\ \A q \in Reservations : q # r => SameBooks(q)
    BY <2>4, OneOrder
  <2>6. Final(r) = KeysWith(r, "refunded")
    BY <2>1 DEF TakenBack, Final
  <2>7. Repaid(r)'
    BY <2>1, <2>3, <2>5, <2>6 DEF Repaid, Booked, Sold, TakenBack
  <2>8. BookStage("ledger_status", j)'
    BY <1>1, <1>3, <2>3, <2>5, <2>7 DEF BookStage, Plain
  <2> QED
    BY <1>1, <2>4, <2>5, <2>8, BookKeeper, BooksMove
<1>5. CASE LedgerStatus(t)
  <2>1. Repaid(r)
    BY <1>1, <1>2, <1>5 DEF BookStage, LedgerStatus
  <2>2. PICK order : order = [orders[r] EXCEPT !.status = "refunded"]
    OBVIOUS
  <2>3. /\ order.refunded = orders[r].refunded /\ order.total = orders[r].total
        /\ order.credit = orders[r].credit /\ order.status = "refunded"
    BY <1>3, <2>2 DEF OrderRows
  <2>4. SetOrder(r, order) /\ Continue(t, "ret_final", j)
    BY <1>1, <1>2, <1>3, <1>5, <2>2 DEF LedgerStatus, FullRefund, Goto
  <2>5. /\ orders'[r] = order /\ KeysWith(r, "refunded")' = KeysWith(r, "refunded")
        /\ Final(r)' = Final(r) /\ \A q \in Reservations : q # r => SameBooks(q)
    BY <2>4, OneOrder
  <2>6. Even(r)'
    BY <1>3, <2>1, <2>3, <2>5 DEF Even, Booked, Sold, Repaid
  <2>7. BookStage("ret_final", j)'
    BY <1>1, <2>6 DEF BookStage, Plain
  <2> QED
    BY <1>1, <2>4, <2>5, <2>7, BookKeeper, BooksMove
<1> QED
  BY <1>4, <1>5

\* Every step of a return.
LEMMA ReturnBooks ==
  ASSUME Reliable, MarketInv, StockInv, BooksStaged, NEW t \in Workers, Counts(t),
         ReturnSteps(t)
  PROVE  BooksStaged'
<1>1. CASE ReturnFinal(t)
  BY <1>1, NoBooks, PlainMove DEF ReturnFinal, Goto, Plain
<1> QED
  BY <1>1, ReturnReadBooks, ReturnRestockBooks, ReturnFlipBooks, ReturnTotalsBooks,
     LedgerReadBooks, LedgerWriteBooks DEF ReturnSteps

\* Every step of a Kinguin request.
LEMMA KinguinBooks ==
  ASSUME Reliable, MarketInv, StockInv, BooksStaged, NEW t \in Workers, Counts(t),
         KinguinStep(t)
  PROVE  BooksStaged'
  BY ClaimBooks, UploadBooks, FinalizeBooks, SaleBooks, ReleaseBooks, ReturnBooks
     DEF KinguinStep, Within

\* Steps that leave the books counted and their workers alone.
LEMMA OthersMove ==
  ASSUME BooksStaged, NEW t \in Tasks, StepOf(t), strayed \subseteq strayed',
         \A q \in Reservations : Counted(q)' => SameBooks(q),
         t \in Workers => \A q \in Reservations : Counted(q)' =>
                            (Row(t) = q => Even(q)) /\ job'[t].row # q
  PROVE  BooksStaged'
<1>1. ASSUME NEW q \in Reservations, Counted(q)'
      PROVE  /\ (\A u \in Workers : Row(u)' # q) => Even(q)'
             /\ \A u \in Workers : Row(u)' = q => BookStage(pc[u], job[u])'
  <2>1. \A u \in Workers : Row(u)' = q <=> u # t /\ Row(u) = q
    BY <1>1, TasksAre DEF StepOf, Row
  <2>2. /\ (\A u \in Workers : Row(u) # q) => Even(q)
        /\ \A u \in Workers : Row(u) = q => BookStage(pc[u], job[u])
    BY <1>1 DEF BooksStaged, Counted
  <2>3. SameBooks(q)
    BY <1>1
  <2>4. (\A u \in Workers : Row(u)' # q) => Even(q)'
    <3>1. (\A u \in Workers : Row(u)' # q) => Even(q)
      BY <1>1, <2>1, <2>2
    <3> QED
      BY <2>3, <3>1, StagesStay
  <2>5. ASSUME NEW u \in Workers, Row(u)' = q
        PROVE  BookStage(pc[u], job[u])'
    <3>1. PICK m, i : m = pc[u] /\ i = job[u]
      OBVIOUS
    <3>2. u # t /\ Row(u) = q
      BY <1>1, <2>1, <2>5
    <3>3. pc'[u] = m /\ job'[u] = i /\ i.row = q /\ BookStage(m, i)
      BY <2>2, <3>1, <3>2, TasksAre DEF StepOf, Row
    <3>4. BookStage(m, i)'
      BY <2>3, <3>3, StagesStay
    <3> QED
      BY <3>3, <3>4
  <2> QED
    BY <2>4, <2>5
<1> QED
  BY <1>1 DEF BooksStaged

\* A row a request may take has even books.
LEMMA BeginBooks ==
  ASSUME Reliable, MarketInv, StockInv, BooksStaged, NEW t \in Workers,
         NEW r \in Reservations, Counted(r), NEW l \in Plain \union {"ret_read"}, NEW j,
         Begin(t, r, l, j), DOMAIN j = DOMAIN NoJob, l = "ret_read" => j.qty = 0 /\ j.event = 0
  PROVE  BooksStaged'
<1>1. PICK i : i = [j EXCEPT !.row = r]
  OBVIOUS
<1>2. /\ DOMAIN NoJob = DOMAIN [NoJob EXCEPT !.qty = 0]
      /\ {"row", "qty", "event"} \subseteq DOMAIN NoJob
  BY DEF NoJob
<1>3. i.row = r /\ (l = "ret_read" => i.qty = 0 /\ i.event = 0)
  BY <1>1, <1>2
<1>4. /\ Continue(t, l, i) /\ MayStart(r) /\ pc[t] = "idle" /\ t \in Tasks
      /\ UNCHANGED <<prov, orders, strayed>>
  BY <1>1, TasksAre DEF Begin, Start, dbVars, rowVars, marketVars
<1>5. \A u \in Workers : u # t => Row(u) # r
  BY <1>4, AloneAt DEF Reliable
<1>6. \A q \in Reservations : Counted(q)' /\ Row(t) = q => Even(q)
  BY <1>4 DEF BooksStaged, BookStage, Plain, Row, Counted
<1>7. Even(r)
  BY <1>4, <1>5, <1>6 DEF BooksStaged, Counted
<1>8. \A q \in Reservations : SameBooks(q)
  BY <1>4, NoBooks
<1>9. Even(r)'
  BY <1>7, <1>8, StagesStay
<1>10. BookStage(l, i)'
  BY <1>3, <1>9 DEF BookStage, Plain
<1> QED
  BY <1>3, <1>4, <1>5, <1>6, <1>8, <1>10, BooksTaken

\* Requests of Kinguin.
LEMMA KinguinRequestBooks ==
  ASSUME Reliable, MarketInv, StockInv, BooksStaged, NEW t \in Workers,
         NEW r \in Reservations, Counted(r), KinguinRequest(t, r)
  PROVE  BooksStaged'
<1>1. ASSUME NEW l \in Plain, NEW j, DOMAIN j = DOMAIN NoJob, Begin(t, r, l, j)
      PROVE  BooksStaged'
  BY <1>1, BeginBooks DEF Plain
<1>2. ASSUME Begin(t, r, "ret_read", NoJob)
      PROVE  BooksStaged'
  <2>1. PICK l \in Plain \union {"ret_read"} : l = "ret_read"
    OBVIOUS
  <2>2. PICK j : j = NoJob
    OBVIOUS
  <2>3. j.qty = 0 /\ j.event = 0 /\ DOMAIN j = DOMAIN NoJob
    BY <2>2 DEF NoJob
  <2>4. Begin(t, r, l, j)
    BY <1>2, <2>1, <2>2
  <2> QED
    BY <2>3, <2>4, BeginBooks
<1>3. ASSUME NEW q, Begin(t, r, "claim", [NoJob EXCEPT !.qty = q, !.target = "failed"])
      PROVE  BooksStaged'
  <2>1. PICK j : j = [NoJob EXCEPT !.qty = q, !.target = "failed"]
    OBVIOUS
  <2>2. DOMAIN j = DOMAIN NoJob /\ Begin(t, r, "claim", j)
    BY <1>3, <2>1
  <2> QED
    BY <1>1, <2>2 DEF Plain
<1>4. ASSUME NEW q, Begin(t, r, "claim", [NoJob EXCEPT !.qty = q])
      PROVE  BooksStaged'
  BY <1>1, <1>4 DEF Plain
<1>5. ASSUME NEW l \in {"k_read", "release", "release_status"}, NEW status,
             Begin(t, r, l, [NoJob EXCEPT !.target = status])
      PROVE  BooksStaged'
  BY <1>1, <1>5 DEF Plain
<1>6. CASE Buying(t, r) \/ Bought(t, r)
  <2>1. CASE Buying(t, r)
    BY <1>4, <2>1 DEF Buying
  <2>2. CASE Begin(t, r, "claim", [NoJob EXCEPT !.qty = Quantity[r], !.target = "failed"])
    BY <1>3, <2>2
  <2>3. CASE Begin(t, r, "k_read", [NoJob EXCEPT !.target = "failed"])
    BY <1>5, <2>3
  <2> QED
    BY <1>6, <2>1, <2>2, <2>3 DEF Bought
<1>7. CASE Cancelled(t, r) \/ Returned(t, r) \/ Refunded(t, r)
  BY <1>2, <1>5, <1>7 DEF Cancelled, Returned, Refunded
<1> QED
  BY <1>6, <1>7 DEF KinguinRequest

\* Requests about other rows take none whose books are counted.
LEMMA OtherRequestBooks ==
  ASSUME MarketInv, BooksStaged, NEW t \in Workers, NEW r \in Reservations,
         ~Counted(r), KinguinRequest(t, r) \/ G2ARequest(t, r) \/ Deliver(t, r)
  PROVE  BooksStaged'
<1>1. ASSUME NEW l, NEW j, DOMAIN j = DOMAIN NoJob, Begin(t, r, l, j)
      PROVE  BooksStaged'
  <2>1. PICK i : i = [j EXCEPT !.row = r]
    OBVIOUS
  <2>2. i.row = r /\ NoJob.row = NoRow
    BY <1>1, <2>1 DEF NoJob
  <2>3. /\ Continue(t, l, i) /\ pc[t] = "idle" /\ t \in Tasks
        /\ UNCHANGED <<prov, orders, strayed>>
    BY <1>1, <2>1, TasksAre DEF Begin, Start, dbVars, rowVars, marketVars
  <2>4. StepOf(t) /\ job'[t].row \in {r, NoRow}
    BY <2>2, <2>3 DEF Continue, StepOf, MarketInv, MarketplaceTypeOK, TypeOK
  <2>5. \A q \in Reservations : Counted(q)' /\ Row(t) = q => Even(q)
    BY <2>3 DEF BooksStaged, BookStage, Plain, Row, Counted
  <2>6. \A q \in Reservations : Counted(q)' => job'[t].row # q
    BY <2>3, <2>4, NoRowIsNoRow DEF Counted
  <2>7. \A q \in Reservations : SameBooks(q)
    BY <2>3, NoBooks
  <2> QED
    BY <2>3, <2>4, <2>5, <2>6, <2>7, OthersMove
<1>2. ASSUME NEW l, NEW f, NEW v, Begin(t, r, l, [NoJob EXCEPT ![f] = v])
      PROVE  BooksStaged'
  <2>1. PICK j : j = [NoJob EXCEPT ![f] = v]
    OBVIOUS
  <2>2. DOMAIN j = DOMAIN NoJob /\ Begin(t, r, l, j)
    BY <1>2, <2>1
  <2> QED
    BY <1>1, <2>2
<1>3. ASSUME NEW l, NEW q, NEW s, Begin(t, r, l, [NoJob EXCEPT !.qty = q, !.target = s])
      PROVE  BooksStaged'
  <2>1. PICK j : j = [NoJob EXCEPT !.qty = q, !.target = s]
    OBVIOUS
  <2>2. DOMAIN j = DOMAIN NoJob /\ Begin(t, r, l, j)
    BY <1>3, <2>1
  <2> QED
    BY <1>1, <2>2
<1>4. CASE Deliver(t, r)
  BY <1>2, <1>4 DEF Deliver
<1>5. CASE GReserve(t, r) \/ GRenew(t, r)
  <2>1. CASE GReserve(t, r)
    BY <1>3, <2>1 DEF GReserve
  <2>2. CASE Begin(t, r, "g_expire", [NoJob EXCEPT !.qty = Quantity[r], !.target = "expired"])
    BY <1>3, <2>2
  <2>3. CASE Begin(t, r, "reply",
             [NoJob EXCEPT !.keys = KeysWith(r, "pending") \union KeysWith(r, "delivered")])
    BY <1>2, <2>3
  <2> QED
    BY <1>5, <2>1, <2>2, <2>3 DEF GRenew
<1>6. CASE GOrder(t, r) \/ GCancel(t, r) \/ GGetInventory(t, r)
  BY <1>1, <1>2, <1>6 DEF GOrder, GCancel, GGetInventory
<1>7. CASE Buying(t, r) \/ Bought(t, r)
  <2>1. CASE Begin(t, r, "claim", [NoJob EXCEPT !.qty = Quantity[r], !.target = "failed"])
    BY <1>3, <2>1
  <2>2. CASE \/ Begin(t, r, "claim", [NoJob EXCEPT !.qty = Quantity[r]])
             \/ Begin(t, r, "k_read", [NoJob EXCEPT !.target = "failed"])
    BY <1>2, <2>2
  <2> QED
    BY <1>7, <2>1, <2>2 DEF Buying, Bought
<1>8. CASE Cancelled(t, r) \/ Returned(t, r) \/ Refunded(t, r)
  BY <1>1, <1>2, <1>8 DEF Cancelled, Returned, Refunded
<1> QED
  BY <1>4, <1>5, <1>6, <1>7, <1>8 DEF G2ARequest, KinguinRequest

\* A return of G2A's finds books even where it takes a key.
LEMMA ReturnRequestBooks ==
  ASSUME Reliable, MarketInv, StockInv, BooksStaged, NEW t \in Workers, GReturnInventory(t)
  PROVE  BooksStaged'
<1>1. PICK r \in Reservations, k \in Keys :
        MayStart(r) /\ Start(t, "g_return", Item(<<r, k>>))
  <2>1. PICK S \in SUBSET Sent : \E p \in DeliveredOf(S) :
          MayStart(p[1]) /\ Start(t, "g_return", Item(p))
    BY DEF GReturnInventory
  <2>2. DeliveredOf(S) \subseteq Reservations \X Keys
    BY DEF DeliveredOf, Sent, MarketInv, MarketplaceTypeOK, MarketTypeOK
  <2> QED
    BY <2>1, <2>2
<1>2. PICK j \in Jobs : j = Item(<<r, k>>) /\ j.row = r
  BY ItemJob
<1>3. /\ Continue(t, "g_return", j) /\ pc[t] = "idle" /\ t \in Tasks
      /\ UNCHANGED <<prov, orders, strayed>>
  BY <1>1, <1>2, TasksAre DEF GReturnInventory, Start, dbVars, rowVars
<1>4. StepOf(t) /\ job'[t].row = r
  BY <1>2, <1>3 DEF Continue, StepOf, MarketInv, MarketplaceTypeOK, TypeOK
<1>5. \A q \in Reservations : SameBooks(q)
  BY <1>3, NoBooks
<1>6. \A q \in Reservations : Counted(q)' /\ Row(t) = q => Even(q)
  BY <1>3 DEF BooksStaged, BookStage, Plain, Row, Counted
<1>7. CASE Counted(r)
  <2>1. \A u \in Workers : u # t => Row(u) # r
    BY <1>1, AloneAt DEF Reliable
  <2>2. Even(r)
    BY <1>3, <1>6, <1>7, <2>1 DEF BooksStaged, Counted
  <2>3. Even(r)'
    BY <1>5, <2>2, StagesStay
  <2>4. BookStage("g_return", j)'
    BY <1>2, <2>3 DEF BookStage, Plain
  <2> QED
    BY <1>2, <1>3, <1>5, <1>6, <2>1, <2>4, BooksTaken
<1>8. CASE ~Counted(r)
  BY <1>3, <1>4, <1>5, <1>6, <1>8, OthersMove DEF Counted
<1> QED
  BY <1>7, <1>8

\* Requests of all three.
LEMMA RequestBooks ==
  ASSUME Reliable, MarketInv, StockInv, BooksStaged, NEW t \in Workers, Request(t)
  PROVE  BooksStaged'
<1>1. CASE GReturnInventory(t)
  BY <1>1, ReturnRequestBooks
<1>2. CASE \E r \in Reservations : Counted(r) /\ KinguinRequest(t, r)
  BY <1>2, KinguinRequestBooks
<1>3. CASE \E r \in Reservations :
             /\ ~Counted(r)
             /\ KinguinRequest(t, r) \/ G2ARequest(t, r) \/ Deliver(t, r)
  BY <1>3, OtherRequestBooks
<1> QED
  BY <1>1, <1>2, <1>3 DEF Request, Counted, Market

\* A step at a row whose books are not counted.
LEMMA UncountedBooks ==
  ASSUME MarketInv, BooksStaged, NEW t \in Workers, WorkerStep(t), ~RefundItem(t),
         ~Counted(Row(t)), UNCHANGED strayed
  PROVE  BooksStaged'
<1>1. t \in Tasks /\ StaysInRow(t) /\ Apart(Row(t))
  BY TasksAre, WorkersStay, OthersBooks
<1>2. \A q \in Reservations : Counted(q)' => q # Row(t)
  BY DEF Counted
<1>3. \A q \in Reservations : Counted(q)' => job'[t].row # q
  BY <1>1, <1>2, NoRowIsNoRow DEF StaysInRow, Row
<1>4. \A q \in Reservations : Counted(q)' => SameBooks(q)
  BY <1>1, <1>2 DEF Apart
<1> QED
  BY <1>1, <1>2, <1>3, <1>4, OthersMove DEF StaysInRow

\* A row that a return of G2A's takes a key from is counted no more; the row of
\* the next item has even books.
LEMMA RefundItemBooks ==
  ASSUME MarketInv, StockInv, BooksStaged, NEW t \in Workers, RefundItem(t)
  PROVE  BooksStaged'
<1>1. /\ pc[t] = "g_refund" /\ t \in Tasks /\ MarketTypeOK
      /\ prov \in [Reservations -> [Keys -> ProvisionStates]]
      /\ pc \in [Tasks -> Labels] /\ job \in [Tasks -> Jobs]
  BY TasksAre, Mover DEF RefundItem, MarketInv, MarketplaceTypeOK, TypeOK, DbTypeOK
<1>2. PICK r \in Reservations : r = Row(t)
  BY <1>1, TakerHasRow DEF Taking
<1>3. strayed \subseteq strayed' /\ ~Counted(r)'
  BY <1>2 DEF RefundItem, Counted, Market
<1>4. \A q \in Reservations : Counted(q)' => q # r /\ SameBooks(q)
  BY <1>1, <1>2, <1>3 DEF RefundItem, SetProvisions, SameBooks, KeysWith
<1>5. CASE Goto(t, "idle")
  <2>1. StepOf(t) /\ job'[t].row = NoRow
    BY <1>1, <1>5 DEF Goto, Continue, StepOf, NoJob
  <2> QED
    BY <1>1, <1>2, <1>3, <1>4, <2>1, NoRowIsNoRow, OthersMove
<1>6. ASSUME NEW p \in items[t], Continue(t, "g_return", Item(p))
      PROVE  BooksStaged'
  <2>1. PICK q \in Reservations, k \in Keys : p = <<q, k>>
    BY <1>1 DEF MarketTypeOK
  <2>2. PICK j \in Jobs : j = Item(p) /\ j.row = q
    BY <2>1, ItemJob
  <2>3. StepOf(t) /\ job'[t].row = q
    BY <1>1, <1>6, <2>2 DEF Continue, StepOf
  <2>4. CASE Counted(q)'
    <3>1. q # r /\ SameBooks(q) /\ Counted(q)
      BY <1>3, <1>4, <2>4 DEF Counted
    <3>2. \A u \in Workers : u # t => Row(u) # q
      BY <1>6, <2>1 DEF StockInv, ItemsAwait
    <3>3. Even(q)
      BY <1>2, <3>1, <3>2 DEF BooksStaged
    <3>4. Even(q)'
      BY <3>1, <3>3, StagesStay
    <3>5. BookStage("g_return", j)'
      BY <2>2, <3>4 DEF BookStage, Plain
    <3> QED
      BY <1>2, <1>3, <1>4, <1>6, <2>2, <3>2, <3>5, BooksTaken
  <2>5. CASE ~Counted(q)'
    BY <1>1, <1>2, <1>3, <1>4, <2>3, <2>5, OthersMove
  <2> QED
    BY <2>4, <2>5
<1> QED
  BY <1>5, <1>6 DEF RefundItem, NextItem

\* Workers of all three.
LEMMA WorkerBooks ==
  ASSUME Reliable, MarketInv, StockInv, BooksStaged, NEW t \in Workers, WorkerStep(t)
  PROVE  BooksStaged'
<1>1. CASE RefundItem(t)
  BY <1>1, RefundItemBooks
<1>2. CASE ReturnKey(t) /\ ~RefundItem(t)
  <2>1. UNCHANGED strayed /\ UNCHANGED <<prov, orders>> /\ Goto(t, "g_refund") /\ pc[t] = "g_return"
    BY <1>2 DEF ReturnKey, marketVars, rowVars
  <2>2. CASE Counted(Row(t))
    <3>1. Row(t) \in Reservations
      BY <2>1, TasksAre, TakerHasRow DEF Taking
    <3> QED
      BY <2>1, <2>2, <3>1, NoBooks, PlainMove DEF Goto, Plain, Counts
  <2> QED
    BY <1>2, <2>1, <2>2, UncountedBooks
<1>3. CASE ~ReturnItem(t)
  <2>1. UNCHANGED strayed /\ ~RefundItem(t)
    BY <1>3, StepsApart DEF ReturnItem
  <2>2. CASE Counted(Row(t))
    <3>1. Serves(t, "kinguin") /\ KinguinStep(t)
      BY <1>3, <2>2 DEF WorkerStep, Serves, Counted, Market
    <3>2. Row(t) \in Reservations
      BY <3>1, TasksAre, Mover DEF Serves, Jobs, Row
    <3> QED
      BY <2>1, <2>2, <3>1, <3>2, KinguinBooks DEF Counts
  <2> QED
    BY <2>1, <2>2, UncountedBooks
<1> QED
  BY <1>1, <1>2, <1>3 DEF ReturnItem

\* The sweep settles nothing.
LEMMA SweepBooks ==
  ASSUME MarketInv, BooksStaged, Within(Sweep)
  PROVE  BooksStaged'
<1>1. Cron \in Tasks /\ Cron \notin Workers /\ UNCHANGED strayed
  BY TasksAre DEF Within, marketVars
<1>2. StepOf(Cron)
  BY DEF Within, Sweep, SweepStart, SweepNext, SweepRelease, Release, ReleaseStatus, Start, Goto,
         Continue, StepOf, MarketInv, MarketplaceTypeOK, TypeOK
<1>3. \A q \in Reservations : SameBooks(q)
  <2>1. CASE SweepStart({r \in Reservations : MayStart(r)}) \/ SweepNext
    BY <2>1, NoBooks DEF SweepStart, SweepNext, dbVars, rowVars
  <2>2. CASE SweepRelease
    BY <1>1, <2>2, ReleaseSameBooks DEF SweepRelease
  <2> QED
    BY <2>1, <2>2 DEF Within, Sweep
<1> QED
  BY <1>1, <1>2, <1>3, OthersMove

\* Nothing is booked at first.
LEMMA InitBooks ==
  ASSUME MarketplaceInit
  PROVE  BooksStaged
<1>1. \A t \in Tasks : pc[t] = "idle" /\ Row(t) = NoRow
  BY DEF MarketplaceInit, Init, Row, NoJob
<1>2. ASSUME NEW r \in Reservations
      PROVE  Even(r)
  <2>1. Final(r) = {} /\ KeysWith(r, "refunded") = {}
    BY DEF MarketplaceInit, Init, DbInit, Final, KeysWith
  <2>2. /\ orders[r].total = 0 /\ orders[r].credit = 0 /\ orders[r].refunded = 0
        /\ orders[r].status = "none"
    BY DEF MarketplaceInit, Init, DbInit, NoOrderRow
  <2>3. Cardinality(Final(r)) = 0 /\ Cardinality(KeysWith(r, "refunded")) = 0
    BY <2>1, FS_EmptySet
  <2> QED
    BY <2>2, <2>3 DEF Even, Booked, Sold
<1> QED
  BY <1>1, <1>2, TasksAre, NoRowIsNoRow DEF BooksStaged

\* Every step keeps the books of Kinguin.
LEMMA NextBooks ==
  ASSUME Reliable, MarketInv, StockInv, BooksStaged, [MarketplaceNext]_marketplaceVars
  PROVE  BooksStaged'
<1>1. ASSUME NEW t \in Workers, Request(t)
      PROVE  BooksStaged'
  BY <1>1, RequestBooks
<1>2. ASSUME NEW t \in Workers, WorkerStep(t)
      PROVE  BooksStaged'
  BY <1>2, WorkerBooks
<1>3. CASE Within(Sweep)
  BY <1>3, SweepBooks
<1>4. CASE UNCHANGED marketplaceVars
  <2>1. UNCHANGED <<prov, orders, pc, job, strayed>>
    BY <1>4 DEF marketplaceVars, marketVars, vars, dbVars, rowVars
  <2> QED
    BY <2>1, NoBooks, OthersMove, TasksAre DEF StepOf
<1> QED
  BY <1>1, <1>2, <1>3, <1>4 DEF MarketplaceNext

\* Where one request at a time works on a row and no write, read or procedure
\* call fails, each stage of a sale or a return of Kinguin has its books.
THEOREM MarketBooks == ASSUME Reliable PROVE MarketplaceSpec => []BooksStaged
<1>1. MarketplaceInit => BooksStaged
  BY InitBooks
<1>2. /\ Reliable /\ MarketInv /\ StockInv /\ BooksStaged /\ [MarketplaceNext]_marketplaceVars
      => BooksStaged'
  BY NextBooks
<1>3. Serial
  BY DEF Reliable
<1>4. MarketplaceSpec => []StockInv
  BY <1>3, MarketStock
<1> QED
  BY <1>1, <1>2, <1>4, MarketInvariant, PTL DEF MarketplaceSpec

\* At rest a Kinguin sale is booked in full, and its refunds are the keys taken
\* back, in whatever order Kinguin announces what became of it.
THEOREM KinguinBooksEven ==
  ASSUME Reliable PROVE MarketplaceSpec => []KinguinBooksFollowKeys
<1>1. BooksStaged => KinguinBooksFollowKeys
  <2> SUFFICES ASSUME BooksStaged, NEW r \in Reservations \ strayed, Market(r, "kinguin"),
                      ~Working(r)
               PROVE  /\ orders[r].credit = orders[r].total
                      /\ orders[r].total = Cardinality(Final(r))
                      /\ orders[r].refunded = Cardinality(KeysWith(r, "refunded"))
    BY DEF KinguinBooksFollowKeys
  <2>1. \A t \in Workers : Row(t) # r
    BY TasksAre DEF Working, Row
  <2>2. Even(r)
    BY <2>1 DEF BooksStaged, Counted
  <2> QED
    BY <2>2 DEF Even, Booked, Sold
<1> QED
  BY <1>1, MarketBooks, PTL
===============================================================================
