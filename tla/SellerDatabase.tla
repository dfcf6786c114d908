---------------------------- MODULE SellerDatabase ----------------------------
(***************************************************************************)
(* The tables the marketplace webhooks and the housekeeping cron share:    *)
(* product_keys, seller_key_provisions, seller_stock_reservations, orders  *)
(* and transactions.  Every await of the TypeScript code is one call to    *)
(* this database, and calls of different handlers interleave; one call is  *)
(* one transaction.                                                        *)
(*                                                                         *)
(* The stored procedures are not in the repository.  The operators below   *)
(* that model them state the contract src/ relies on:                      *)
(*   claim_and_reserve_atomic          - all keys or none, never a key     *)
(*                                       with a pending provision          *)
(*   finalize_seller_provisions_atomic - all listed provisions, if they    *)
(*                                       are all still pending             *)
(*   release_seller_reserved_keys      - keys and provisions together      *)
(*   batch_restock_seller_keys         - only keys in the listed states    *)
(***************************************************************************)
EXTENDS Naturals, FiniteSets

CONSTANTS
  Keys,          \* rows of product_keys
  Reservations,  \* possible rows of seller_stock_reservations
  NoRow,         \* "no reservation": an absent reference
  Stocked,       \* the keys in stock at first; the others can be bought (JIT)
  PoolCount,     \* pool 1 is the variant's own stock, 2.. its source variants
  PoolOf         \* the pool each key belongs to

ASSUME KeysFinite == IsFiniteSet(Keys)
ASSUME ReservationsFinite == IsFiniteSet(Reservations)
ASSUME NoRowIsNoRow == NoRow \notin Reservations
ASSUME StockedAreKeys == Stocked \subseteq Keys
ASSUME PoolsType == PoolCount \in Nat \ {0} /\ PoolOf \in [Keys -> 1..PoolCount]

VARIABLES
  keyState,   \* product_keys.key_state; "absent": not bought yet
  keyOrder,   \* product_keys.order_id, as the reservation the order records
  prov,       \* seller_key_provisions.status of (reservation, key)
  resv,       \* seller_stock_reservations.status
  createdAt,  \* creation order of the reservation rows, 0 while absent
  orders      \* the order recorded for a reservation and its transactions

keyVars == <<keyState, keyOrder>>
rowVars == <<prov, resv, createdAt>>
dbVars  == <<keyState, keyOrder, prov, resv, createdAt, orders>>

KeyStates == {"absent", "available", "seller_reserved", "seller_provisioned",
              "seller_uploaded", "faulty"}
ProvisionStates == {"none", "pending", "delivered", "failed", "refunded"}
ReservationStates == {"none", "pending", "provisioned", "expired", "cancelled", "failed"}
OrderStates == {"none", "fulfilled", "partially_refunded", "refunded"}

(***************************************************************************)
(* One order with its transactions.  Amounts are in keys: an order of n    *)
(* keys has total n, which is exact because total_amount is the unit price *)
(* times the number of keys and refunds are multiples of the unit price.   *)
(***************************************************************************)
OrderRows == [status   : OrderStates,
              total    : Nat,         \* total_amount
              rows     : Nat,         \* orders inserted under the idempotency key
              credit   : Nat,         \* marketplace_sale credits
              refunded : Nat,         \* sum of the completed refund debits
              writeOff : Nat,         \* replacement write-off debits
              events   : SUBSET Nat]  \* provider_refund_id values already used

NoOrderRow == [status |-> "none", total |-> 0, rows |-> 0, credit |-> 0,
               refunded |-> 0, writeOff |-> 0, events |-> {}]

DbTypeOK ==
  /\ keyState \in [Keys -> KeyStates]
  /\ keyOrder \in [Keys -> Reservations \union {NoRow}]
  /\ prov \in [Reservations -> [Keys -> ProvisionStates]]
  /\ resv \in [Reservations -> ReservationStates]
  /\ createdAt \in [Reservations -> Nat]
  /\ orders \in [Reservations -> OrderRows]

DbInit ==
  /\ keyState = [k \in Keys |-> IF k \in Stocked THEN "available" ELSE "absent"]
  /\ keyOrder = [k \in Keys |-> NoRow]
  /\ prov = [r \in Reservations |-> [k \in Keys |-> "none"]]
  /\ resv = [r \in Reservations |-> "none"]
  /\ createdAt = [r \in Reservations |-> 0]
  /\ orders = [r \in Reservations |-> NoOrderRow]

KeysWith(r, status) == {k \in Keys : prov[r][k] = status}
Existing == {r \in Reservations : resv[r] # "none"}

\* seller_stock_reservations.provisioned_at is set by the finalize procedure
EverProvisioned(r) == KeysWith(r, "delivered") \union KeysWith(r, "refunded") # {}

SetKeys(S, state) == keyState' = [k \in Keys |-> IF k \in S THEN state ELSE keyState[k]]
SetProvisions(r, S, status) ==
  prov' = [prov EXCEPT ![r] = [k \in Keys |-> IF k \in S THEN status ELSE prov[r][k]]]
SetReservation(r, status) == resv' = [resv EXCEPT ![r] = status]

-------------------------------------------------------------------------------
(* The stored procedures.                                                    *)

\* Mutant of Claimable: the key's state is not looked at.
ClaimableInAnyState(pool) ==
  {k \in Keys : /\ PoolOf[k] = pool
                /\ keyState[k] # "absent"
                /\ \A r \in Reservations : prov[r][k] # "pending"}

\* What claim_and_reserve_atomic may take from a pool: the NOT EXISTS guard
\* leaves out a key that still has a pending provision.
Claimable(pool) ==
  {k \in Keys : /\ PoolOf[k] = pool
                /\ keyState[k] = "available"
                /\ \A r \in Reservations : prov[r][k] # "pending"}

ClaimAndReserve(r, S) ==
  /\ SetKeys(S, "seller_reserved")
  /\ SetProvisions(r, S, "pending")
  /\ SetReservation(r, "pending")
  /\ createdAt' = [createdAt EXCEPT ![r] = Cardinality(Existing) + 1]
  /\ UNCHANGED <<keyOrder, orders>>

\* Mutant of CanFinalize: the status of the provisions is not checked again.
CanFinalizeAny(r, S) == S # {}

\* Raises (has no effect) unless every listed provision is still pending.
CanFinalize(r, S) == S # {} /\ \A k \in S : prov[r][k] = "pending"

FinalizeProvisions(r, S) ==
  /\ SetKeys(S, "seller_provisioned")
  /\ SetProvisions(r, S, "delivered")
  /\ SetReservation(r, "provisioned")
  /\ UNCHANGED <<keyOrder, createdAt, orders>>

\* Mutant of ReleaseReserved: the provisions stay pending.
ReleaseKeysOnly(r) ==
  /\ SetKeys({k \in KeysWith(r, "pending") : keyState[k] = "seller_reserved"}, "available")
  /\ UNCHANGED <<keyOrder, prov, resv, createdAt, orders>>

ReleaseReserved(r) ==
  LET pending == KeysWith(r, "pending") IN
    /\ SetKeys({k \in pending : keyState[k] = "seller_reserved"}, "available")
    /\ SetProvisions(r, pending, "failed")
    /\ UNCHANGED <<keyOrder, resv, createdAt, orders>>

RestockableStates == {"seller_provisioned", "seller_reserved", "seller_uploaded"}
Restockable(S) == {k \in S : keyState[k] \in RestockableStates}

RestockKeys(S) ==
  /\ SetKeys(S, "available")
  /\ UNCHANGED <<keyOrder, prov, resv, createdAt, orders>>

===============================================================================
