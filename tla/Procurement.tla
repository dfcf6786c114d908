------------------------------ MODULE Procurement ------------------------------
(***************************************************************************)
(* Buying keys from suppliers: the JIT router, which asks the suppliers of *)
(* a variant in the order of their price, and the manual purchase of one   *)
(* administrator.  Both record an attempt, order, wait for the codes, save *)
(* them as keys and close the attempt.  The supplier works on its own: an  *)
(* order may complete after the buyer stopped waiting, and the answer to   *)
(* an accepted order may be lost.                                          *)
(***************************************************************************)
EXTENDS Naturals, Sequences, FiniteSets

CONSTANTS
  Buys,        \* purchases asked for
  Suppliers,   \* enabled buyer accounts, each with one offer for the variant
  NoSupplier,  \* the supplier of a buy that asks none
  Codes,       \* what suppliers deliver
  Manual,      \* the buys of an administrator; the others are JIT
  Quantity,    \* keys each buy asks for
  Offers,      \* what the offers of the suppliers may be, all together
  SalePrice, MinMargin, Fees,   \* of a sale a JIT buy is for, in the listing's currency
  Faults       \* subset of {"supplier", "database", "rates"}

ASSUME SuppliersFinite == IsFiniteSet(Suppliers)
ASSUME ManualType == Manual \subseteq Buys
ASSUME AmountType == Quantity \in Nat \ {0} /\ {SalePrice, MinMargin, Fees} \subseteq Nat
ASSUME OffersType ==
  Offers \subseteq [Suppliers -> [price : Nat, available : Nat,
                                kind : {"bamboo", "approute", "wgcards"}]]
ASSUME NoSupplierType == NoSupplier \notin Suppliers

VARIABLES
  offer,      \* the rows: USD unit price (0 for none), stock shown, supplier's API
  allowed,    \* auto-buy is on and the variant is not blocked
  status,     \* provider_purchase_attempts.status, "none" without a row
  order,      \* external: the order at the supplier
  codes,      \* external: the codes of a completed order
  stock,      \* raw_key_hash of product_keys
  buy         \* where each buy is, with its locals

vars == <<offer, allowed, status, order, codes, stock, buy>>

Attempts == Buys \X Suppliers

Idle == [at |-> "idle", todo |-> << >>, gated |-> FALSE, from |-> NoSupplier, cost |-> 0,
         got |-> {}, left |-> {}, saved |-> {}, lost |-> {}, verdict |-> "failed", told |-> "nothing"]

\* where a buy is once it has a supplier
Served == {"guard", "quote", "record", "order", "poll", "save", "close", "ended"}

Init ==
  /\ offer \in Offers
  /\ allowed = TRUE
  /\ status = [a \in Attempts |-> "none"]
  /\ order = [a \in Attempts |-> "none"]
  /\ codes = [a \in Attempts |-> {}]
  /\ stock = {}
  /\ buy = [b \in Buys |-> Idle]

CanFail(f) == f \in Faults
At(b, where) == buy[b].at = where
Attempt(b) == <<b, buy[b].from>>
Shown(b) == offer[buy[b].from]
IsAt(b, where, kind) == At(b, where) /\ Shown(b).kind = kind
Move(b, where) == buy' = [buy EXCEPT ![b].at = where]

Told(b, what) ==
  buy' = [buy EXCEPT ![b].at = "done", ![b].told = what]

\* A supplier that yields nothing sends a JIT buy to its next candidate.
Refused(b) == IF b \in Manual THEN Told(b, "refused") ELSE Move(b, "next")
-------------------------------------------------------------------------------
(* The router *)

Amounts == {"sale", "margin", "fees"}

\* Amounts of the sale are converted to USD; what has no rate is left out.
Converted == IF CanFail("rates") THEN SUBSET Amounts ELSE {Amounts}

\* computeMaxUsdUnitCost: nothing limits the price when the sale price is not known.
WithinCeiling(price, known) ==
  "sale" \in known =>
    price <= SalePrice - (IF "margin" \in known THEN MinMargin ELSE 0)
                       - (IF "fees" \in known THEN Fees ELSE 0)

Fit(known) ==
  {p \in Suppliers : /\ offer[p].price > 0 /\ WithinCeiling(offer[p].price, known)
                     /\ offer[p].available >= Quantity}

\* Mutant of Ranked: the dearest first.
RankedDearest(known) ==
  LET fit == Fit(known) IN
    {s \in [1..Cardinality(fit) -> fit] :
       \A i, j \in DOMAIN s : i < j => s[i] # s[j] /\ offer[s[i]].price >= offer[s[j]].price}

\* rankCandidates: no price, too few in stock or above the margin gate is out; a
\* tie (prioritize_quote_sync, then the order of the rows) goes either way.
Ranked(known) ==
  LET fit == Fit(known) IN
    {s \in [1..Cardinality(fit) -> fit] :
       \A i, j \in DOMAIN s : i < j => s[i] # s[j] /\ offer[s[i]].price <= offer[s[j]].price}

Route(b) ==
  /\ At(b, "idle") /\ b \notin Manual
  /\ \E known \in Converted : \E s \in Ranked(known) :
       buy' = [buy EXCEPT ![b].at = "next", ![b].gated = (known = Amounts),
                          ![b].todo = [i \in DOMAIN s |-> <<s[i], offer[s[i]].price>>]]
  /\ UNCHANGED <<offer, allowed, status, order, codes, stock>>

\* A candidate without adapter or wallet credit is passed over.
NextCandidate(b) ==
  /\ At(b, "next")
  /\ LET todo == buy[b].todo IN
       \/ /\ todo = << >>
          /\ Told(b, "refused")
       \/ /\ todo # << >>
          /\ \/ buy' = [buy EXCEPT ![b].at = "guard", ![b].from = Head(todo)[1],
                                       ![b].cost = Head(todo)[2], ![b].todo = Tail(todo)]
             \/ /\ CanFail("supplier")
                /\ buy' = [buy EXCEPT ![b].todo = Tail(todo)]
  /\ UNCHANGED <<offer, allowed, status, order, codes, stock>>

AskManually(b) ==
  /\ At(b, "idle") /\ b \in Manual
  /\ \E p \in Suppliers : buy' = [buy EXCEPT ![b].at = "guard", ![b].from = p]
  /\ UNCHANGED <<offer, allowed, status, order, codes, stock>>
-------------------------------------------------------------------------------
(* The purchase: executeJitPurchase, execute and the run...AfterSetup methods *)

\* checkSpendGuardrails, then the account and its credentials
Guardrails(b) ==
  /\ At(b, "guard")
  /\ IF allowed THEN Move(b, "quote") ELSE Refused(b)
  /\ UNCHANGED <<offer, allowed, status, order, codes, stock>>

\* preflightQuote: the stock of the live quote
BambooQuote(b) ==
  /\ IsAt(b, "quote", "bamboo")
  /\ \/ Shown(b).available >= Quantity /\ Move(b, "record")
     \/ /\ Shown(b).available < Quantity \/ CanFail("supplier")
        /\ Refused(b)
  /\ UNCHANGED <<offer, allowed, status, order, codes, stock>>

\* resolveAppRoutePurchaseEstimate and the wallet; AppRoute's stock is not asked
AppRouteEstimate(b) ==
  /\ IsAt(b, "quote", "approute")
  /\ \/ Shown(b).price > 0 /\ Move(b, "record")
     \/ /\ Shown(b).price = 0 \/ CanFail("supplier")
        /\ Refused(b)
  /\ UNCHANGED <<offer, allowed, status, order, codes, stock>>

\* stock, parent product, live SKU data, face value, wallet
WgcardsChecks(b) ==
  /\ IsAt(b, "quote", "wgcards")
  /\ \/ Shown(b).available >= Quantity /\ Move(b, "record")
     \/ /\ Shown(b).available < Quantity \/ CanFail("supplier")
        /\ Refused(b)
  /\ UNCHANGED <<offer, allowed, status, order, codes, stock>>

\* Mutant of RecordAttempt: a row that cannot be written does not stop the purchase.
RecordIfPossible(b) ==
  /\ At(b, "record")
  /\ status' \in {status, [status EXCEPT ![Attempt(b)] = "pending"]}
  /\ Move(b, "order")
  /\ UNCHANGED <<offer, allowed, order, codes, stock>>

RecordAttempt(b) ==
  /\ At(b, "record")
  /\ \/ /\ status' = [status EXCEPT ![Attempt(b)] = "pending"]
        /\ Move(b, "order")
     \/ /\ CanFail("database")
        /\ UNCHANGED status
        /\ Refused(b)
  /\ UNCHANGED <<offer, allowed, order, codes, stock>>

Closing(b, v) == buy' = [buy EXCEPT ![b].at = "close", ![b].verdict = v]

\* A refused order and an accepted one whose answer is lost look the same: the
\* attempt fails without a reference to the order.
OrderErred(b) ==
  /\ CanFail("supplier")
  /\ order' \in {order, [order EXCEPT ![Attempt(b)] = "open"]}
  /\ Closing(b, "failed")

OrderTaken(b) == order' = [order EXCEPT ![Attempt(b)] = "open"] /\ Move(b, "poll")

\* The face value and the account come first, and nothing is ordered without them.
BambooCheckout(b) ==
  /\ IsAt(b, "order", "bamboo")
  /\ \/ OrderTaken(b) \/ OrderErred(b)
     \/ CanFail("supplier") /\ Closing(b, "failed") /\ UNCHANGED order
  /\ UNCHANGED <<offer, allowed, status, codes, stock>>

\* A replay of the reference is no error: the order of the first try is polled.
AppRouteOrder(b) ==
  /\ IsAt(b, "order", "approute")
  /\ OrderTaken(b) \/ OrderErred(b)
  /\ UNCHANGED <<offer, allowed, status, codes, stock>>

WgcardsOrder(b) ==
  /\ IsAt(b, "order", "wgcards")
  /\ OrderTaken(b) \/ OrderErred(b)
  /\ UNCHANGED <<offer, allowed, status, codes, stock>>

\* The codes of the first answer that has any are taken, and no more are asked
\* for: the records WGCards has written so far, the cards Bamboo shows as sold, the
\* vouchers AppRoute shows unmasked.
Delivered(b) ==
  \E S \in (SUBSET codes[Attempt(b)]) \ {{}} :
    buy' = [buy EXCEPT ![b].at = "save", ![b].got = S, ![b].left = S]

\* Mutant of WindowOver: the supplier's word for the order goes into the attempt.
WindowOverInItsWords(b) == order[Attempt(b)] = "open" /\ Closing(b, order[Attempt(b)])

\* the last poll of the window
WindowOver(b) == order[Attempt(b)] = "open" /\ Closing(b, "timeout")

BambooPoll(b) ==
  /\ IsAt(b, "poll", "bamboo")
  /\ \/ Delivered(b) \/ WindowOver(b)
     \/ order[Attempt(b)] = "failed" /\ Closing(b, "failed")
  /\ UNCHANGED <<offer, allowed, status, order, codes, stock>>

\* When all codes are masked they are asked for once more, unhidden, with a window
\* of its own.
AppRoutePoll(b) ==
  /\ IsAt(b, "poll", "approute")
  /\ \/ Delivered(b) \/ WindowOver(b)
     \/ /\ CanFail("supplier") /\ codes[Attempt(b)] # {}
        /\ \E v \in {"timeout", "failed"} : Closing(b, v)
     \/ order[Attempt(b)] = "failed" /\ Closing(b, "failed")
  /\ UNCHANGED <<offer, allowed, status, order, codes, stock>>

\* getBuyCard knows no failed order, so one is polled to the end of the window;
\* records without a card yield no key, and the attempt fails.
WgcardsPoll(b) ==
  /\ IsAt(b, "poll", "wgcards")
  /\ \/ Delivered(b) \/ WindowOver(b)
     \/ order[Attempt(b)] = "failed" /\ Closing(b, "timeout")
     \/ /\ CanFail("supplier") /\ codes[Attempt(b)] # {}
        /\ Closing(b, "failed")
  /\ UNCHANGED <<offer, allowed, status, order, codes, stock>>

\* Mutant of SaveCode: the first code that cannot be saved ends the loop.
SaveUntilFailure(b) ==
  /\ At(b, "save")
  /\ \E c \in buy[b].left :
       \/ /\ stock' = stock \union {c}
          /\ buy' = [buy EXCEPT ![b].left = @ \ {c}, ![b].saved = @ \union {c}]
       \/ /\ CanFail("database")
          /\ buy' = [buy EXCEPT ![b].left = {}, ![b].lost = @ \union {c}]
          /\ UNCHANGED stock
  /\ UNCHANGED <<offer, allowed, status, order, codes>>

\* ingestProviderPurchasedKey: a code that is in the stock already, found before
\* or by the insert's 23505, counts as saved.
SaveCode(b) ==
  /\ At(b, "save")
  /\ \E c \in buy[b].left :
       \/ /\ stock' = stock \union {c}
          /\ buy' = [buy EXCEPT ![b].left = @ \ {c}, ![b].saved = @ \union {c}]
       \/ /\ CanFail("database")
          /\ buy' = [buy EXCEPT ![b].left = @ \ {c}, ![b].lost = @ \union {c}]
          /\ UNCHANGED stock
  /\ UNCHANGED <<offer, allowed, status, order, codes>>

AllSaved(b) ==
  /\ At(b, "save") /\ buy[b].left = {}
  /\ Closing(b, "success")
  /\ UNCHANGED <<offer, allowed, status, order, codes, stock>>

\* finalizeAttempt, whose own failure is only logged
Finalize(b) ==
  /\ At(b, "close")
  /\ \/ status' = [status EXCEPT ![Attempt(b)] = buy[b].verdict]
     \/ CanFail("database") /\ UNCHANGED status
  /\ Move(b, "ended")
  /\ UNCHANGED <<offer, allowed, order, codes, stock>>

\* Mutant of Conclude: only a complete delivery counts as bought.
ConcludeWhole(b) ==
  /\ At(b, "ended")
  /\ IF buy[b].saved # {} /\ buy[b].lost = {} THEN Told(b, "bought") ELSE Refused(b)
  /\ UNCHANGED <<offer, allowed, status, order, codes, stock>>

\* A purchase that saved a code is a success, what else was delivered is reported.
Conclude(b) ==
  /\ At(b, "ended")
  /\ IF buy[b].saved # {} THEN Told(b, "bought") ELSE Refused(b)
  /\ UNCHANGED <<offer, allowed, status, order, codes, stock>>

Buying(b) ==
  \/ Route(b) \/ NextCandidate(b) \/ AskManually(b) \/ Guardrails(b)
  \/ BambooQuote(b) \/ AppRouteEstimate(b) \/ WgcardsChecks(b) \/ RecordAttempt(b)
  \/ BambooCheckout(b) \/ AppRouteOrder(b) \/ WgcardsOrder(b)
  \/ BambooPoll(b) \/ AppRoutePoll(b) \/ WgcardsPoll(b) \/ SaveCode(b)
  \/ AllSaved(b) \/ Finalize(b) \/ Conclude(b)
-------------------------------------------------------------------------------
(* Around the purchase *)

\* external: the supplier completes an open order, with codes it may have sold
\* before, or fails it; what it does when nobody polls any more is not seen
Complete(a) ==
  /\ order[a] = "open" /\ At(a[1], "poll") /\ Attempt(a[1]) = a
  /\ \/ \E S \in (SUBSET Codes) \ {{}} :
          /\ Cardinality(S) <= Quantity
          /\ order' = [order EXCEPT ![a] = "completed"]
          /\ codes' = [codes EXCEPT ![a] = S]
     \/ order' = [order EXCEPT ![a] = "failed"] /\ UNCHANGED codes
  /\ UNCHANGED <<offer, allowed, status, stock, buy>>

\* updateProcurementConfig, or the sales block of the variant
Forbid ==
  /\ allowed
  /\ allowed' = FALSE
  /\ UNCHANGED <<offer, status, order, codes, stock, buy>>

Next ==
  \/ \E b \in Buys : Buying(b)
  \/ \E a \in Attempts : Complete(a)
  \/ Forbid

Spec == Init /\ [][Next]_vars
-------------------------------------------------------------------------------
(* Properties *)

\* The type of the state, with a supplier for whoever is past the router.
ProcurementTypeOK ==
  /\ offer \in Offers /\ allowed \in BOOLEAN
  /\ status \in [Attempts -> {"none", "pending", "success", "failed", "timeout"}]
  /\ order \in [Attempts -> {"none", "open", "completed", "failed"}]
  /\ codes \in [Attempts -> SUBSET Codes]
  /\ stock \subseteq Codes
  /\ \A b \in Buys :
       /\ buy[b].at \in {"idle", "next", "done"} \union Served
       /\ buy[b].at \in Served => buy[b].from \in Suppliers
       /\ buy[b].told \in {"nothing", "bought", "refused"}

\* No order is at a supplier without an attempt on record (:434 before :464), so
\* that whatever breaks off later leaves a row to start the recovery from.
OrdersAreRecorded == \A a \in Attempts : order[a] # "none" => status[a] # "none"

\* Every code that a supplier's answer handed to a manual purchase is either a key
\* in the stock or in the answer's failed_ingestions, whichever of the inserts
\* failed, and whatever became of the attempt.  What the supplier sold and did not
\* hand over in that answer is not asked for again.
NoReceivedCodeIsLost ==
  \A b \in Manual : At(b, "done") => buy[b].got \subseteq stock \union buy[b].lost

\* By the price it ranked, a JIT buy leaves the margin and the fees of its sale when
\* their rates were known, and asks no supplier while a cheaper one is left untried.
CheapestFirst ==
  \A b \in Buys \ Manual : buy[b].at \in Served =>
    /\ buy[b].gated => buy[b].cost + MinMargin + Fees <= SalePrice
    /\ \A i \in DOMAIN buy[b].todo : buy[b].cost <= buy[b].todo[i][2]

\* Once a code of a buy is in the stock the buy orders nothing more.
StopsOnceSupplied ==
  [][\A b \in Buys : buy[b].saved # {} =>
       \A p \in Suppliers : order[<<b, p>>] = "none" => order'[<<b, p>>] = "none"]_vars

\* The purchase keeps what it promises (PurchaseContract).
Contract == INSTANCE PurchaseContract WITH
  placed <- {a \in Attempts : order[a] # "none"},
  served <- [b \in Buys |-> buy[b].saved],
  told <- [b \in Buys |-> buy[b].told]

ContractKept == Contract!Spec
===============================================================================
