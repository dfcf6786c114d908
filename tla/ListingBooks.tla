------------------------------ MODULE ListingBooks ------------------------------
(***************************************************************************)
(* A listing as it is kept twice: in seller_listings and on the            *)
(* marketplace.  Webhooks, administrators and the runs of the              *)
(* reconciliation each write both, one after the other.                    *)
(***************************************************************************)
EXTENDS SellerPricing

CONSTANTS
  Listings,   \* declared-stock listings with auto_sync_stock, on one marketplace
  Callbacks,  \* tasks that serve requests of the marketplace or of administrators
  Runs,       \* runs of reconcile-seller-listings that may be in progress at once
  Supplies,   \* what may stand behind a listing
  Rivals,     \* the prices of rivals there may be
  Starts,     \* the settings a listing may have, with the supply and the rivals it starts with
  FirstPrice, \* the price a listing starts with
  MaxShown,   \* bound: the stock an administrator declares
  MaxMoves    \* bound: requests, moves of the market and failures

Offer == [cost : Nat, credited : BOOLEAN, available : Nat]
Supply == [keys : Nat, keyCost : Nat, offers : SUBSET Offer]
Mode == [net : BOOLEAN, smart : BOOLEAN, follows : BOOLEAN, autoPrice : BOOLEAN]

ASSUME SuppliesType == Supplies \subseteq Supply
ASSUME RivalsType == Rivals \subseteq Seq(Nat \ {0})
ASSUME StartsType == Starts \subseteq [mode : Mode, supply : Supplies, rivals : Rivals]
ASSUME TasksType == Listings # {} /\ Runs \intersect Callbacks = {}
ASSUME NumbersType == {FirstPrice, MaxShown, MaxMoves} \subseteq Nat

VARIABLES
  mode,     \* the settings, which do not change
  row,      \* seller_listings
  shop,     \* external: the listing on the marketplace
  supply,   \* keys in stock and the suppliers' offers
  rivals,
  late,     \* saves of a declared stock that nobody waits for
  moves,
  spared,   \* history: listings resumed by hand, or whose pause a restart cut off, since last paused
  writers,  \* history: the tasks between their two writes of a field
  doubt     \* history: the fields that a failed or crossed write has put in doubt

bookVars == <<mode, row, shop, supply, rivals, late, moves, spared, writers, doubt>>

BookTasks == Callbacks \union Runs

\* What row and marketplace both have of a listing.
Fields == Listings \X {"stock", "price"}
StockOf(l) == <<l, "stock">>
PriceOf(l) == <<l, "price">>

BooksInit ==
  /\ \E start \in [Listings -> Starts] :
       /\ mode = [l \in Listings |-> start[l].mode]
       /\ supply = [l \in Listings |-> start[l].supply]
       /\ rivals = [l \in Listings |-> start[l].rivals]
  /\ row = [l \in Listings |-> [status |-> "active", declared |-> 0, price |-> FirstPrice, fails |-> 0,
                                oos |-> 0, won |-> 0, lost |-> 0]]
  /\ shop = [l \in Listings |-> [stock |-> 0, price |-> FirstPrice]]
  /\ late = {}
  /\ moves = 0
  /\ spared = {}
  /\ writers = [f \in Fields |-> {}]
  /\ doubt = {}

Spend == moves < MaxMoves /\ moves' = moves + 1

\* Somebody else is between two writes of f, or a save of it is still to come.
Crossed(f, t) == writers[f] \ {t} # {} \/ \E s \in late : StockOf(s[1]) = f
CrossedOf(F, t) == {f \in F : Crossed(f, t)}
Opens(F, t) == writers' = [f \in Fields |-> IF f \in F THEN writers[f] \union {t} ELSE writers[f]]
Closes(f, t) == writers' = [writers EXCEPT ![f] = @ \ {t}]

\* t shows the fields T on the marketplace, which settles them unless somebody crosses,
\* and perhaps those of F, which puts them in doubt.
Settles(T, F, t) == doubt' = (doubt \ T) \union CrossedOf(T, t) \union F
\* t saves f in the row.
Keeps(f, t) == doubt' = doubt \union CrossedOf({f}, t)

Declare(l, q) == shop' = [shop EXCEPT ![l].stock = q]
SaveDeclared(l, q) == row' = [row EXCEPT ![l].declared = q]

\* external: the marketplace refuses, or its answer is lost
DeclareFails(l, q) ==
  /\ Spend
  /\ shop' \in {shop, [shop EXCEPT ![l].stock = q]}
  /\ doubt' = doubt \union {StockOf(l)}

\* No key and no supplier with credit: a sale of the listing cannot be served.
Dry(l) == supply[l].keys = 0 /\ Credited(supply[l].offers) = {}

SupplyMoves ==
  /\ Spend
  /\ \E l \in Listings, s \in Supplies :
       s # supply[l] /\ supply' = [supply EXCEPT ![l] = s]
  /\ UNCHANGED <<mode, row, shop, rivals, late, spared, writers, doubt>>

RivalsMove ==
  /\ Spend
  /\ \E l \in Listings, r \in Rivals :
       r # rivals[l] /\ rivals' = [rivals EXCEPT ![l] = r]
  /\ UNCHANGED <<mode, row, shop, supply, late, spared, writers, doubt>>
===============================================================================
