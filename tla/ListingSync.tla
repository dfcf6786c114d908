------------------------------ MODULE ListingSync ------------------------------
(***************************************************************************)
(* Runs of reconcile-seller-listings over the listings of one marketplace  *)
(* that takes batches.  A run has one phase, the one its route asks for;   *)
(* pricing, declared stock and remote stock have a route and a schedule    *)
(* each and administrators have two more, no run looks whether another is  *)
(* in progress.  A run loads its listings, decides for all of them, then   *)
(* pushes and saves; when the marketplace refuses a part of a batch of     *)
(* stock, or the answer is lost, all of it is pushed one by one.           *)
(*                                                                         *)
(* Left out: the budget of paid price changes, dampening and oscillation,  *)
(* manual floors and the bypass of the guard, the realised net, currencies,*)
(* the caches of cost bases and of rivals' prices (both taken as current), *)
(* failing reads, listings that are not declared_stock.                    *)
(***************************************************************************)
EXTENDS ListingBooks

CONSTANT PhaseOf

Phases == {"pricing", "declared", "remote"}

ASSUME PhasesType == PhaseOf \in [Runs -> Phases]

VARIABLES
  run,   \* where each run is, with what it read, planned and has still to do
  past   \* history: the runs that another run's price of a listing has overtaken

syncVars == <<run, past>>

NoPlan == [l \in {} |-> 0]

\* todo and unpriced: stock to push and prices to correct one by one; priced and
\* unsaved: prices and stock pushed and not yet saved.
Rested == [at |-> "load", seen |-> NoPlan, plan |-> NoPlan,
           todo |-> {}, unpriced |-> {}, priced |-> {}, unsaved |-> {}]

SyncInit == run = [t \in Runs |-> Rested] /\ past = [l \in Listings |-> {}]

RunAt(t, where) == run[t].at = where
Pricing(t) == PhaseOf[t] = "pricing"
Planned(t) == DOMAIN run[t].plan
PlanOf(t, l) == run[t].plan[l]
Awake == {t \in Runs : ~RunAt(t, "load")}
Fixes(t) == {l \in Planned(t) : PlanOf(t, l).qty > 0 /\ PlanOf(t, l).price > 0}

\* Mutant of Onward: what was left to do is carried into the next run.
OnwardUnfinished(t, r) ==
  CASE r.at = "saveprices" /\ r.priced = {} ->
         IF Pricing(t) THEN [Rested EXCEPT !.todo = DOMAIN r.plan] ELSE [r EXCEPT !.at = "push"]
    [] r.at = "fixeach" /\ r.unpriced \union r.priced = {} -> [r EXCEPT !.at = "push"]
    [] r.at = "flush" /\ r.todo \union r.priced \union r.unsaved = {} -> Rested
    [] OTHER -> r

\* A stage that has nothing left to do gives way to the next, the last one to rest.
Onward(t, r) ==
  CASE r.at = "saveprices" /\ r.priced = {} -> IF Pricing(t) THEN Rested ELSE [r EXCEPT !.at = "push"]
    [] r.at = "fixeach" /\ r.unpriced \union r.priced = {} -> [r EXCEPT !.at = "push"]
    [] r.at = "flush" /\ r.todo \union r.priced \union r.unsaved = {} -> Rested
    [] OTHER -> r

\* t goes on as r, having written the prices of the listings A, which overtakes the others.
Proceed(t, r, A) ==
  /\ run' = [run EXCEPT ![t] = Onward(t, r)]
  /\ past' = [l \in Listings |-> (past[l] \union (IF l \in A THEN Awake \ {t} ELSE {}))
                                   \ (IF Onward(t, r) = Rested THEN {t} ELSE {})]
-------------------------------------------------------------------------------
\* What a phase loads: the remote phase takes paused listings too.
Loaded(t) ==
  {l \in Listings :
     CASE PhaseOf[t] = "pricing" -> row[l].status = "active" /\ mode[l].autoPrice
       [] PhaseOf[t] = "declared" -> row[l].status = "active"
       [] PhaseOf[t] = "remote" -> row[l].status \in {"active", "paused"}}

Load(t) ==
  /\ RunAt(t, "load")
  /\ run' = [run EXCEPT ![t] = [Rested EXCEPT !.at = "decide",
               !.seen = [l \in Loaded(t) |-> [declared |-> row[l].declared, price |-> row[l].price, oos |-> row[l].oos]]]]
  /\ past' = [l \in Listings |-> past[l] \union (IF writers[PriceOf(l)] = {} THEN {} ELSE {t})]
  /\ UNCHANGED bookVars

Stay == [qty |-> -1, price |-> 0, cost |-> 0]
Plan(q, p, c) == [qty |-> q, price |-> p, cost |-> c]

\* The floor is computed from keys in stock or else from the cheapest supplier,
\* with or without credit.
CostOf(l) ==
  IF supply[l].keys > 0 THEN supply[l].keyCost
  ELSE IF supply[l].offers = {} THEN 0 ELSE Cheapest(supply[l].offers).cost

\* processListing and resolvePriceTarget of the auto-pricing service
TargetPrice(t, l) ==
  LET cost == CostOf(l)
      net == mode[l].net
      stored == run[t].seen[l].price
      shown == rivals[l] # << >> \/ shop[l].stock > 0
      published == Published(shop[l].price, net)
      noRatio == net /\ mode[l].smart /\ (stored = 0 \/ published = 0)
  IN  IF cost = 0 THEN stored
      ELSE IF stored > 0 /\ stored < EffectiveMin(cost, net) THEN EffectiveMin(cost, net)
      ELSE IF noRatio THEN stored
      ELSE IF ~(mode[l].smart /\ shown) THEN Suggested(cost, rivals[l], net)
      ELSE IF rivals[l] = << >> THEN stored
      ELSE Positioned(cost, rivals[l], net, stored, published)

PricingPlan(t, l) ==
  LET stored == run[t].seen[l].price
      floor == EffectiveMin(CostOf(l), mode[l].net)
      target == TargetPrice(t, l)
      corrects == stored > 0 /\ stored < floor
  IN  IF target # stored /\ (corrects \/ WorthIt(stored, target))
        THEN Plan(-1, target, CostOf(l)) ELSE Stay

\* Mutant of UneconomicPlan: the price is left to the pricing phase.
UneconomicPlanOnTrust(t, l) ==
  LET o == Cheapest(Credited(supply[l].offers)) IN Plan(AtLeastOne(o), 0, o.cost)

\* An uneconomic listing is shown all the same, at a corrected price.
UneconomicPlan(t, l) ==
  LET o == Cheapest(Credited(supply[l].offers))
      corrects == mode[l].autoPrice \/ PhaseOf[t] = "remote"
  IN  Plan(AtLeastOne(o), IF corrects THEN Corrected(o.cost, rivals[l], mode[l].net) ELSE 0, o.cost)

KeysPlan(t, l) ==
  IF supply[l].keys = run[t].seen[l].declared THEN Stay ELSE Plan(supply[l].keys, 0, 0)

\* What the remote phase does with a listing nothing stands behind, and a mutant of
\* what the declared phase does: nothing, when it is recorded as hidden already.
HiddenOnce(t, l) == IF run[t].seen[l].declared = 0 THEN Stay ELSE Plan(0, 0, 0)
HiddenPlan(t, l) == Plan(0, 0, 0)

BackersOf(t, l) == Backers(supply[l].offers, run[t].seen[l].price, mode[l].net)

\* ProcurementDeclaredStockReconcileService.execute, for one listing
DeclaredPlan(t, l) ==
  LET o == Cheapest(BackersOf(t, l))
      required == Corrected(o.cost, rivals[l], mode[l].net)
      corrects == mode[l].autoPrice /\ run[t].seen[l].price < required
  IN  CASE supply[l].keys > 0 -> KeysPlan(t, l)
        [] supply[l].keys = 0 /\ BackersOf(t, l) # {} ->
             IF CapQuantity(o) = run[t].seen[l].declared /\ ~corrects THEN Stay
             ELSE Plan(CapQuantity(o), IF corrects THEN required ELSE 0, o.cost)
        [] supply[l].keys = 0 /\ BackersOf(t, l) = {} ->
             IF Credited(supply[l].offers) # {} THEN UneconomicPlan(t, l) ELSE HiddenPlan(t, l)

\* collectDeclaredStockDecision of the stock sync
RemotePlan(t, l) ==
  LET o == Cheapest(BackersOf(t, l)) IN
    IF supply[l].keys > 0 \/ ~mode[l].follows THEN KeysPlan(t, l)
    ELSE IF BackersOf(t, l) # {} THEN Plan(CapQuantity(o), 0, o.cost)
    ELSE IF Credited(supply[l].offers) # {} THEN UneconomicPlan(t, l) ELSE HiddenOnce(t, l)

Decision(t, l) ==
  CASE PhaseOf[t] = "pricing" -> PricingPlan(t, l)
    [] PhaseOf[t] = "declared" -> DeclaredPlan(t, l)
    [] PhaseOf[t] = "remote" -> RemotePlan(t, l)

\* Keys, offers, wallets and rivals are read after the listings.
Decide(t) ==
  /\ RunAt(t, "decide")
  /\ LET acts == {l \in DOMAIN run[t].seen : Decision(t, l) # Stay}
         fixes == {l \in acts : Decision(t, l).qty > 0 /\ Decision(t, l).price > 0}
     IN  IF acts = {} THEN Proceed(t, Rested, {})
         ELSE Proceed(t, [run[t] EXCEPT !.at = IF Pricing(t) \/ fixes # {} THEN "prices" ELSE "push",
                                        !.plan = [l \in acts |-> Decision(t, l)],
                                        !.seen = IF Pricing(t) THEN @ ELSE NoPlan], {})
  /\ UNCHANGED bookVars
-------------------------------------------------------------------------------
(* Prices *)

PricesOf(A) == {PriceOf(l) : l \in A}

\* The marketplace asks for the listings of A what t planned, and no less than least.
AsksFrom(t, A, least) ==
  shop' = [l \in Listings |-> IF l \in A THEN [shop[l] EXCEPT !.price = Max({PlanOf(t, l).price, least})] ELSE shop[l]]

\* The marketplace takes the prices of A of those in P and answers, or the answer is lost.
PricesAnswered(t, P, A, least) ==
  /\ AsksFrom(t, A, least)
  /\ Settles(PricesOf(A), PricesOf(P \ A), t)
  /\ IF A = P THEN UNCHANGED moves ELSE Spend
PricesLost(t, P, least) ==
  /\ Spend
  /\ \E A \in SUBSET P : AsksFrom(t, A, least)
  /\ doubt' = doubt \union PricesOf(P)

\* Mutant of PushPrices: a listing the marketplace refused is not saved, and so neither
\* are the others.
PushPricesUnsaved(t) ==
  /\ RunAt(t, "prices") /\ Pricing(t)
  /\ \E A \in SUBSET Planned(t) :
       /\ PricesAnswered(t, Planned(t), A, ProviderFloor)
       /\ Proceed(t, Rested, Planned(t))
  /\ UNCHANGED <<mode, row, supply, rivals, late, spared, writers>>

\* flushBatchUpdates of the auto-pricing service.  batchUpdateListingPrices raises what
\* it pushes to the provider's floor; what is saved is not raised.
PushPrices(t) ==
  /\ RunAt(t, "prices") /\ Pricing(t)
  /\ \/ \E A \in SUBSET Planned(t) :
          /\ PricesAnswered(t, Planned(t), A, ProviderFloor)
          /\ Opens(PricesOf(Planned(t)), t)
          /\ Proceed(t, [run[t] EXCEPT !.at = "saveprices", !.priced = Planned(t)], Planned(t))
     \/ /\ PricesLost(t, Planned(t), ProviderFloor)
        /\ Proceed(t, Rested, Planned(t))
        /\ UNCHANGED writers
  /\ UNCHANGED <<mode, row, supply, rivals, late, spared>>

\* Whether the corrected prices of a batch are saved, when those of A were taken.
SavesPrices(t, A) == PhaseOf[t] = "declared" => A # {}

\* Prices are corrected before stock is declared, if they can be.
FixPrices(t) ==
  /\ RunAt(t, "prices") /\ ~Pricing(t)
  /\ \/ \E A \in SUBSET Fixes(t) :
          /\ PricesAnswered(t, Fixes(t), A, 0)
          /\ LET saved == IF SavesPrices(t, A) THEN Fixes(t) ELSE {} IN
               /\ Opens(PricesOf(saved), t)
               /\ Proceed(t, [run[t] EXCEPT !.at = "saveprices", !.priced = saved], Fixes(t))
     \/ /\ PricesLost(t, Fixes(t), 0)
        /\ Proceed(t, [run[t] EXCEPT !.at = "fixeach", !.unpriced = Fixes(t)], Fixes(t))
        /\ UNCHANGED writers
  /\ UNCHANGED <<mode, row, supply, rivals, late, spared>>

\* Nothing is left to save, and no other listing is between its correction and its stock.
Turn(t, l) ==
  /\ run[t].priced = {} /\ run[t].unsaved = {}
  /\ run[t].todo \intersect Fixes(t) \subseteq run[t].unpriced \union {l}

\* One price, in a batch of its own or by updateListing, and before its stock when that
\* is pushed singly too.  It is saved whatever the marketplace answers, unless that raises.
FixOne(t, l) ==
  /\ run[t].at \in {"fixeach", "flush"}
  /\ l \in run[t].unpriced /\ Turn(t, l)
  /\ LET rest == [run[t] EXCEPT !.unpriced = @ \ {l}] IN
       \/ \E A \in SUBSET {l} :
            /\ PricesAnswered(t, {l}, A, 0)
            /\ Opens({PriceOf(l)}, t)
            /\ Proceed(t, [rest EXCEPT !.priced = {l}], {l})
       \/ /\ PricesLost(t, {l}, 0)
          /\ Proceed(t, rest, {l})
          /\ UNCHANGED writers
  /\ UNCHANGED <<mode, row, supply, rivals, late, spared>>

\* Refused or not, every price of the batch is saved; with it the pricing phase writes
\* provider_metadata back as it was loaded, and so the count of "out of stock" in it.
SavePrice(t, l) ==
  /\ l \in run[t].priced
  /\ row' = [row EXCEPT ![l].price = PlanOf(t, l).price,
                        ![l].oos = IF Pricing(t) THEN run[t].seen[l].oos ELSE @]
  /\ Keeps(PriceOf(l), t) /\ Closes(PriceOf(l), t)
  /\ Proceed(t, [run[t] EXCEPT !.priced = @ \ {l}], {l})
  /\ UNCHANGED <<mode, shop, supply, rivals, late, moves, spared>>
-------------------------------------------------------------------------------
(* Stock *)

StocksOf(A) == {StockOf(l) : l \in A}
ShopStock(t, A) == [l \in Listings |-> IF l \in A THEN [shop[l] EXCEPT !.stock = PlanOf(t, l).qty] ELSE shop[l]]

\* batchUpdateDeclaredStock; unless all is accepted everything is pushed again, singly
PushStocks(t) ==
  /\ RunAt(t, "push")
  /\ \/ /\ shop' = ShopStock(t, Planned(t))
        /\ Settles(StocksOf(Planned(t)), {}, t)
        /\ Opens(StocksOf(Planned(t)), t)
        /\ Proceed(t, [run[t] EXCEPT !.at = "flush", !.unsaved = Planned(t)], {})
        /\ UNCHANGED moves
     \/ /\ Spend
        /\ \E A \in SUBSET Planned(t) : shop' = ShopStock(t, A)
        /\ doubt' = doubt \union StocksOf(Planned(t))
        /\ Proceed(t, [run[t] EXCEPT !.at = "flush", !.todo = Planned(t), !.unpriced = Fixes(t)], {})
        /\ UNCHANGED writers
  /\ UNCHANGED <<mode, row, supply, rivals, late, spared>>

\* A stock that was not taken may be recorded all the same: as hidden whatever the
\* marketplace answers, and by the declared phase when the failure looks transient; that
\* save nobody waits for.
PushOne(t, l) ==
  /\ RunAt(t, "flush")
  /\ l \in run[t].todo \ run[t].unpriced /\ Turn(t, l)
  /\ LET q == PlanOf(t, l).qty
         rest == [run[t] EXCEPT !.todo = @ \ {l}]
         saving == Opens({StockOf(l)}, t) /\ Proceed(t, [rest EXCEPT !.unsaved = {l}], {})
     IN  \/ /\ Declare(l, q) /\ Settles({StockOf(l)}, {}, t)
            /\ saving
            /\ UNCHANGED <<late, moves>>
         \/ /\ DeclareFails(l, q)
            /\ \/ q = 0 /\ saving /\ UNCHANGED late
               \/ /\ late' \in {late, IF PhaseOf[t] = "declared" THEN late \union {<<l, q>>} ELSE late}
                  /\ Proceed(t, rest, {})
                  /\ UNCHANGED writers
  /\ UNCHANGED <<mode, row, supply, rivals, spared>>

SaveStock(t, l) ==
  /\ l \in run[t].unsaved
  /\ SaveDeclared(l, PlanOf(t, l).qty)
  /\ Keeps(StockOf(l), t) /\ Closes(StockOf(l), t)
  /\ Proceed(t, [run[t] EXCEPT !.unsaved = @ \ {l}], {})
  /\ UNCHANGED <<mode, shop, supply, rivals, late, moves, spared>>

SaveLate ==
  /\ \E s \in late : SaveDeclared(s[1], s[2]) /\ late' = late \ {s}
  /\ UNCHANGED <<mode, shop, supply, rivals, moves, spared, writers, doubt, syncVars>>

RunStep(t) ==
  \/ Load(t) \/ Decide(t)
  \/ PushPrices(t) \/ FixPrices(t) \/ PushStocks(t)
  \/ \E l \in Listings : FixOne(t, l) \/ SavePrice(t, l) \/ PushOne(t, l) \/ SaveStock(t, l)
===============================================================================
