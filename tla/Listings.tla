-------------------------------- MODULE Listings --------------------------------
(***************************************************************************)
(* Listings under all who write them at once: the runs of the              *)
(* reconciliation, the callbacks of the marketplace, administrators, and a *)
(* market that moves.                                                      *)
(***************************************************************************)
EXTENDS ListingHealth, ListingSync, FiniteSets

CONSTANT MaxAtOnce  \* bound: runs and requests in progress at once

ASSUME MaxAtOnceType == MaxAtOnce \in Nat

vars == <<bookVars, task, syncVars>>

Init == BooksInit /\ HealthInit /\ SyncInit

Outside == (SupplyMoves \/ RivalsMove \/ Recover \/ OfferDeactivated) /\ UNCHANGED <<task, syncVars>>

InProgress == Awake \union {t \in Callbacks : ~TaskAt(t, "idle")}
MayBegin == Cardinality(InProgress) < MaxAtOnce

Requested(t) == MayBegin /\ (Callback(t) \/ SetDeclaredStock(t)) /\ UNCHANGED syncVars
Served(t) == CallbackStep(t) /\ UNCHANGED syncVars
Reconciled(t) == (RunAt(t, "load") => MayBegin) /\ RunStep(t) /\ UNCHANGED task
SavedLate == SaveLate /\ UNCHANGED task

\* The process stops: what was pushed and not yet saved is in doubt, and stays so.
Restart ==
  /\ Spend
  /\ doubt' = doubt \union {f \in Fields : writers[f] # {}}
  /\ writers' = [f \in Fields |-> {}]
  /\ late' = {}
  /\ task' = [t \in Callbacks |-> Resting]
  /\ run' = [t \in Runs |-> Rested] /\ past' = [l \in Listings |-> {}]
  /\ spared' = spared \union {On(t) : t \in {u \in Callbacks : TaskAt(u, "pause") \/ TaskAt(u, "trip")}}
  /\ UNCHANGED <<mode, row, shop, supply, rivals>>

Next ==
  \/ Outside \/ Restart \/ SavedLate
  \/ \E t \in Runs : Reconciled(t)
  \/ \E t \in Callbacks : Requested(t) \/ Served(t)

\* Fairness of the scheduler, which starts a run of each phase every few minutes, and of
\* the event loop: each run goes on and comes round again, and every task ends, in terms of
\* states; MaxAtOnce only delays what may begin.  Nothing is asked of the marketplace, of
\* people or of supply.
Fairness ==
  /\ \A t \in Runs : []<>RunAt(t, "load") /\ []<>~RunAt(t, "load")
  /\ \A t \in Callbacks : []<>TaskAt(t, "idle")

Spec == Init /\ [][Next]_vars /\ Fairness
-------------------------------------------------------------------------------
Statuses == {"active", "paused"}
Row == [status : Statuses, declared : Nat, price : Nat, fails : Nat, oos : Nat, won : Nat, lost : Nat]
Task == [at : {"idle", "count", "pause", "trip", "hide", "spread", "save"}, on : Listings, outcome : Outcomes,
         qty : Nat, seen : [status : Statuses, fails : Nat, oos : Nat, won : Nat, lost : Nat]]
Glimpse == [declared : Nat, price : Nat, oos : Nat]
Planning == [qty : Nat \union {-1}, price : Nat, cost : Nat]

RunTypeOK(r) ==
  /\ r \in [at : {"load", "decide", "prices", "saveprices", "fixeach", "push", "flush"}, seen : {r.seen}, plan : {r.plan},
            todo : SUBSET DOMAIN r.plan, unpriced : SUBSET DOMAIN r.plan,
            priced : SUBSET DOMAIN r.plan, unsaved : SUBSET DOMAIN r.plan]
  /\ DOMAIN r.seen \subseteq Listings /\ r.seen \in [DOMAIN r.seen -> Glimpse]
  /\ DOMAIN r.plan \subseteq Listings /\ r.plan \in [DOMAIN r.plan -> Planning]

\* Rows, tasks and runs keep the shape they are given; a run plans for listings alone,
\* never declares or prices below zero, and has work left for what it planned alone.
ListingTypeOK ==
  /\ row \in [Listings -> Row] /\ shop \in [Listings -> [stock : Nat, price : Nat]]
  /\ writers \in [Fields -> SUBSET BookTasks] /\ doubt \subseteq Fields
  /\ late \subseteq Listings \X Nat
  /\ task \in [Callbacks -> Task]
  /\ DOMAIN run = Runs /\ \A t \in Runs : RunTypeOK(run[t])
  /\ past \in [Listings -> SUBSET Runs]

\* While nobody is between pushing and saving a field, and since no push of it failed and
\* no two writers crossed, seller_listings says what the marketplace shows: its stock, and
\* its price unless the pricing run pushed the provider's floor and saved less.  Whatever
\* is skipped "because nothing has changed" relies on it.
BooksMatchShop ==
  \A l \in Listings :
    /\ writers[StockOf(l)] = {} /\ StockOf(l) \notin doubt => row[l].declared = shop[l].stock
    /\ writers[PriceOf(l)] = {} /\ PriceOf(l) \notin doubt
         => shop[l].price \in {row[l].price, Max({row[l].price, ProviderFloor})}

\* An active listing that no task is serving has not reached either breaker, unless
\* somebody resumed it by hand or a restart came before the pause: overlapping
\* callbacks and runs may lose a count, but none steps over the threshold.
BreakersHold ==
  \A l \in Listings :
    row[l].status = "active" /\ l \notin spared /\ (\A t \in Callbacks : TaskAt(t, "idle") \/ On(t) # l)
      => row[l].fails < PauseAt /\ row[l].oos < OosPauseAt

\* The step declares planned stock that a supplier is to deliver.
Declares(t, l) ==
  /\ PushStocks(t) \/ PushOne(t, l)
  /\ l \in Planned(t) /\ PlanOf(t, l).qty > 0 /\ PlanOf(t, l).cost > 0
  /\ shop'[l].stock = PlanOf(t, l).qty

\* When a run declares what a supplier would deliver for a listing it may price, the
\* marketplace asks a price that covers that supplier's cost and the margin, unless a push
\* of the price failed or crossed another, an overlapping run has priced the listing since
\* this one loaded it, or it has no price: "price corrections must be pushed before
\* declaring stock".
NeverDeclaredAtALoss ==
  [][\A t \in Runs, l \in Listings :
       Declares(t, l) /\ mode[l].autoPrice /\ PriceOf(l) \notin doubt /\ t \notin past[l] /\ row[l].price > 0
         => shop[l].price >= ProfitFloor(PlanOf(t, l).cost, mode[l].net)]_vars

\* Whatever the rivals ask, a price the pricing phase decides on covers break-even, the
\* margin and the provider's floor.  (Not so for a net listing that has no rivals then,
\* or no smart pricing: see the README.)
NeverPricedBelowFloor ==
  [][\A t \in Runs : Decide(t) /\ Pricing(t) =>
       \A l \in DOMAIN run'[t].plan :
         (mode[l].net => mode[l].smart /\ rivals[l] # << >>)
           => run'[t].plan[l].price >= EffectiveMin(run'[t].plan[l].cost, mode[l].net)]_vars

\* A listing that nothing stands behind is hidden in the end, though pushes fail, the
\* process restarts and others write the listing meanwhile; or supply returns, or it
\* is paused.
DryListingsHide ==
  \A l \in Listings :
    Dry(l) /\ row[l].status = "active" ~> shop[l].stock = 0 \/ ~Dry(l) \/ row[l].status # "active"
===============================================================================
