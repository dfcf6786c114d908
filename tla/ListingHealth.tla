----------------------------- MODULE ListingHealth -----------------------------
(***************************************************************************)
(* What a RESERVE callback of a marketplace does to its listing: it counts *)
(* the outcome, pauses a listing that keeps failing, and hides one that is *)
(* out of stock.  Beside it, what administrators do to a listing.  Alerts, *)
(* provision counters and price-change timestamps are left out.            *)
(***************************************************************************)
EXTENDS ListingBooks

CONSTANTS PauseAt, OosPauseAt

ASSUME ThresholdsType == {PauseAt, OosPauseAt} \subseteq Nat \ {0}

VARIABLE task

Outcomes == {"sold", "out_of_stock", "unexpected", "misconfigured"}

Resting == [at |-> "idle", on |-> CHOOSE l \in Listings : TRUE, outcome |-> "sold", qty |-> 0,
            seen |-> [status |-> "active", fails |-> 0, oos |-> 0, won |-> 0, lost |-> 0]]

HealthInit == task = [t \in Callbacks |-> Resting]

TaskAt(t, where) == task[t].at = where
TaskTo(t, where) == task' = IF where = "idle" THEN [task EXCEPT ![t] = Resting] ELSE [task EXCEPT ![t].at = where]
On(t) == task[t].on
Seen(t) == task[t].seen

\* The claim of a shown listing has ended and updateHealthCounters has read the row.
Callback(t) ==
  /\ TaskAt(t, "idle")
  /\ Spend
  /\ \E l \in Listings, o \in Outcomes :
       /\ shop[l].stock > 0
       /\ o = "sold" => ~Dry(l)
       /\ LET r == row[l] IN
            task' = [task EXCEPT ![t] = [at |-> "count", on |-> l, outcome |-> o, qty |-> 0,
              seen |-> [status |-> r.status, fails |-> r.fails, oos |-> r.oos, won |-> r.won, lost |-> r.lost]]]
       /\ supply' = IF o = "sold" /\ supply[l].keys > 0
                      THEN [supply EXCEPT ![l].keys = @ - 1] ELSE supply
  /\ UNCHANGED <<mode, row, shop, rivals, late, spared, writers, doubt>>

\* computeLogRatio >= 0.4 in integers: log(lost) / log(won) >= 2/5
FailsTooOften(won, lost) == won >= 2 /\ lost >= 1 /\ lost^5 >= won^2

\* Mutant of Breached: one failure late.
BreachedLate(t) ==
  IF task[t].outcome = "sold" THEN FailsTooOften(Seen(t).won + 1, Seen(t).lost)
  ELSE Seen(t).fails >= PauseAt \/ FailsTooOften(Seen(t).won, Seen(t).lost + 1)

Breached(t) ==
  IF task[t].outcome = "sold" THEN FailsTooOften(Seen(t).won + 1, Seen(t).lost)
  ELSE Seen(t).fails + 1 >= PauseAt \/ FailsTooOften(Seen(t).won, Seen(t).lost + 1)

\* Only some failures go on to propagateVariantUnavailable.
AfterHealth(t) == IF task[t].outcome \in {"out_of_stock", "unexpected"} THEN "spread" ELSE "idle"

\* The counters are written back from what was read; "out of stock" has a counter
\* of its own and leaves the others as they were read.
Count(t) ==
  /\ TaskAt(t, "count")
  /\ LET s == Seen(t)
         wasActive == s.status = "active"
     IN  CASE task[t].outcome = "sold" ->
                /\ row' = [row EXCEPT ![On(t)].fails = 0, ![On(t)].oos = IF s.oos = 0 THEN @ ELSE 0,
                                      ![On(t)].won = s.won + 1, ![On(t)].lost = s.lost]
                /\ TaskTo(t, IF Breached(t) /\ wasActive THEN "pause" ELSE "idle")
           [] task[t].outcome = "out_of_stock" ->
                /\ row' = [row EXCEPT ![On(t)].fails = s.fails, ![On(t)].oos = s.oos + 1]
                /\ TaskTo(t, IF s.oos + 1 >= OosPauseAt /\ wasActive THEN "trip" ELSE "spread")
           [] OTHER ->
                /\ row' = [row EXCEPT ![On(t)].fails = s.fails + 1,
                                      ![On(t)].won = s.won, ![On(t)].lost = s.lost + 1]
                /\ TaskTo(t, IF Breached(t) /\ wasActive THEN "pause" ELSE AfterHealth(t))
  /\ UNCHANGED <<mode, shop, supply, rivals, late, moves, spared, writers, doubt>>

Pause(t) ==
  /\ TaskAt(t, "pause")
  /\ row' = [row EXCEPT ![On(t)].status = "paused"]
  /\ spared' = spared \ {On(t)}
  /\ TaskTo(t, AfterHealth(t))
  /\ UNCHANGED <<mode, shop, supply, rivals, late, moves, writers, doubt>>

\* tripOutOfStockCircuit: the row first, then the marketplace
Trip(t) ==
  /\ TaskAt(t, "trip")
  /\ row' = [row EXCEPT ![On(t)].status = "paused", ![On(t)].declared = 0]
  /\ spared' = spared \ {On(t)}
  /\ TaskTo(t, "hide")
  /\ Opens({StockOf(On(t))}, t) /\ Settles({StockOf(On(t))}, {}, t)
  /\ UNCHANGED <<mode, shop, supply, rivals, late, moves>>

\* A failure is not repeated: what is paused the reconciliation does not load.
Hide(t) ==
  /\ TaskAt(t, "hide")
  /\ \/ Declare(On(t), 0) /\ Keeps(StockOf(On(t)), t) /\ UNCHANGED moves
     \/ DeclareFails(On(t), 0)
  /\ TaskTo(t, "spread")
  /\ Closes(StockOf(On(t)), t)
  /\ UNCHANGED <<mode, row, supply, rivals, late, spared>>

\* propagateVariantUnavailable and pushZeroStock, for a listing that is active still
Spread(t) ==
  /\ TaskAt(t, "spread")
  /\ \/ /\ row[On(t)].status = "active"
        /\ Declare(On(t), 0) /\ Settles({StockOf(On(t))}, {}, t) /\ Opens({StockOf(On(t))}, t)
        /\ TaskTo(t, "save")
        /\ UNCHANGED moves
     \/ /\ row[On(t)].status = "active"
        /\ DeclareFails(On(t), 0)
        /\ TaskTo(t, "idle")
        /\ UNCHANGED writers
     \/ /\ row[On(t)].status # "active"
        /\ TaskTo(t, "idle")
        /\ UNCHANGED <<shop, writers, moves, doubt>>
  /\ UNCHANGED <<mode, row, supply, rivals, late, spared>>

SaveShown(t) ==
  /\ TaskAt(t, "save")
  /\ SaveDeclared(On(t), task[t].qty)
  /\ Keeps(StockOf(On(t)), t) /\ Closes(StockOf(On(t)), t)
  /\ TaskTo(t, "idle")
  /\ UNCHANGED <<mode, shop, supply, rivals, late, moves, spared>>
-------------------------------------------------------------------------------
(* Administrators *)

\* setSellerListingManualDeclaredStock: nothing is saved unless the push succeeds
SetDeclaredStock(t) ==
  /\ TaskAt(t, "idle")
  /\ \E l \in Listings, q \in 0..MaxShown :
       \/ /\ Spend
          /\ Declare(l, q) /\ Settles({StockOf(l)}, {}, t) /\ Opens({StockOf(l)}, t)
          /\ task' = [task EXCEPT ![t] = [Resting EXCEPT !.at = "save", !.on = l, !.qty = q]]
       \/ /\ DeclareFails(l, q)
          /\ UNCHANGED <<task, writers>>
  /\ UNCHANGED <<mode, row, supply, rivals, late, spared>>

\* recoverSellerListingHealth; resetting leaves the counter in provider_metadata alone
Recover ==
  /\ Spend
  /\ \E l \in Listings, reset \in BOOLEAN :
       /\ row[l].status = "paused"
       /\ row' = [row EXCEPT ![l] = IF reset THEN [@ EXCEPT !.status = "active", !.fails = 0, !.won = 0, !.lost = 0]
                                             ELSE [@ EXCEPT !.status = "active"]]
       /\ spared' = spared \union {l}
  /\ UNCHANGED <<mode, shop, supply, rivals, late, writers, doubt, task>>

\* HandleGamivoOfferDeactivationUseCase
OfferDeactivated ==
  /\ Spend
  /\ \E l \in Listings :
       /\ row[l].status = "active"
       /\ row' = [row EXCEPT ![l].status = "paused"]
       /\ spared' = spared \ {l}
  /\ UNCHANGED <<mode, shop, supply, rivals, late, writers, doubt, task>>

CallbackStep(t) ==
  Count(t) \/ Pause(t) \/ Trip(t) \/ Hide(t) \/ Spread(t) \/ SaveShown(t)
===============================================================================
